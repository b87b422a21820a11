---------------------------- MODULE ListsProofs ----------------------------
(***************************************************************************)
(* What the models compute of sequences, for sequences of any length:      *)
(* Total and its partial sums, sequences put together from others, and the *)
(* sorted pairs of a leaf with the edits that are merged into them.        *)
(*                                                                         *)
(* Induction enters through the least number for which something is wrong, *)
(* which exists because < is well-founded on the natural numbers.          *)
(***************************************************************************)
EXTENDS Sums, PairLists, SequenceTheorems, FiniteSetTheorems, WellFoundedInduction, TLAPS

\* Less-than on the natural numbers, as the set of its pairs.
Less == {p \in Nat \X Nat : p[1] < p[2]}

\* A set of natural numbers that is not empty has a least one.
LEMMA LeastNat ==
  ASSUME NEW T \in SUBSET Nat, T # {}
  PROVE  \E m \in T : \A n \in T : m <= n
<1>1. IsWellFoundedOn(Less, Nat)
  BY NatLessThanWellFounded, Zenon DEF OpToRel, Less
<1>2. PICK m \in T : \A n \in T : <<n, m>> \notin Less
  BY <1>1, WFMin
<1>3. ASSUME NEW n \in T PROVE m <= n
  <2>1. <<n, m>> \in (Nat \X Nat) \ Less
    BY <1>2
  <2> QED
    BY <2>1 DEF Less
<1> QED BY <1>3

\* What holds for 0, and for every number up to N if it holds for the one
\* before, holds for all numbers up to N.  Good is the set of those it holds for.
LEMMA UpToInduction ==
  ASSUME NEW N \in Nat, NEW Good, 0 \in Good,
         \A n \in 1..N : n - 1 \in Good => n \in Good
  PROVE  0..N \subseteq Good
<1> SUFFICES ASSUME (0..N) \ Good # {} PROVE FALSE
  OBVIOUS
<1>1. PICK m \in (0..N) \ Good : \A n \in (0..N) \ Good : m <= n
  <2>1. (0..N) \ Good \in SUBSET Nat
    OBVIOUS
  <2> QED
    BY <2>1, LeastNat
<1>2. m \in 1..N /\ m - 1 \in 0..N
  BY <1>1
<1>3. m - 1 \in Good
  BY <1>1, <1>2
<1> QED
  BY <1>1, <1>2, <1>3

-----------------------------------------------------------------------------
(* Partial sums *)

\* p[i] is the sum of the first i elements of s.
PartialSums(p, s) ==
  /\ p \in [0..Len(s) -> Nat]
  /\ p[0] = 0
  /\ \A i \in 1..Len(s) : p[i] = p[i - 1] + s[i]

\* it[T] is the sum of the elements of s with an index in T: what the fold over
\* the indices 1..n computes.
Folded(it, s, n) ==
  it = [T \in SUBSET (1..n) |->
          IF T = {} THEN 0 ELSE it[T \ {Max(T)}] + s[Max(T)]]

\* The largest index is the last one.
LEMMA MaxUpTo ==
  ASSUME NEW n \in Nat, NEW T \in SUBSET (1..n), n \in T
  PROVE  Max(T) = n
<1>1. n \in T /\ \A y \in T : n >= y
  OBVIOUS
<1>2. ASSUME NEW x \in T, \A y \in T : x >= y PROVE x = n
  BY <1>1, <1>2
<1> QED
  BY <1>1, <1>2 DEF Max

\* The fold over indices is defined: each step takes the largest index off.
LEMMA FoldedExists ==
  ASSUME NEW s, NEW N \in Nat
  PROVE  \E it : Folded(it, s, N)
<1> DEFINE Good == {n \in 0..N : \E it : Folded(it, s, n)}
<1>1. 0 \in Good
  <2>1. SUBSET (1..0) = {{}}
    OBVIOUS
  <2>2. Folded([T \in SUBSET (1..0) |-> 0], s, 0)
    BY <2>1 DEF Folded
  <2> QED
    BY <2>2
<1>2. ASSUME NEW n \in 1..N, n - 1 \in Good PROVE n \in Good
  <2>1. PICK it : Folded(it, s, n - 1)
    BY <1>2
  <2> DEFINE g == [T \in SUBSET (1..n) |->
                     IF n \in T THEN it[T \ {n}] + s[n] ELSE it[T]]
  <2>2. ASSUME NEW T \in SUBSET (1..n)
        PROVE  g[T] = IF T = {} THEN 0 ELSE g[T \ {Max(T)}] + s[Max(T)]
    <3>1. CASE T = {}
      BY <2>1, <3>1 DEF Folded
    <3>2. CASE n \in T
      <4>1. Max(T) = n
        BY <3>2, MaxUpTo
      <4>2. T \ {n} \in SUBSET (1..n) /\ n \notin T \ {n}
        OBVIOUS
      <4> QED
        BY <3>2, <4>1, <4>2
    <3>3. CASE T # {} /\ n \notin T
      <4>a. \A x \in T : x \in 1..(n - 1)
        BY <3>3
      <4>1. T \in SUBSET (1..(n - 1)) /\ T \ {Max(T)} \in SUBSET (1..n)
        BY <4>a
      <4>2. it[T] = it[T \ {Max(T)}] + s[Max(T)]
        BY <2>1, <3>3, <4>1 DEF Folded
      <4> QED
        BY <3>3, <4>1, <4>2
    <3> QED BY <3>1, <3>2, <3>3
  <2>3. Folded(g, s, n)
    BY <2>2 DEF Folded
  <2> QED
    BY <2>3
<1> HIDE DEF Good
<1>3. 0..N \subseteq Good
  BY <1>1, <1>2, UpToInduction
<1> QED
  BY <1>3 DEF Good

\* The total of a sequence of numbers is the last of its partial sums.
LEMMA PartialSumsExist ==
  ASSUME NEW s \in Seq(Nat)
  PROVE  \E p : PartialSums(p, s) /\ Total(s) = p[Len(s)]
<1>1. PICK it : Folded(it, s, Len(s)) /\ Total(s) = it[1..Len(s)]
  <2>1. DOMAIN s = 1..Len(s) /\ Len(s) \in Nat
    OBVIOUS
  <2>2. \E it : Folded(it, s, Len(s))
    BY <2>1, FoldedExists
  <2> QED
    BY <2>1, <2>2 DEF Total, FoldLeft, MapThenFoldSet, Folded
<1>a. Len(s) \in Nat /\ \A i \in 1..Len(s) : s[i] \in Nat
  OBVIOUS
<1> DEFINE p == [i \in 0..Len(s) |-> it[1..i]]
<1>2. p[0] = 0
  <2>1. 1..0 = {} /\ {} \in SUBSET (1..Len(s))
    OBVIOUS
  <2> QED
    BY <1>1, <2>1 DEF Folded
<1>3. ASSUME NEW i \in 1..Len(s) PROVE p[i] = p[i - 1] + s[i]
  <2>a. \A j \in 1..i : j \in 1..Len(s)
    BY <1>a
  <2>b. i \in 1..i /\ i - 1 \in 0..Len(s)
    BY <1>a
  <2>1. 1..i \in SUBSET (1..Len(s)) /\ 1..i # {} /\ i - 1 \in 0..Len(s)
    BY <2>a, <2>b
  <2>2. Max(1..i) = i
    BY MaxUpTo
  <2>3. (1..i) \ {i} = 1..(i - 1)
    OBVIOUS
  <2>4. it[1..i] = it[1..(i - 1)] + s[i]
    BY <1>1, <2>1, <2>2, <2>3 DEF Folded
  <2> QED
    BY <2>1, <2>4
<1>4. \A i \in 0..Len(s) : p[i] \in Nat
  <2> DEFINE Good == {i \in 0..Len(s) : p[i] \in Nat}
  <2>1. 0 \in Good
    BY <1>2
  <2>2. ASSUME NEW i \in 1..Len(s), i - 1 \in Good PROVE i \in Good
    <3>1. p[i - 1] \in Nat /\ s[i] \in Nat /\ i \in 0..Len(s)
      BY <1>a, <2>2
    <3>2. p[i] = p[i - 1] + s[i]
      BY <1>3
    <3> HIDE DEF p
    <3> QED
      BY <3>1, <3>2
  <2> HIDE DEF Good
  <2>3. 0..Len(s) \subseteq Good
    BY <1>a, <2>1, <2>2, UpToInduction
  <2> QED
    BY <2>3 DEF Good
<1>5. p \in [0..Len(s) -> Nat]
  BY <1>4
<1>6. Total(s) = p[Len(s)]
  BY <1>1
<1> HIDE DEF p
<1> QED
  BY <1>2, <1>3, <1>5, <1>6 DEF PartialSums

\* Partial sums only depend on the elements that they add up.
LEMMA PartialSumsAgree ==
  ASSUME NEW s \in Seq(Nat), NEW t \in Seq(Nat), NEW p, NEW q,
         PartialSums(p, s), PartialSums(q, t),
         NEW n \in Nat, n <= Len(s), n <= Len(t), \A i \in 1..n : s[i] = t[i]
  PROVE  \A i \in 0..n : p[i] = q[i]
<1> DEFINE Good == {i \in 0..n : p[i] = q[i]}
<1>1. 0 \in Good
  BY DEF PartialSums
<1>2. ASSUME NEW i \in 1..n, i - 1 \in Good PROVE i \in Good
  BY <1>2 DEF PartialSums
<1> HIDE DEF Good
<1>3. n \in Nat
  OBVIOUS
<1>4. 0..n \subseteq Good
  BY <1>1, <1>2, <1>3, UpToInduction
<1> QED
  BY <1>4 DEF Good

-----------------------------------------------------------------------------
(* Totals *)

\* Partial sums that somebody has given are the total's.
LEMMA TotalIs ==
  ASSUME NEW s \in Seq(Nat), NEW p, PartialSums(p, s)
  PROVE  Total(s) = p[Len(s)] /\ Total(s) \in Nat
<1>1. PICK q : PartialSums(q, s) /\ Total(s) = q[Len(s)]
  BY PartialSumsExist
<1>2. \A i \in 0..Len(s) : p[i] = q[i]
  BY <1>1, PartialSumsAgree
<1> QED
  BY <1>1, <1>2 DEF PartialSums

\* The partial sums of a longer sequence that begins with s have its total.
LEMMA TotalOfPrefix ==
  ASSUME NEW s \in Seq(Nat), NEW u \in Seq(Nat), NEW p, PartialSums(p, u),
         Len(s) <= Len(u), \A i \in 1..Len(s) : s[i] = u[i]
  PROVE  p[Len(s)] = Total(s)
<1>1. PICK q : PartialSums(q, s) /\ Total(s) = q[Len(s)]
  BY PartialSumsExist
<1>2. Len(s) \in Nat /\ Len(s) \in 0..Len(s)
  OBVIOUS
<1>3. Len(s) <= Len(s) /\ Len(s) <= Len(u)
  BY <1>2
<1>4. \A i \in 0..Len(s) : q[i] = p[i]
  BY ONLY s \in Seq(Nat), u \in Seq(Nat), PartialSums(p, u), <1>1, <1>2, <1>3,
          \A i \in 1..Len(s) : s[i] = u[i], PartialSumsAgree
<1> QED
  BY <1>1, <1>2, <1>4

\* Nothing has no size.
LEMMA TotalEmpty == Total(<<>>) = 0
<1>1. PartialSums([i \in 0..0 |-> 0], <<>>)
  BY DEF PartialSums
<1> QED
  BY <1>1, TotalIs

\* The total of two sequences put together is that of both.
LEMMA TotalConcat ==
  ASSUME NEW s \in Seq(Nat), NEW t \in Seq(Nat)
  PROVE  /\ Total(s \o t) = Total(s) + Total(t)
         /\ Total(s) \in Nat /\ Total(t) \in Nat
<1> DEFINE st == s \o t
<1>a. Len(s) \in Nat /\ Len(t) \in Nat /\ \A i \in 1..Len(t) : t[i] \in Nat
  OBVIOUS
<1>1. /\ st \in Seq(Nat) /\ Len(st) = Len(s) + Len(t)
      /\ \A i \in 1..Len(s) : st[i] = s[i]
      /\ \A i \in 1..Len(t) : st[Len(s) + i] = t[i]
  OBVIOUS
<1> HIDE DEF st
<1>2. PICK p : PartialSums(p, st) /\ Total(st) = p[Len(st)]
  BY <1>1, PartialSumsExist
<1>3. PICK q : PartialSums(q, s) /\ Total(s) = q[Len(s)]
  BY PartialSumsExist
<1>4. PICK r : PartialSums(r, t) /\ Total(t) = r[Len(t)]
  BY PartialSumsExist
<1>5. p[Len(s)] = q[Len(s)]
  <2>1. Len(s) <= Len(st) /\ \A i \in 1..Len(s) : s[i] = st[i]
    BY <1>a, <1>1
  <2>2. PartialSums(p, st) /\ st \in Seq(Nat)
    BY <1>1, <1>2
  <2>3. p[Len(s)] = Total(s)
    BY ONLY s \in Seq(Nat), <2>1, <2>2, TotalOfPrefix
  <2> QED
    BY <1>3, <2>3
<1>b. /\ \A i \in 0..Len(t) : r[i] \in Nat
      /\ q[Len(s)] \in Nat /\ r[0] = 0
      /\ \A i \in 1..Len(t) : r[i] = r[i - 1] + t[i]
  <2>1. r \in [0..Len(t) -> Nat] /\ q \in [0..Len(s) -> Nat]
    BY <1>3, <1>4 DEF PartialSums
  <2>2. r[0] = 0 /\ \A i \in 1..Len(t) : r[i] = r[i - 1] + t[i]
    BY <1>4 DEF PartialSums
  <2>3. \A i \in 0..Len(t) : r[i] \in Nat
    BY <2>1
  <2>4. q[Len(s)] \in Nat
    <3>1. Len(s) \in 0..Len(s)
      BY <1>a
    <3> QED
      BY <2>1, <3>1
  <2> QED
    BY <2>2, <2>3, <2>4
<1> DEFINE Good == {i \in 0..Len(t) : p[Len(s) + i] = q[Len(s)] + r[i]}
<1>6. 0 \in Good
  BY <1>a, <1>b, <1>5
<1>7. ASSUME NEW i \in 1..Len(t), i - 1 \in Good PROVE i \in Good
  <2>1. Len(s) + i \in 1..Len(st) /\ (Len(s) + i) - 1 = Len(s) + (i - 1)
    BY <1>1
  <2>2. p[Len(s) + i] = p[Len(s) + (i - 1)] + t[i]
    BY <1>1, <1>2, <2>1 DEF PartialSums
  <2>3. r[i] = r[i - 1] + t[i] /\ r[i - 1] \in Nat /\ t[i] \in Nat
    BY <1>a, <1>b
  <2> QED
    BY <1>b, <1>7, <2>2, <2>3
<1> HIDE DEF Good
<1>8. 0..Len(t) \subseteq Good
  BY <1>a, <1>6, <1>7, UpToInduction
<1>9. p[Len(s) + Len(t)] = q[Len(s)] + r[Len(t)]
  <2>1. Len(t) \in Good
    BY <1>a, <1>8
  <2> QED
    BY <2>1 DEF Good
<1>10. r[Len(t)] \in Nat
  BY <1>a, <1>b
<1> QED
  BY <1>b, <1>1, <1>2, <1>3, <1>4, <1>9, <1>10 DEF st

\* The total of one element is the element.
LEMMA TotalOne ==
  ASSUME NEW x \in Nat
  PROVE  Total(<<x>>) = x
<1>1. Len(<<x>>) = 1 /\ <<x>> \in Seq(Nat)
  OBVIOUS
<1>2. PICK q : q = [i \in 0..1 |-> IF i = 0 THEN 0 ELSE x]
  OBVIOUS
<1>3. PartialSums(q, <<x>>) /\ q[1] = x
  BY <1>2 DEF PartialSums
<1> QED
  BY <1>1, <1>3, TotalIs

\* One more element counts as much as it is.
LEMMA TotalAppend ==
  ASSUME NEW s \in Seq(Nat), NEW x \in Nat
  PROVE  Total(Append(s, x)) = Total(s) + x
<1>1. <<x>> \in Seq(Nat) /\ Append(s, x) = s \o <<x>>
  OBVIOUS
<1>2. Total(<<x>>) = x
  BY TotalOne
<1> QED
  BY <1>1, <1>2, TotalConcat

\* A sequence is its front and its back.
LEMMA SeqSplit ==
  ASSUME NEW S, NEW s \in Seq(S), NEW n \in 0..Len(s)
  PROVE  s = SubSeq(s, 1, n) \o SubSeq(s, n + 1, Len(s))
<1> DEFINE front == SubSeq(s, 1, n)
           back == SubSeq(s, n + 1, Len(s))
<1>a. Len(s) \in Nat /\ n \in Nat /\ n <= Len(s)
  OBVIOUS
<1>b. /\ front \in Seq(S) /\ Len(front) = n
      /\ \A i \in 1..n : front[i] = s[i]
  BY <1>a
<1>c. /\ back \in Seq(S) /\ Len(back) = Len(s) - n
      /\ \A i \in 1..(Len(s) - n) : back[i] = s[n + i]
  BY <1>a
<1>1. /\ front \in Seq(S) /\ Len(front) = n
      /\ back \in Seq(S) /\ Len(back) = Len(s) - n
      /\ \A i \in 1..n : front[i] = s[i]
      /\ \A i \in 1..(Len(s) - n) : back[i] = s[n + i]
  BY <1>b, <1>c
<1> HIDE DEF front, back
<1>2. /\ front \o back \in Seq(S) /\ Len(front \o back) = Len(s)
      /\ \A i \in 1..Len(s) :
           (front \o back)[i] = IF i <= n THEN front[i] ELSE back[i - n]
  <2>1. /\ front \o back \in Seq(S)
        /\ Len(front \o back) = Len(front) + Len(back)
        /\ \A i \in 1..(Len(front) + Len(back)) :
             (front \o back)[i] = IF i <= Len(front) THEN front[i]
                                 ELSE back[i - Len(front)]
    BY <1>1, ConcatProperties
  <2>2. Len(front) + Len(back) = Len(s)
    BY <1>a, <1>1
  <2>3. Len(front) = n
    BY <1>1
  <2> QED
    BY <2>1, <2>2, <2>3
<1>3. \A i \in 1..Len(s) : (front \o back)[i] = s[i]
  <2> SUFFICES ASSUME NEW i \in 1..Len(s) PROVE (front \o back)[i] = s[i]
    OBVIOUS
  <2>1. CASE i <= n
    BY <1>1, <1>2, <2>1
  <2>2. CASE ~(i <= n)
    <3>1. i - n \in 1..(Len(s) - n) /\ n + (i - n) = i
      BY <1>a, <2>2
    <3> QED
      BY <1>1, <1>2, <2>2, <3>1
  <2> QED BY <2>1, <2>2
<1>4. s = front \o back
  BY <1>a, <1>2, <1>3, SeqEqual
<1> QED
  BY <1>4 DEF front, back

\* And so is its total.
LEMMA TotalSplit ==
  ASSUME NEW s \in Seq(Nat), NEW n \in 0..Len(s)
  PROVE  /\ Total(s) = Total(SubSeq(s, 1, n)) + Total(SubSeq(s, n + 1, Len(s)))
         /\ Total(SubSeq(s, 1, n)) \in Nat
         /\ Total(SubSeq(s, n + 1, Len(s))) \in Nat
<1> DEFINE front == SubSeq(s, 1, n)
           back == SubSeq(s, n + 1, Len(s))
<1>1. front \in Seq(Nat) /\ back \in Seq(Nat)
  OBVIOUS
<1>2. s = front \o back
  BY SeqSplit
<1> HIDE DEF front, back
<1> QED
  BY <1>1, <1>2, TotalConcat DEF front, back

\* An element that is taken out is missing in the total.
LEMMA TotalRemove ==
  ASSUME NEW s \in Seq(Nat), NEW k \in 1..Len(s)
  PROVE  Total(s) = Total(SubSeq(s, 1, k - 1) \o SubSeq(s, k + 1, Len(s))) + s[k]
<1> DEFINE front == SubSeq(s, 1, k - 1)
           back == SubSeq(s, k + 1, Len(s))
<1>1. /\ front \in Seq(Nat) /\ back \in Seq(Nat) /\ s[k] \in Nat
      /\ SubSeq(s, 1, k) = Append(front, s[k])
  OBVIOUS
<1>2. Total(s) = Total(SubSeq(s, 1, k)) + Total(back)
  BY TotalSplit
<1> HIDE DEF front, back
<1>3. Total(SubSeq(s, 1, k)) = Total(front) + s[k]
  BY <1>1, TotalAppend
<1>4. Total(front \o back) = Total(front) + Total(back) /\ Total(front) \in Nat
      /\ Total(back) \in Nat
  BY <1>1, TotalConcat
<1> QED
  BY <1>1, <1>2, <1>3, <1>4 DEF front, back

\* Two sequences added element by element.
LEMMA TotalAdd ==
  ASSUME NEW s \in Seq(Nat), NEW t \in Seq(Nat), NEW u \in Seq(Nat),
         Len(s) = Len(u), Len(t) = Len(u),
         \A i \in 1..Len(u) : u[i] = s[i] + t[i]
  PROVE  Total(u) = Total(s) + Total(t)
<1>1. PICK p : PartialSums(p, s) /\ Total(s) = p[Len(s)]
  BY PartialSumsExist
<1>2. PICK q : PartialSums(q, t) /\ Total(t) = q[Len(t)]
  BY PartialSumsExist
<1> DEFINE r == [i \in 0..Len(u) |-> p[i] + q[i]]
<1>3. Len(u) \in Nat /\ \A i \in 1..Len(u) : s[i] \in Nat /\ t[i] \in Nat
  OBVIOUS
<1>4. /\ p \in [0..Len(u) -> Nat] /\ q \in [0..Len(u) -> Nat]
      /\ p[0] = 0 /\ q[0] = 0
      /\ \A i \in 1..Len(u) : p[i] = p[i - 1] + s[i] /\ q[i] = q[i - 1] + t[i]
  BY <1>1, <1>2 DEF PartialSums
<1>5. PartialSums(r, u)
  <2>1. r \in [0..Len(u) -> Nat] /\ r[0] = 0
    BY <1>3, <1>4
  <2>2. ASSUME NEW i \in 1..Len(u) PROVE r[i] = r[i - 1] + u[i]
    <3>1. i \in 0..Len(u) /\ i - 1 \in 0..Len(u)
      BY <1>3
    <3>2. p[i - 1] \in Nat /\ q[i - 1] \in Nat /\ s[i] \in Nat /\ t[i] \in Nat
      BY <1>3, <1>4, <3>1
    <3>3. p[i] = p[i - 1] + s[i] /\ q[i] = q[i - 1] + t[i] /\ u[i] = s[i] + t[i]
      BY <1>4
    <3>4. r[i] = p[i] + q[i] /\ r[i - 1] = p[i - 1] + q[i - 1]
      BY <3>1
    <3>5. PICK a \in Nat, b \in Nat, c \in Nat, d \in Nat :
                 a = p[i - 1] /\ b = q[i - 1] /\ c = s[i] /\ d = t[i]
      BY <3>2
    <3> HIDE DEF r
    <3>6. r[i] = (a + c) + (b + d) /\ r[i - 1] = a + b /\ u[i] = c + d
      BY <3>3, <3>4, <3>5
    <3> QED
      BY ONLY <3>6, a \in Nat, b \in Nat, c \in Nat, d \in Nat
  <2> QED
    BY <2>1, <2>2 DEF PartialSums
<1>6. Total(u) = r[Len(u)]
  BY <1>5, TotalIs
<1> QED
  BY <1>1, <1>2, <1>3, <1>6

\* The same number over and over.
LEMMA TotalSame ==
  ASSUME NEW s \in Seq(Nat), NEW c \in Nat, \A i \in 1..Len(s) : s[i] = c
  PROVE  Total(s) = Len(s) * c
<1> DEFINE r == [i \in 0..Len(s) |-> i * c]
<1>1. Len(s) \in Nat
  OBVIOUS
<1>2. \A i \in Nat : i * c \in Nat /\ (i + 1) * c = i * c + c
  OBVIOUS
<1>3. PartialSums(r, s)
  <2>1. r \in [0..Len(s) -> Nat] /\ r[0] = 0
    BY <1>1, <1>2
  <2>2. ASSUME NEW i \in 1..Len(s) PROVE r[i] = r[i - 1] + s[i]
    <3>1. i - 1 \in Nat /\ i - 1 \in 0..Len(s) /\ i \in 0..Len(s) /\ (i - 1) + 1 = i
      BY <1>1
    <3>2. i * c = (i - 1) * c + c
      BY <1>2, <3>1
    <3> QED
      BY <3>1, <3>2
  <2> QED
    BY <2>1, <2>2 DEF PartialSums
<1>4. Total(s) = r[Len(s)]
  BY <1>3, TotalIs
<1> QED
  BY <1>1, <1>4

\* One element is replaced by another.
LEMMA TotalReplace ==
  ASSUME NEW s \in Seq(Nat), NEW t \in Seq(Nat), Len(t) = Len(s),
         NEW k \in 1..Len(s), \A i \in 1..Len(s) : i # k => t[i] = s[i]
  PROVE  Total(t) = Total(s) - s[k] + t[k]
<1> DEFINE others == SubSeq(s, 1, k - 1) \o SubSeq(s, k + 1, Len(s))
<1>1. Len(s) \in Nat /\ k \in Nat
  OBVIOUS
<1>2. SubSeq(t, 1, k - 1) = SubSeq(s, 1, k - 1)
  BY <1>1
<1>3. SubSeq(t, k + 1, Len(t)) = SubSeq(s, k + 1, Len(s))
  BY <1>1
<1>4. Total(s) = Total(others) + s[k]
  BY TotalRemove
<1>5. Total(t) = Total(others) + t[k]
  <2>1. Total(t) = Total(SubSeq(t, 1, k - 1) \o SubSeq(t, k + 1, Len(t))) + t[k]
    BY TotalRemove
  <2> QED
    BY <1>2, <1>3, <2>1
<1>6. Total(others) \in Nat /\ s[k] \in Nat /\ t[k] \in Nat
  <2>1. SubSeq(s, 1, k - 1) \in Seq(Nat) /\ SubSeq(s, k + 1, Len(s)) \in Seq(Nat)
    OBVIOUS
  <2>2. Total(SubSeq(s, 1, k - 1)) \in Nat /\ Total(SubSeq(s, k + 1, Len(s))) \in Nat
        /\ Total(others) = Total(SubSeq(s, 1, k - 1)) + Total(SubSeq(s, k + 1, Len(s)))
    BY <2>1, TotalConcat
  <2> QED
    BY <2>2
<1> HIDE DEF others
<1> QED
  BY <1>4, <1>5, <1>6

\* A new element is put between the others.
LEMMA TotalInsert ==
  ASSUME NEW s \in Seq(Nat), NEW x \in Nat, NEW k \in 1..(Len(s) + 1)
  PROVE  Total(InsertAt(s, k, x)) = Total(s) + x
<1> DEFINE front == SubSeq(s, 1, k - 1)
           back == SubSeq(s, k, Len(s))
<1>1. front \in Seq(Nat) /\ back \in Seq(Nat) /\ Len(s) \in Nat /\ k - 1 \in 0..Len(s)
  OBVIOUS
<1>2. /\ Total(s) = Total(front) + Total(back)
      /\ Total(front) \in Nat /\ Total(back) \in Nat
  <2>1. (k - 1) + 1 = k
    OBVIOUS
  <2> QED
    BY <1>1, <2>1, TotalSplit
<1>3. InsertAt(s, k, x) = Append(front, x) \o back
  <2>1. Append(front, x) = front \o <<x>>
    BY <1>1
  <2> QED
    BY <2>1 DEF InsertAt
<1> HIDE DEF front, back
<1>4. Total(Append(front, x)) = Total(front) + x /\ Append(front, x) \in Seq(Nat)
  BY <1>1, TotalAppend
<1>5. Total(Append(front, x) \o back) = Total(Append(front, x)) + Total(back)
  BY <1>1, <1>4, TotalConcat
<1> QED
  BY <1>2, <1>3, <1>4, <1>5

-----------------------------------------------------------------------------
(* Where the elements begin, when they are laid end to end *)

StartOf(s, i) == Total(SubSeq(s, 1, i - 1))

\* Each element begins where the one before it ends, and the last ends where all
\* of them do.
LEMMA StartsAre ==
  ASSUME NEW s \in Seq(Nat)
  PROVE  /\ StartOf(s, 1) = 0 /\ StartOf(s, Len(s) + 1) = Total(s)
         /\ \A i \in 1..(Len(s) + 1) : StartOf(s, i) \in Nat
         /\ \A i \in 1..Len(s) : StartOf(s, i + 1) = StartOf(s, i) + s[i]
<1>1. PICK p : PartialSums(p, s) /\ Total(s) = p[Len(s)]
  BY PartialSumsExist
<1>2. Len(s) \in Nat
  OBVIOUS
<1>3. ASSUME NEW i \in 1..(Len(s) + 1) PROVE StartOf(s, i) = p[i - 1]
  <2> DEFINE front == SubSeq(s, 1, i - 1)
  <2>1. /\ front \in Seq(Nat) /\ Len(front) = i - 1
        /\ \A j \in 1..(i - 1) : front[j] = s[j]
    BY <1>2
  <2> HIDE DEF front
  <2>2. Len(front) <= Len(s)
    BY <1>2, <2>1
  <2>3. \A j \in 1..Len(front) : front[j] = s[j]
    BY <2>1
  <2>4. p[Len(front)] = Total(front)
    BY ONLY s \in Seq(Nat), <1>1, <2>1, <2>2, <2>3, TotalOfPrefix
  <2> QED
    BY <2>1, <2>4 DEF StartOf, front
<1>4. p \in [0..Len(s) -> Nat] /\ p[0] = 0 /\ \A i \in 1..Len(s) : p[i] = p[i - 1] + s[i]
  BY <1>1 DEF PartialSums
<1>5. StartOf(s, 1) = 0 /\ StartOf(s, Len(s) + 1) = Total(s)
  BY <1>1, <1>2, <1>3, <1>4
<1>6. ASSUME NEW i \in 1..(Len(s) + 1) PROVE StartOf(s, i) \in Nat
  <2>1. i - 1 \in 0..Len(s)
    BY <1>2
  <2> QED
    BY <1>3, <1>4, <2>1
<1>7. ASSUME NEW i \in 1..Len(s) PROVE StartOf(s, i + 1) = StartOf(s, i) + s[i]
  <2>1. i \in 1..(Len(s) + 1) /\ i + 1 \in 1..(Len(s) + 1) /\ (i + 1) - 1 = i
    BY <1>2
  <2>2. StartOf(s, i) = p[i - 1] /\ StartOf(s, i + 1) = p[i]
    BY <1>3, <2>1
  <2> QED
    BY <1>4, <2>2
<1> QED
  BY <1>5, <1>6, <1>7

\* If every element takes something, no two of them begin at the same place, and
\* all that follow begin later.
LEMMA StartsIncrease ==
  ASSUME NEW s \in Seq(Nat), \A i \in 1..Len(s) : s[i] > 0,
         NEW m \in 1..(Len(s) + 1), NEW n \in 1..(Len(s) + 1), m < n
  PROVE  StartOf(s, m) < StartOf(s, n)
<1> DEFINE N == n - m - 1
           Good == {d \in 0..N : StartOf(s, m) < StartOf(s, m + 1 + d)}
<1>1. N \in Nat /\ Len(s) \in Nat
  OBVIOUS
<1>2. /\ \A i \in 1..(Len(s) + 1) : StartOf(s, i) \in Nat
      /\ \A i \in 1..Len(s) : StartOf(s, i + 1) = StartOf(s, i) + s[i]
      /\ \A i \in 1..Len(s) : s[i] \in Nat /\ s[i] > 0
  BY StartsAre
<1>3. 0 \in Good
  <2>1. m \in 1..Len(s) /\ m + 1 + 0 = m + 1
    BY <1>1
  <2> QED
    BY <1>1, <1>2, <2>1
<1>4. ASSUME NEW d \in 1..N, d - 1 \in Good PROVE d \in Good
  <2>1. m + d \in 1..Len(s) /\ m + 1 + (d - 1) = m + d /\ m + 1 + d = (m + d) + 1
    BY <1>1
  <2>2. StartOf(s, m) < StartOf(s, m + d) /\ StartOf(s, m) \in Nat
        /\ StartOf(s, m + d) \in Nat
    BY <1>1, <1>2, <1>4, <2>1
  <2>3. StartOf(s, m + 1 + d) = StartOf(s, m + d) + s[m + d]
    BY <1>2, <2>1
  <2> QED
    BY <1>1, <1>2, <2>1, <2>2, <2>3
<1> HIDE DEF Good
<1>5. N \in Good
  <2>1. 0..N \subseteq Good
    <3> HIDE DEF N
    <3> QED
      BY <1>1, <1>3, <1>4, UpToInduction
  <2> QED
    BY <1>1, <2>1
<1>6. m + 1 + N = n
  BY <1>1
<1> QED
  BY <1>5, <1>6 DEF Good

-----------------------------------------------------------------------------
(* Sequences put together *)

LEMMA JoinIs ==
  ASSUME NEW S, NEW s \in Seq(S), NEW t \in Seq(S)
  PROVE  /\ s \o t \in Seq(S) /\ Len(s \o t) = Len(s) + Len(t)
         /\ Len(s) \in Nat /\ Len(t) \in Nat
         /\ \A i \in 1..Len(s) : (s \o t)[i] = s[i]
         /\ \A i \in 1..Len(t) : (s \o t)[Len(s) + i] = t[i]
  OBVIOUS

\* What holds of every element, holds of them put together.
LEMMA JoinSplits ==
  ASSUME NEW a \in Nat, NEW b \in Nat, NEW i \in 1..(a + b)
  PROVE  i \in 1..a \/ \E j \in 1..b : i = a + j
<1>1. CASE i <= a
  BY <1>1
<1>2. CASE ~(i <= a)
  <2>1. i - a \in 1..b /\ i = a + (i - a)
    BY <1>2
  <2> QED
    BY <2>1
<1> QED
  BY <1>1, <1>2

\* A sequence that begins as s does and goes on as t is the two put together.
LEMMA JoinOf ==
  ASSUME NEW S, NEW s \in Seq(S), NEW t \in Seq(S), NEW u \in Seq(S),
         Len(u) = Len(s) + Len(t),
         \A i \in 1..Len(s) : u[i] = s[i],
         \A i \in 1..Len(t) : u[Len(s) + i] = t[i]
  PROVE  u = s \o t
<1>1. PICK v : v = s \o t
  OBVIOUS
<1>2. /\ v \in Seq(S) /\ Len(v) = Len(s) + Len(t)
      /\ Len(s) \in Nat /\ Len(t) \in Nat
      /\ \A i \in 1..Len(s) : v[i] = s[i]
      /\ \A i \in 1..Len(t) : v[Len(s) + i] = t[i]
  BY <1>1, JoinIs
<1>3. ASSUME NEW i \in 1..(Len(s) + Len(t)) PROVE u[i] = v[i]
  <2>1. i \in 1..Len(s) \/ \E j \in 1..Len(t) : i = Len(s) + j
    BY <1>2, JoinSplits
  <2> QED
    BY <1>2, <2>1
<1>4. u = v
  BY <1>2, <1>3, SeqEqual
<1> QED
  BY <1>1, <1>4

-----------------------------------------------------------------------------
(* Sequences of sequences *)

LEMMA RangeConcat ==
  ASSUME NEW S, NEW s \in Seq(S), NEW t \in Seq(S)
  PROVE  Range(s \o t) = Range(s) \cup Range(t)
<1>1. /\ s \o t \in Seq(S) /\ Len(s \o t) = Len(s) + Len(t)
      /\ \A i \in 1..(Len(s) + Len(t)) :
           (s \o t)[i] = IF i <= Len(s) THEN s[i] ELSE t[i - Len(s)]
  BY ConcatProperties
<1>2. Len(s) \in Nat /\ Len(t) \in Nat
  OBVIOUS
<1>3. Range(s \o t) \subseteq Range(s) \cup Range(t)
  BY <1>1, <1>2 DEF Range
<1>4. Range(s) \subseteq Range(s \o t)
  BY <1>1, <1>2 DEF Range
<1>5. ASSUME NEW i \in 1..Len(t) PROVE t[i] \in Range(s \o t)
  <2>1. Len(s) + i \in 1..(Len(s) + Len(t)) /\ ~(Len(s) + i <= Len(s))
        /\ (Len(s) + i) - Len(s) = i
    BY <1>2
  <2>2. (s \o t)[Len(s) + i] = t[i]
    BY <1>1, <2>1
  <2> QED
    BY <1>1, <2>1, <2>2 DEF Range
<1>6. Range(t) \subseteq Range(s \o t)
  BY <1>5 DEF Range
<1> QED
  BY <1>3, <1>4, <1>6

\* Concatenation, for the provers to leave as it is.
Cat(s, t) == s \o t

\* f[i] is what the first i sequences of ss are together, up to n.
Flattening(f, ss, n) ==
  f = [i \in 1..n |-> IF i = 1 THEN ss[i] ELSE Cat(f[i - 1], ss[i])]

LEMMA FlatteningAt ==
  ASSUME NEW f, NEW ss, NEW n \in Nat, Flattening(f, ss, n), NEW i \in 1..n
  PROVE  /\ i = 1 => f[i] = ss[i]
         /\ i # 1 => f[i] = Cat(f[i - 1], ss[i])
<1> DEFINE step(j) == IF j = 1 THEN ss[j] ELSE Cat(f[j - 1], ss[j])
<1>1. f = [j \in 1..n |-> step(j)]
  BY Zenon DEF Flattening
<1> HIDE DEF step
<1>2. f[i] = step(i)
  BY <1>1
<1> QED
  BY <1>2, Zenon DEF step

LEMMA FlatteningExists ==
  ASSUME NEW ss, NEW N \in Nat
  PROVE  \E f : Flattening(f, ss, N)
<1> DEFINE Good == {n \in 0..N : \E f : Flattening(f, ss, n)}
<1>1. 0 \in Good
  <2>1. Flattening([i \in 1..0 |-> <<>>], ss, 0)
    BY DEF Flattening
  <2> QED
    BY <2>1
<1>2. ASSUME NEW n \in 1..N, n - 1 \in Good PROVE n \in Good
  <2>1. PICK f : Flattening(f, ss, n - 1)
    BY <1>2
  <2> DEFINE g == [i \in 1..n |-> IF i < n THEN f[i]
                                  ELSE IF n = 1 THEN ss[n] ELSE Cat(f[n - 1], ss[n])]
  <2>2. ASSUME NEW i \in 1..n
        PROVE  g[i] = IF i = 1 THEN ss[i] ELSE Cat(g[i - 1], ss[i])
    <3>1. CASE i = n
      BY <3>1
    <3>2. CASE i < n
      <4>1. f[i] = IF i = 1 THEN ss[i] ELSE Cat(f[i - 1], ss[i])
        <5>1. i \in 1..(n - 1) /\ n - 1 \in Nat
          BY <3>2
        <5> QED
          BY <2>1, <5>1, FlatteningAt
      <4> QED
        BY <3>2, <4>1
    <3> QED
      BY <3>1, <3>2
  <2>3. Flattening(g, ss, n)
    BY <2>2 DEF Flattening
  <2> QED
    BY <2>3
<1> HIDE DEF Good
<1>3. 0..N \subseteq Good
  BY <1>1, <1>2, UpToInduction
<1> QED
  BY <1>3 DEF Good

LEMMA FlattenIs ==
  ASSUME NEW ss, NEW N \in Nat \ {0}, N = Len(ss)
  PROVE  \E f : /\ FlattenSeq(ss) = f[N]
                /\ f[1] = ss[1]
                /\ \A i \in 2..N : f[i] = Cat(f[i - 1], ss[i])
<1>1. \E f : Flattening(f, ss, N)
  BY FlatteningExists
<1>2. PICK f : Flattening(f, ss, N) /\ FlattenSeq(ss) = f[N]
  BY <1>1 DEF FlattenSeq, Flattening, Cat
<1>a. N \in Nat
  OBVIOUS
<1>3. ASSUME NEW i \in 1..N
      PROVE  (i = 1 => f[i] = ss[i]) /\ (i # 1 => f[i] = Cat(f[i - 1], ss[i]))
  BY <1>2, <1>a, FlatteningAt
<1> QED
  BY <1>2, <1>3

\* What is in all of them together is in one of them.
LEMMA FlattenRange ==
  ASSUME NEW S, NEW ss \in Seq(Seq(S))
  PROVE  /\ FlattenSeq(ss) \in Seq(S)
         /\ \A x \in Range(FlattenSeq(ss)) : \E i \in 1..Len(ss) : x \in Range(ss[i])
<1>1. CASE ss = <<>>
  BY <1>1 DEF FlattenSeq, Range
<1>2. CASE ss # <<>>
  <2>a. Len(ss) \in Nat \ {0} /\ \A i \in 1..Len(ss) : ss[i] \in Seq(S)
    BY <1>2
  <2>1. PICK f : /\ FlattenSeq(ss) = f[Len(ss)]
                 /\ f[1] = ss[1]
                 /\ \A i \in 2..Len(ss) : f[i] = Cat(f[i - 1], ss[i])
    BY <2>a, FlattenIs
  <2> DEFINE Good == {n \in 0..Len(ss) : n > 0 =>
                        /\ f[n] \in Seq(S)
                        /\ \A x \in Range(f[n]) :
                             \E i \in 1..Len(ss) : x \in Range(ss[i])}
  <2>2. 0 \in Good
    BY <2>a
  <2>3. ASSUME NEW n \in 1..Len(ss), n - 1 \in Good PROVE n \in Good
    <3>1. CASE n = 1
      <4>1. f[n] = ss[n]
        BY <2>1, <3>1
      <4> QED
        BY <2>a, <4>1
    <3>2. CASE n > 1
      <4>1. f[n] = Cat(f[n - 1], ss[n])
        BY <2>1, <3>2
      <4>2. /\ f[n - 1] \in Seq(S) /\ ss[n] \in Seq(S)
            /\ \A x \in Range(f[n - 1]) : \E i \in 1..Len(ss) : x \in Range(ss[i])
        BY <2>a, <2>3, <3>2
      <4>3. Range(f[n]) = Range(f[n - 1]) \cup Range(ss[n])
        BY <4>1, <4>2, RangeConcat DEF Cat
      <4>4. f[n] \in Seq(S)
        BY <4>1, <4>2 DEF Cat
      <4>5. ASSUME NEW x \in Range(f[n])
            PROVE  \E i \in 1..Len(ss) : x \in Range(ss[i])
        <5>1. x \in Range(f[n - 1]) \/ x \in Range(ss[n])
          BY ONLY <4>3, <4>5
        <5> QED
          BY <4>2, <5>1
      <4> QED
        BY <4>4, <4>5
    <3> QED
      BY <3>1, <3>2
  <2> HIDE DEF Good
  <2>4. 0..Len(ss) \subseteq Good
    BY <2>a, <2>2, <2>3, UpToInduction
  <2>5. Len(ss) \in Good
    BY <2>a, <2>4
  <2> QED
    BY <2>a, <2>1, <2>5 DEF Good
<1> QED
  BY <1>1, <1>2

\* One more sequence goes behind the others.
LEMMA FlattenAppend ==
  ASSUME NEW S, NEW ss \in Seq(Seq(S)), NEW x \in Seq(S)
  PROVE  FlattenSeq(Append(ss, x)) = FlattenSeq(ss) \o x
<1> DEFINE more == Append(ss, x)
<1>2. Len(ss) \in Nat
  OBVIOUS
<1>1. /\ more \in Seq(Seq(S)) /\ Len(more) = Len(ss) + 1 /\ more # <<>>
      /\ \A i \in 1..Len(ss) : more[i] = ss[i]
      /\ more[Len(ss) + 1] = x
  <2>1. x \in Seq(S) /\ ss \in Seq(Seq(S))
    OBVIOUS
  <2> QED
    BY <1>2, <2>1, AppendProperties
<1> HIDE DEF more
<1>3. PICK g : /\ FlattenSeq(more) = g[Len(ss) + 1]
               /\ g[1] = more[1]
               /\ \A i \in 2..(Len(ss) + 1) : g[i] = Cat(g[i - 1], more[i])
  <2>1. Len(ss) + 1 \in Nat \ {0} /\ Len(ss) + 1 = Len(more)
    BY <1>1, <1>2
  <2> QED
    BY <2>1, FlattenIs
<1>4. CASE ss = <<>>
  <2>1. g[1] = x /\ Len(ss) + 1 = 1
    BY <1>1, <1>3, <1>4
  <2>2. FlattenSeq(ss) \o x = x
    BY <1>4 DEF FlattenSeq
  <2> QED
    BY <1>3, <2>1, <2>2 DEF more
<1>5. CASE ss # <<>>
  <2>a. Len(ss) \in Nat \ {0}
    BY <1>5
  <2>1. PICK f : /\ FlattenSeq(ss) = f[Len(ss)]
                 /\ f[1] = ss[1]
                 /\ \A i \in 2..Len(ss) : f[i] = Cat(f[i - 1], ss[i])
    BY <2>a, FlattenIs
  <2> DEFINE Good == {n \in 0..Len(ss) : n > 0 => f[n] = g[n]}
  <2>2. 0 \in Good
    BY <1>2
  <2>3. ASSUME NEW n \in 1..Len(ss), n - 1 \in Good PROVE n \in Good
    <3>1. CASE n = 1
      BY <1>1, <1>3, <2>1, <3>1
    <3>2. CASE n > 1
      <4>1. f[n - 1] = g[n - 1]
        BY <2>3, <3>2
      <4>2. f[n] = Cat(f[n - 1], ss[n]) /\ g[n] = Cat(g[n - 1], more[n])
        BY <1>2, <1>3, <2>1, <3>2
      <4>3. more[n] = ss[n]
        BY <1>1
      <4> QED
        BY <4>1, <4>2, <4>3
    <3> QED
      BY <3>1, <3>2
  <2> HIDE DEF Good
  <2>4. 0..Len(ss) \subseteq Good
    BY <1>2, <2>2, <2>3, UpToInduction
  <2>5. f[Len(ss)] = g[Len(ss)]
    <3>1. Len(ss) \in Good
      BY <1>2, <2>4
    <3> QED
      BY <1>2, <2>a, <3>1 DEF Good
  <2>6. g[Len(ss) + 1] = g[Len(ss)] \o x
    <3>1. Len(ss) + 1 \in 2..(Len(ss) + 1) /\ (Len(ss) + 1) - 1 = Len(ss)
      BY <2>a
    <3>2. g[Len(ss) + 1] = Cat(g[(Len(ss) + 1) - 1], more[Len(ss) + 1])
      BY <1>3, <3>1
    <3> QED
      BY <1>1, <3>1, <3>2 DEF Cat
  <2> QED
    BY <1>3, <2>1, <2>5, <2>6 DEF more
<1> QED
  BY <1>4, <1>5

-----------------------------------------------------------------------------
(* Lists in order *)

\* The pairs of a set that have numbers for keys.
Keyed(P) == \A x \in P : x.key \in Nat

InOrder(s) == \A i, j \in 1..Len(s) : i <= j => s[i].key <= s[j].key

Below(s, t) == \A i \in 1..Len(s), j \in 1..Len(t) : s[i].key <= t[j].key

\* Two lists put together are in order if both are, one below the other.
LEMMA OrderJoin ==
  ASSUME NEW P, Keyed(P), NEW s \in Seq(P), NEW t \in Seq(P),
         InOrder(s), InOrder(t), Below(s, t)
  PROVE  InOrder(s \o t)
<1>1. PICK u : u = s \o t
  OBVIOUS
<1>2. /\ u \in Seq(P) /\ Len(u) = Len(s) + Len(t)
      /\ \A i \in 1..Len(s) : u[i] = s[i]
      /\ \A i \in 1..Len(t) : u[Len(s) + i] = t[i]
      /\ Len(s) \in Nat /\ Len(t) \in Nat
  BY <1>1, JoinIs
<1>3. ASSUME NEW i \in 1..(Len(s) + Len(t)), NEW j \in 1..(Len(s) + Len(t)), i <= j
      PROVE  u[i].key <= u[j].key
  <2>1. i \in 1..Len(s) \/ \E k \in 1..Len(t) : i = Len(s) + k
    BY <1>2, JoinSplits
  <2>2. j \in 1..Len(s) \/ \E k \in 1..Len(t) : j = Len(s) + k
    BY <1>2, JoinSplits
  <2>3. CASE i \in 1..Len(s) /\ j \in 1..Len(s)
    BY <1>2, <1>3, <2>3 DEF InOrder
  <2>4. ASSUME i \in 1..Len(s), NEW k \in 1..Len(t), j = Len(s) + k
        PROVE  u[i].key <= u[j].key
    BY <1>2, <2>4 DEF Below
  <2>5. ASSUME NEW h \in 1..Len(t), i = Len(s) + h, j \in 1..Len(s) PROVE FALSE
    BY <1>2, <1>3, <2>5
  <2>6. ASSUME NEW h \in 1..Len(t), i = Len(s) + h, NEW k \in 1..Len(t), j = Len(s) + k
        PROVE  u[i].key <= u[j].key
    <3>1. h <= k
      BY <1>2, <1>3, <2>6
    <3> QED
      BY <1>2, <2>6, <3>1 DEF InOrder
  <2> QED
    BY <2>1, <2>2, <2>3, <2>4, <2>5, <2>6
<1> QED
  BY <1>1, <1>2, <1>3 DEF InOrder

\* And only if.
LEMMA OrderSplit ==
  ASSUME NEW P, Keyed(P), NEW s \in Seq(P), NEW t \in Seq(P), InOrder(s \o t)
  PROVE  InOrder(s) /\ InOrder(t) /\ Below(s, t)
<1>1. PICK u : u = s \o t
  OBVIOUS
<1>2. /\ Len(u) = Len(s) + Len(t)
      /\ \A i \in 1..Len(s) : u[i] = s[i]
      /\ \A i \in 1..Len(t) : u[Len(s) + i] = t[i]
      /\ Len(s) \in Nat /\ Len(t) \in Nat
  BY <1>1, JoinIs
<1>3. /\ \A i \in 1..Len(s) : i \in 1..Len(u)
      /\ \A i \in 1..Len(t) : Len(s) + i \in 1..Len(u)
      /\ \A i \in 1..Len(s), j \in 1..Len(t) : i <= Len(s) + j
      /\ \A i, j \in 1..Len(t) : i <= j => Len(s) + i <= Len(s) + j
  BY <1>2
<1>4. \A i, j \in 1..Len(u) : i <= j => u[i].key <= u[j].key
  BY <1>1 DEF InOrder
<1>5. InOrder(s)
  BY <1>2, <1>3, <1>4 DEF InOrder
<1>6. InOrder(t)
  BY <1>2, <1>3, <1>4 DEF InOrder
<1>7. Below(s, t)
  BY <1>2, <1>3, <1>4 DEF Below
<1> QED
  BY <1>5, <1>6, <1>7

LEMMA OrderOfOne ==
  ASSUME NEW P, Keyed(P), NEW x \in P
  PROVE  InOrder(<<x>>) /\ <<x>> \in Seq(P) /\ Len(<<x>>) = 1 /\ <<x>>[1] = x
<1>1. Len(<<x>>) = 1 /\ <<x>>[1] = x /\ x.key \in Nat /\ <<x>> \in Seq(P)
  BY DEF Keyed
<1>2. x.key <= x.key
  BY <1>1
<1> QED
  BY <1>1, <1>2 DEF InOrder

LEMMA OrderAppend ==
  ASSUME NEW P, Keyed(P), NEW s \in Seq(P), InOrder(s), NEW x \in P,
         \A i \in 1..Len(s) : s[i].key <= x.key
  PROVE  /\ Append(s, x) \in Seq(P) /\ InOrder(Append(s, x))
         /\ \A i \in 1..Len(Append(s, x)) : Append(s, x)[i].key <= x.key
<1>1. Append(s, x) \in Seq(P) /\ Append(s, x) = s \o <<x>>
  OBVIOUS
<1>2. <<x>> \in Seq(P) /\ InOrder(<<x>>) /\ Len(<<x>>) = 1 /\ <<x>>[1] = x
  BY OrderOfOne
<1>3. Below(s, <<x>>)
  BY <1>2 DEF Below
<1>4. InOrder(s \o <<x>>)
  BY <1>2, <1>3, OrderJoin
<1>5. \A i \in 1..Len(Append(s, x)) : Append(s, x)[i].key <= x.key
  <2>1. x.key \in Nat /\ Len(s) \in Nat
    BY DEF Keyed
  <2>2. /\ Len(Append(s, x)) = Len(s) + 1 /\ Append(s, x)[Len(s) + 1] = x
        /\ \A i \in 1..Len(s) : Append(s, x)[i] = s[i]
    OBVIOUS
  <2>3. x.key <= x.key
    BY <2>1
  <2>4. \A i \in 1..(Len(s) + 1) : i \in 1..Len(s) \/ i = Len(s) + 1
    BY <2>1
  <2> QED
    BY <2>2, <2>3, <2>4
<1> QED
  BY <1>1, <1>4, <1>5

\* Without one of its elements, a list is in order too.
LEMMA OrderRemove ==
  ASSUME NEW P, Keyed(P), NEW s \in Seq(P), InOrder(s), NEW k \in 1..Len(s)
  PROVE  /\ RemoveAt(s, k) \in Seq(P) /\ InOrder(RemoveAt(s, k))
         /\ \A i \in 1..Len(RemoveAt(s, k)) :
              \E j \in 1..Len(s) : RemoveAt(s, k)[i] = s[j]
         /\ Len(RemoveAt(s, k)) = Len(s) - 1
<1>1. PICK a : a = SubSeq(s, 1, k - 1)
  OBVIOUS
<1>2. PICK b : b = SubSeq(s, k + 1, Len(s))
  OBVIOUS
<1>3. PICK r : r = RemoveAt(s, k)
  OBVIOUS
<1>4. Len(s) \in Nat /\ k \in Nat /\ k >= 1 /\ k <= Len(s)
  OBVIOUS
<1>5. a \in Seq(P) /\ Len(a) = k - 1 /\ \A i \in 1..(k - 1) : a[i] = s[i]
  BY <1>1, <1>4
<1>6. b \in Seq(P) /\ Len(b) = Len(s) - k /\ \A i \in 1..(Len(s) - k) : b[i] = s[k + i]
  BY <1>2, <1>4
<1>7. r = a \o b
  BY <1>1, <1>2, <1>3 DEF RemoveAt
<1>8. InOrder(a) /\ InOrder(b) /\ Below(a, b)
  <2>1. /\ \A i \in 1..(k - 1) : i \in 1..Len(s)
        /\ \A i \in 1..(Len(s) - k) : k + i \in 1..Len(s)
        /\ \A i \in 1..(k - 1), j \in 1..(Len(s) - k) : i <= k + j
        /\ \A i, j \in 1..(Len(s) - k) : i <= j => k + i <= k + j
    BY <1>4
  <2>2. InOrder(a)
    BY <1>5, <2>1 DEF InOrder
  <2>3. InOrder(b)
    BY <1>6, <2>1 DEF InOrder
  <2>4. Below(a, b)
    BY <1>5, <1>6, <2>1 DEF Below, InOrder
  <2> QED
    BY <2>2, <2>3, <2>4
<1>9. r \in Seq(P) /\ Len(r) = Len(s) - 1
  <2>1. r \in Seq(P) /\ Len(r) = Len(a) + Len(b)
    BY <1>5, <1>6, <1>7, JoinIs
  <2> QED
    BY <1>4, <1>5, <1>6, <2>1
<1>10. InOrder(r)
  BY <1>5, <1>6, <1>7, <1>8, OrderJoin
<1>11. ASSUME NEW i \in 1..Len(r) PROVE \E j \in 1..Len(s) : r[i] = s[j]
  <2>1. i \in 1..(k - 1) \/ \E j \in 1..(Len(s) - k) : i = (k - 1) + j
    <3>1. k - 1 \in Nat /\ Len(s) - k \in Nat /\ i \in 1..((k - 1) + (Len(s) - k))
      BY <1>4, <1>9
    <3> QED
      BY <3>1, JoinSplits
  <2>2. /\ \A j \in 1..(k - 1) : r[j] = a[j]
        /\ \A j \in 1..(Len(s) - k) : r[(k - 1) + j] = b[j]
    BY <1>5, <1>6, <1>7, JoinIs
  <2>3. /\ \A j \in 1..(k - 1) : j \in 1..Len(s)
        /\ \A j \in 1..(Len(s) - k) : k + j \in 1..Len(s)
    BY <1>4
  <2> QED
    BY <1>5, <1>6, <2>1, <2>2, <2>3
<1> QED
  BY <1>3, <1>9, <1>10, <1>11

\* A set of indices has a largest one.
LEMMA LargestOf ==
  ASSUME NEW N \in Nat, NEW B \in SUBSET (1..N), B # {}
  PROVE  Max(B) \in B /\ \E n \in B : \A i \in B : i <= n
<1> DEFINE Bounds == {m \in Nat : \A i \in B : i <= m}
<1>1. N \in Bounds /\ Bounds \in SUBSET Nat
  OBVIOUS
<1>2. PICK m \in Bounds : \A l \in Bounds : m <= l
  BY <1>1, LeastNat
<1>3. m \in B
  <2> SUFFICES ASSUME m \notin B PROVE FALSE
    OBVIOUS
  <2>1. \A i \in B : i \in Nat /\ i >= 1 /\ i <= m /\ i # m
    OBVIOUS
  <2>2. m - 1 \in Nat /\ \A i \in B : i <= m - 1
    <3>1. PICK x \in B : TRUE
      OBVIOUS
    <3>2. m \in Nat /\ x \in Nat /\ x >= 1 /\ x <= m /\ x # m
      BY <2>1
    <3>3. m - 1 \in Nat
      BY <3>2
    <3> QED
      BY <2>1, <3>2, <3>3
  <2>3. m - 1 \in Bounds
    BY <2>2
  <2> QED
    BY <1>2, <2>3
<1>4. \A i \in B : i <= m /\ m >= i
  OBVIOUS
<1>5. Max(B) \in B
  BY <1>3, <1>4 DEF Max
<1> QED
  BY <1>3, <1>4, <1>5

\* A set of indices that holds all before each of its members.
LEMMA DownClosed ==
  ASSUME NEW N \in Nat, NEW B \in SUBSET (1..N),
         \A i \in B : \A j \in 1..i : j \in B
  PROVE  Cardinality(B) \in 0..N /\ B = 1..Cardinality(B)
<1>1. CASE B = {}
  <2>1. Cardinality(B) = 0 /\ 1..0 = {}
    BY <1>1, FS_EmptySet
  <2> QED
    BY <1>1, <2>1
<1>2. CASE B # {}
  <2>1. PICK n \in B : \A i \in B : i <= n
    BY <1>2, LargestOf
  <2>2. n \in 1..N /\ B = 1..n
    <3>1. n \in 1..N
      OBVIOUS
    <3>2. \A j \in 1..n : j \in B
      OBVIOUS
    <3>3. \A i \in B : i \in 1..n
      BY <2>1
    <3> QED
      BY <3>1, <3>2, <3>3
  <2>3. Cardinality(1..n) = n
    <3>1. 1 \in Int /\ n \in Int /\ n >= 1
      BY <2>2
    <3>2. Cardinality(1..n) = n - 1 + 1
      BY <3>1, FS_Interval
    <3> QED
      BY <3>1, <3>2
  <2> QED
    BY <2>2, <2>3
<1> QED
  BY <1>1, <1>2

-----------------------------------------------------------------------------
(* Edits among pairs *)

LEMMA HitsAre ==
  ASSUME NEW P, NEW o \in Seq(P), NEW e
  PROVE  /\ Hits(o, e) \in SUBSET (1..Len(o))
         /\ \A i \in Hits(o, e) : o[i].key = e.key
         /\ Hits(o, e) # {} => Max(Hits(o, e)) \in 1..Len(o)
<1>1. Hits(o, e) \in SUBSET (1..Len(o)) /\ \A i \in Hits(o, e) : o[i].key = e.key
  BY DEF Hits, At
<1>2. Len(o) \in Nat
  OBVIOUS
<1>3. Hits(o, e) # {} => Max(Hits(o, e)) \in 1..Len(o)
  BY <1>1, <1>2, LargestOf
<1> QED
  BY <1>1, <1>3

UpToKey(s, k) == \A i \in 1..Len(s) : s[i].key <= k

LEMMA UpToKeyJoin ==
  ASSUME NEW P, NEW s \in Seq(P), NEW t \in Seq(P), NEW k, UpToKey(s, k), UpToKey(t, k)
  PROVE  UpToKey(s \o t, k)
<1>1. PICK u : u = s \o t
  OBVIOUS
<1>2. PICK a \in Nat : a = Len(s)
  OBVIOUS
<1>3. PICK b \in Nat : b = Len(t)
  OBVIOUS
<1>4. /\ Len(u) = a + b
      /\ \A i \in 1..a : u[i] = s[i]
      /\ \A i \in 1..b : u[a + i] = t[i]
  BY <1>1, <1>2, <1>3, JoinIs
<1>5. ASSUME NEW i \in 1..(a + b) PROVE u[i].key <= k
  <2>1. i \in 1..a \/ \E j \in 1..b : i = a + j
    BY JoinSplits
  <2> QED
    BY <1>2, <1>3, <1>4, <2>1 DEF UpToKey
<1> QED
  BY <1>1, <1>4, <1>5 DEF UpToKey

\* The pairs that pass before an edit are the first ones.
LEMMA PassedAre ==
  ASSUME NEW P, Keyed(P), NEW rest \in Seq(P), InOrder(rest), NEW e, e.key \in Nat,
         NEW n, n = Cardinality(Passed(rest, e))
  PROVE  /\ n \in 0..Len(rest)
         /\ \A i \in 1..n : rest[i].key <= e.key
         /\ \A i \in 1..Len(rest) :
              i > n => rest[i].key >= e.key /\ (rest[i].key = e.key => e.op = "insert")
<1>1. Len(rest) \in Nat /\ e.key \in Nat /\ \A i \in 1..Len(rest) : rest[i].key \in Nat
  <2>1. \A i \in 1..Len(rest) : rest[i] \in P
    OBVIOUS
  <2> QED
    BY <2>1 DEF Keyed
<1>2. PICK B : B = Passed(rest, e)
  OBVIOUS
<1>3. /\ B \in SUBSET (1..Len(rest))
      /\ \A i \in 1..Len(rest) :
           i \in B <=> rest[i].key < e.key \/ (rest[i].key = e.key /\ e.op # "insert")
  BY <1>2 DEF Passed
<1>4. ASSUME NEW i \in B, NEW j \in 1..i PROVE j \in B
  <2>1. i \in 1..Len(rest) /\ j \in 1..Len(rest) /\ j <= i
    BY <1>1, <1>3
  <2>2. rest[j].key <= rest[i].key
    BY <2>1 DEF InOrder
  <2>3. PICK a \in Nat, b \in Nat, c \in Nat :
               a = rest[j].key /\ b = rest[i].key /\ c = e.key
    BY <1>1, <2>1
  <2>4. a <= b /\ (b < c \/ (b = c /\ e.op # "insert"))
    BY <1>3, <2>1, <2>2, <2>3
  <2>5. a < c \/ (a = c /\ e.op # "insert")
    BY <2>4
  <2> QED
    BY <1>3, <2>1, <2>3, <2>5
<1>5. n \in 0..Len(rest) /\ B = 1..n
  BY <1>1, <1>2, <1>3, <1>4, DownClosed
<1>6. ASSUME NEW i \in 1..n PROVE rest[i].key <= e.key
  <2>1. i \in 1..Len(rest) /\ i \in B
    BY <1>3, <1>5
  <2> QED
    BY <1>1, <1>3, <2>1
<1>7. ASSUME NEW i \in 1..Len(rest), i > n
      PROVE  rest[i].key >= e.key /\ (rest[i].key = e.key => e.op = "insert")
  <2>1. i \notin B
    BY <1>5, <1>7
  <2> QED
    BY <1>1, <1>3, <2>1
<1> QED
  BY <1>5, <1>6, <1>7

\* A pair is inserted behind those with its key or a lesser one, in order.
LEMMA InsertedIs ==
  ASSUME NEW P, Keyed(P), NEW s \in Seq(P), InOrder(s), NEW x \in P,
         NEW k, NEW v, x = [key |-> k, val |-> v], NEW t, t = InsertPair(s, k, v)
  PROVE  \E n \in 0..Len(s) :
           /\ t = InsertAt(s, n + 1, x) /\ t \in Seq(P) /\ InOrder(t)
           /\ \A i \in 1..Len(s) : s[i].key <= k <=> i <= n
<1>0. k = x.key /\ k \in Nat
  <2>1. x.key \in Nat
    BY DEF Keyed
  <2> QED
    BY <2>1
<1>1. Len(s) \in Nat /\ \A i \in 1..Len(s) : s[i].key \in Nat
  <2>1. \A i \in 1..Len(s) : s[i] \in P
    OBVIOUS
  <2> QED
    BY <2>1 DEF Keyed
<1>2. PICK B : B = {i \in DOMAIN s : s[i].key <= k}
  OBVIOUS
<1>3. B \in SUBSET (1..Len(s)) /\ \A i \in 1..Len(s) : i \in B <=> s[i].key <= k
  BY <1>2
<1>4. ASSUME NEW i \in B, NEW j \in 1..i PROVE j \in B
  <2>1. i \in 1..Len(s) /\ j \in 1..Len(s) /\ j <= i
    BY <1>1, <1>3
  <2>2. PICK a \in Nat, b \in Nat : a = s[j].key /\ b = s[i].key
    BY <1>1, <2>1
  <2>3. a <= b /\ b <= k
    BY <1>3, <2>1, <2>2 DEF InOrder
  <2>4. a <= k
    BY <1>0, <2>3
  <2> QED
    BY <1>3, <2>1, <2>2, <2>4
<1>5. PICK n \in 0..Len(s) : n = Cardinality(B) /\ B = 1..n
  BY <1>1, <1>3, <1>4, DownClosed
<1>6. n \in Nat /\ n <= Len(s) /\ (n + 1) - 1 = n
  BY <1>1
<1>7. t = InsertAt(s, n + 1, x)
  BY <1>2, <1>5 DEF InsertPair
<1>8. PICK front : front = SubSeq(s, 1, n)
  OBVIOUS
<1>9. PICK back : back = SubSeq(s, n + 1, Len(s))
  OBVIOUS
<1>10. front \in Seq(P) /\ Len(front) = n /\ \A i \in 1..n : front[i] = s[i]
  BY <1>6, <1>8
<1>11. /\ back \in Seq(P) /\ Len(back) = Len(s) - n
       /\ \A i \in 1..(Len(s) - n) : back[i] = s[n + i]
  BY <1>6, <1>9
<1>12. PICK new : new = Append(front, x)
  OBVIOUS
<1>13. t = new \o back
  <2>1. new = front \o <<x>>
    BY <1>10, <1>12
  <2> QED
    BY <1>6, <1>7, <1>8, <1>9, <2>1 DEF InsertAt
<1>14. s = front \o back
  BY <1>8, <1>9, SeqSplit
<1>15. InOrder(front) /\ InOrder(back)
  BY <1>10, <1>11, <1>14, OrderSplit
<1>16. new \in Seq(P) /\ InOrder(new) /\ \A i \in 1..Len(new) : new[i].key <= k
  <2>1. \A i \in 1..n : i \in 1..Len(s)
    BY <1>1, <1>6
  <2>2. \A i \in 1..n : i \in B
    BY <1>5
  <2>3. \A i \in 1..Len(front) : front[i].key <= x.key
    BY <1>0, <1>3, <1>10, <2>1, <2>2
  <2> QED
    BY <1>0, <1>10, <1>12, <1>15, <2>3, OrderAppend
<1>17. \A i \in 1..Len(s) : s[i].key <= k <=> i <= n
  <2>1. \A i \in 1..Len(s) : i \in 1..n <=> i <= n
    BY <1>1, <1>6
  <2> QED
    BY <1>3, <1>5, <2>1
<1>18. Below(new, back)
  <2>1. ASSUME NEW i \in 1..Len(new), NEW j \in 1..Len(back) PROVE new[i].key <= back[j].key
    <3>1. new[i] \in P /\ back[j] \in P
      BY <1>11, <1>16
    <3>2. n + j \in 1..Len(s) /\ ~(n + j <= n) /\ back[j] = s[n + j]
      BY <1>1, <1>6, <1>11
    <3>3. PICK a \in Nat, b \in Nat : a = new[i].key /\ b = back[j].key
      BY <3>1 DEF Keyed
    <3>4. a <= k /\ ~(b <= k)
      BY <1>16, <1>17, <3>2, <3>3
    <3> QED
      BY <1>0, <3>3, <3>4
  <2> QED
    BY <2>1 DEF Below
<1>19. InOrder(new \o back) /\ new \o back \in Seq(P)
  BY <1>11, <1>15, <1>16, <1>18, OrderJoin, JoinIs
<1> QED
  BY <1>7, <1>13, <1>17, <1>19
=============================================================================
