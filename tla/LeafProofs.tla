----------------------------- MODULE LeafProofs -----------------------------
(***************************************************************************)
(* Edits of a leaf and its overflow chain, proved for leaves and chains of *)
(* any length: an edit makes of what they hold what PairBags allows, and   *)
(* changes the number of pairs as pending_edit::delta says if its promise  *)
(* is true; and so do the edits of a queue that a flush merges into a leaf *)
(* at once.                                                                *)
(***************************************************************************)
EXTENDS Leaf, PairBags, ListsProofs

\* Keys and values are numbers; 0 stands for none.
Numbered == Keys \subseteq Nat \ {Empty} /\ Values \subseteq Nat \ {NoValue}

Recs == [key : Keys, val : Values]

OverBlocks == [vals : Seq(Values), loaded : BOOLEAN]

\* A chain ends with a block that has values, and continues a leaf with pairs.
GoodParts(pairs, over) ==
  /\ pairs \in Seq(Recs) /\ InOrder(pairs)
  /\ over \in Seq(OverBlocks)
  /\ over # <<>> => pairs # <<>> /\ Last(over).vals # <<>>

GoodLeaf(leaf) ==
  \E pairs, over : leaf = LeafNode(pairs, over) /\ GoodParts(pairs, over)

KeyEdits == [op : {"insert", "upsert", "removeKV"}, key : Keys, val : Values,
             sure : BOOLEAN]
         \cup [op : {"removeKey"}, key : Keys, val : {NoValue}, sure : BOOLEAN]

\* The value to be removed is in the overflow chain but not in the leaf.  The loop
\* of overflowRemove may then run past the end of a block, or remove the value
\* several times.
OnlyInChain(leaf, edit) ==
  /\ edit.op = "removeKV" /\ edit.key = OverflowKey(leaf)
  /\ \A i \in At(leaf.pairs, edit.key) : leaf.pairs[i].val # edit.val
  /\ \E b \in DOMAIN leaf.over : Contains(leaf.over[b].vals, edit.val)

-----------------------------------------------------------------------------
(* How often the elements of a set are in a sequence *)

CountIn(s, T) == Cardinality({i \in DOMAIN s : s[i] \in T})

\* What one element adds.
One(x, T) == IF x \in T THEN 1 ELSE 0

LEMMA CountType ==
  ASSUME NEW P, NEW s \in Seq(P), NEW T
  PROVE  /\ CountIn(s, T) \in Nat
         /\ IsFiniteSet({i \in DOMAIN s : s[i] \in T})
         /\ {i \in DOMAIN s : s[i] \in T} # {} => CountIn(s, T) > 0
<1>1. Len(s) \in Nat /\ DOMAIN s = 1..Len(s)
  OBVIOUS
<1>2. IsFiniteSet(1..Len(s))
  BY <1>1, FS_Interval
<1>3. PICK B : B = {i \in DOMAIN s : s[i] \in T}
  OBVIOUS
<1>4. B \in SUBSET (1..Len(s))
  BY <1>1, <1>3
<1>5. IsFiniteSet(B)
  BY <1>2, <1>4, FS_Subset
<1>6. Cardinality(B) \in Nat
  BY <1>5, FS_CardinalityType
<1>7. B # {} => Cardinality(B) # 0
  BY <1>5, FS_EmptySet
<1> QED
  BY <1>3, <1>5, <1>6, <1>7 DEF CountIn

LEMMA CountEmpty ==
  ASSUME NEW s, s = <<>>, NEW T
  PROVE  CountIn(s, T) = 0
<1>1. {i \in DOMAIN s : s[i] \in T} = {}
  OBVIOUS
<1> QED
  BY <1>1, FS_EmptySet DEF CountIn

LEMMA CountAll ==
  ASSUME NEW P, NEW s \in Seq(P)
  PROVE  CountIn(s, P) = Len(s)
<1>1. Len(s) \in Nat /\ {i \in DOMAIN s : s[i] \in P} = 1..Len(s)
  OBVIOUS
<1>2. Cardinality(1..Len(s)) = Len(s)
  <2>1. Cardinality(1..Len(s)) = IF 1 > Len(s) THEN 0 ELSE Len(s) - 1 + 1
    BY <1>1, FS_Interval
  <2> QED
    BY <1>1, <2>1
<1> QED
  BY <1>1, <1>2 DEF CountIn

LEMMA CountOne ==
  ASSUME NEW s, NEW x, s = <<x>>, NEW T
  PROVE  CountIn(s, T) = One(x, T)
<1>1. CASE x \in T
  <2>1. {i \in DOMAIN s : s[i] \in T} = {1}
    BY <1>1
  <2> QED
    BY <1>1, <2>1, FS_Singleton DEF CountIn, One
<1>2. CASE x \notin T
  <2>1. {i \in DOMAIN s : s[i] \in T} = {}
    BY <1>2
  <2> QED
    BY <1>2, <2>1, FS_EmptySet DEF CountIn, One
<1> QED
  BY <1>1, <1>2

\* As many are in T here as there, if a bijection takes the one set of places to
\* the other.
LEMMA CountMoved ==
  ASSUME NEW A, IsFiniteSet(A), NEW B, NEW f \in [A -> B],
         \A i, j \in A : f[i] = f[j] => i = j,
         \A j \in B : \E i \in A : f[i] = j
  PROVE  Cardinality(B) = Cardinality(A) /\ IsFiniteSet(B)
<1>1. f \in Bijection(A, B)
  BY DEF Bijection, Injection, Surjection, IsInjective
<1>2. ExistsBijection(A, B)
  BY <1>1 DEF ExistsBijection
<1> QED
  BY <1>2, FS_Bijection

LEMMA CountJoin ==
  ASSUME NEW P, NEW s \in Seq(P), NEW t \in Seq(P), NEW T
  PROVE  CountIn(s \o t, T) = CountIn(s, T) + CountIn(t, T)
<1>1. PICK u : u = s \o t
  OBVIOUS
<1>2. PICK a \in Nat : a = Len(s)
  OBVIOUS
<1>3. PICK b \in Nat : b = Len(t)
  OBVIOUS
<1>4. /\ u \in Seq(P) /\ Len(u) = a + b
      /\ \A i \in 1..a : u[i] = s[i]
      /\ \A i \in 1..b : u[a + i] = t[i]
  BY <1>1, <1>2, <1>3, JoinIs
<1>5. PICK A : A = {i \in DOMAIN s : s[i] \in T}
  OBVIOUS
<1>6. PICK B : B = {i \in DOMAIN t : t[i] \in T}
  OBVIOUS
<1>7. PICK C : C = {i \in DOMAIN u : u[i] \in T}
  OBVIOUS
<1>8. /\ \A i : i \in A <=> i \in 1..a /\ s[i] \in T
      /\ \A i : i \in B <=> i \in 1..b /\ t[i] \in T
      /\ \A i : i \in C <=> i \in 1..(a + b) /\ u[i] \in T
  BY <1>2, <1>3, <1>4, <1>5, <1>6, <1>7
<1>9. PICK D : D = {i \in 1..(a + b) : ~(i <= a) /\ u[i] \in T}
  OBVIOUS
<1>10. IsFiniteSet(A) /\ IsFiniteSet(B)
  BY <1>5, <1>6, CountType
<1>11. Cardinality(D) = Cardinality(B) /\ IsFiniteSet(D)
  <2>1. PICK f : f = [i \in B |-> a + i]
    OBVIOUS
  <2>2. f \in [B -> D]
    <3>1. \A i \in B : a + i \in D
      <4>1. ASSUME NEW i \in B PROVE a + i \in D
        <5>1. i \in 1..b /\ t[i] \in T
          BY <1>8
        <5>2. a + i \in 1..(a + b) /\ ~(a + i <= a) /\ u[a + i] = t[i]
          BY <1>4, <5>1
        <5> QED
          BY <1>9, <5>1, <5>2
      <4> QED
        BY <4>1
    <3> QED
      BY <2>1, <3>1
  <2>3. \A i, j \in B : f[i] = f[j] => i = j
    <3>1. \A i \in B : i \in Nat /\ f[i] = a + i
      BY <1>8, <2>1
    <3> QED
      BY <3>1
  <2>4. \A j \in D : \E i \in B : f[i] = j
    <3>1. ASSUME NEW j \in D PROVE \E i \in B : f[i] = j
      <4>1. j \in 1..(a + b) /\ ~(j <= a) /\ u[j] \in T
        BY <1>9
      <4>2. j - a \in 1..b /\ a + (j - a) = j
        BY <4>1
      <4>3. j - a \in B
        BY <1>4, <1>8, <4>1, <4>2
      <4> QED
        BY <2>1, <4>2, <4>3
    <3> QED
      BY <3>1
  <2> QED
    BY <1>10, <2>2, <2>3, <2>4, CountMoved
<1>12. C = A \cup D /\ A \cap D = {}
  <2>1. \A i \in 1..(a + b) : i <= a <=> i \in 1..a
    OBVIOUS
  <2>2. \A i \in 1..a : i \in 1..(a + b) /\ i <= a
    OBVIOUS
  <2>3. \A i : i \in D <=> i \in 1..(a + b) /\ ~(i <= a) /\ u[i] \in T
    BY <1>9
  <2>4. \A i : i \in C <=> i \in A \/ i \in D
    BY <1>4, <1>8, <2>1, <2>2, <2>3
  <2>5. \A i : ~(i \in A /\ i \in D)
    BY <1>8, <2>2, <2>3
  <2> QED
    BY <2>4, <2>5
<1>13. Cardinality(C) = Cardinality(A) + Cardinality(D)
  <2>1. Cardinality(A \cup D) = Cardinality(A) + Cardinality(D) - Cardinality(A \cap D)
    BY <1>10, <1>11, FS_Union
  <2>2. Cardinality(A \cap D) = 0
    BY <1>12, FS_EmptySet
  <2>3. Cardinality(A) \in Nat /\ Cardinality(D) \in Nat
    BY <1>10, <1>11, FS_CardinalityType
  <2> QED
    BY <1>12, <2>1, <2>2, <2>3
<1> QED
  BY <1>1, <1>5, <1>6, <1>7, <1>11, <1>13 DEF CountIn

LEMMA CountReverse ==
  ASSUME NEW P, NEW s \in Seq(P), NEW T
  PROVE  /\ Reverse(s) \in Seq(P) /\ Len(Reverse(s)) = Len(s)
         /\ CountIn(Reverse(s), T) = CountIn(s, T)
<1>1. PICK n \in Nat : n = Len(s)
  OBVIOUS
<1>2. PICK u : u = Reverse(s)
  OBVIOUS
<1>3. \A i \in 1..n : n - i + 1 \in 1..n /\ n - (n - i + 1) + 1 = i
  OBVIOUS
<1>4. u = [i \in 1..n |-> s[(n - i) + 1]]
  BY <1>1, <1>2 DEF Reverse
<1>5. \A i \in 1..n : u[i] = s[n - i + 1] /\ u[i] \in P
  <2>1. \A i \in 1..n : s[i] \in P
    BY <1>1
  <2> QED
    BY <1>3, <1>4, <2>1
<1>6. u \in Seq(P) /\ Len(u) = n /\ DOMAIN u = 1..n
  <2>1. u \in [1..n -> P]
    BY <1>4, <1>5
  <2> QED
    BY <2>1
<1>7. PICK A : A = {i \in DOMAIN s : s[i] \in T}
  OBVIOUS
<1>8. PICK B : B = {i \in DOMAIN u : u[i] \in T}
  OBVIOUS
<1>9. /\ \A i : i \in A <=> i \in 1..n /\ s[i] \in T
      /\ \A i : i \in B <=> i \in 1..n /\ u[i] \in T
  BY <1>1, <1>6, <1>7, <1>8
<1>10. IsFiniteSet(A)
  BY <1>7, CountType
<1>11. PICK f : f = [i \in A |-> n - i + 1]
  OBVIOUS
<1>12. ASSUME NEW i \in 1..n PROVE u[n - i + 1] = s[i] /\ n - i + 1 \in 1..n
  BY <1>3, <1>5
<1>13. f \in [A -> B]
  <2>1. \A i \in A : n - i + 1 \in B
    BY <1>9, <1>12
  <2> QED
    BY <1>11, <2>1
<1>14. \A i, j \in A : f[i] = f[j] => i = j
  <2>1. \A i \in A : i \in Nat /\ f[i] = n - i + 1
    BY <1>9, <1>11
  <2> QED
    BY <2>1
<1>15. \A j \in B : \E i \in A : f[i] = j
  <2>1. ASSUME NEW j \in B PROVE \E i \in A : f[i] = j
    <3>1. j \in 1..n /\ u[j] \in T
      BY <1>9
    <3>2. n - j + 1 \in A
      BY <1>3, <1>5, <1>9, <3>1
    <3> QED
      BY <1>3, <1>11, <3>1, <3>2
  <2> QED
    BY <2>1
<1>16. Cardinality(B) = Cardinality(A)
  BY <1>10, <1>13, <1>14, <1>15, CountMoved
<1> QED
  BY <1>1, <1>2, <1>6, <1>7, <1>8, <1>16 DEF CountIn

\* A sequence cut at one of its elements.
LEMMA SplitAt ==
  ASSUME NEW P, NEW s \in Seq(P), NEW n \in 1..Len(s)
  PROVE  /\ s = (SubSeq(s, 1, n - 1) \o <<s[n]>>) \o SubSeq(s, n + 1, Len(s))
         /\ SubSeq(s, 1, n - 1) \in Seq(P) /\ SubSeq(s, n + 1, Len(s)) \in Seq(P)
         /\ s[n] \in P
<1>1. PICK a : a = SubSeq(s, 1, n - 1)
  OBVIOUS
<1>2. PICK b : b = SubSeq(s, n + 1, Len(s))
  OBVIOUS
<1>3. a \in Seq(P) /\ b \in Seq(P) /\ s[n] \in P
  BY <1>1, <1>2
<1>4. SubSeq(s, 1, n) = a \o <<s[n]>>
  BY <1>1
<1>5. s = SubSeq(s, 1, n) \o b
  <2>1. n \in 0..Len(s)
    OBVIOUS
  <2> QED
    BY <1>2, <2>1, SeqSplit
<1> QED
  BY <1>1, <1>2, <1>3, <1>4, <1>5

LEMMA CountThree ==
  ASSUME NEW P, NEW a \in Seq(P), NEW x \in P, NEW b \in Seq(P), NEW T
  PROVE  /\ CountIn((a \o <<x>>) \o b, T) = CountIn(a, T) + One(x, T) + CountIn(b, T)
         /\ CountIn(a \o b, T) = CountIn(a, T) + CountIn(b, T)
         /\ CountIn(a, T) \in Nat /\ CountIn(b, T) \in Nat /\ One(x, T) \in Nat
<1>1. PICK o : o = <<x>>
  OBVIOUS
<1>2. o \in Seq(P) /\ CountIn(o, T) = One(x, T)
  <2>1. o \in Seq(P)
    BY <1>1
  <2> QED
    BY <1>1, <2>1, CountOne
<1>3. PICK c : c = a \o o
  OBVIOUS
<1>4. c \in Seq(P) /\ CountIn(c, T) = CountIn(a, T) + CountIn(o, T)
  BY <1>2, <1>3, CountJoin, JoinIs
<1>5. CountIn(c \o b, T) = CountIn(c, T) + CountIn(b, T)
  BY <1>4, CountJoin
<1>6. CountIn(a \o b, T) = CountIn(a, T) + CountIn(b, T)
  BY CountJoin
<1>7. CountIn(a, T) \in Nat /\ CountIn(b, T) \in Nat
  BY CountType
<1>8. One(x, T) \in Nat
  BY DEF One
<1> QED
  BY <1>1, <1>2, <1>3, <1>4, <1>5, <1>6, <1>7, <1>8

LEMMA CountAppend ==
  ASSUME NEW P, NEW s \in Seq(P), NEW x \in P, NEW T
  PROVE  CountIn(Append(s, x), T) = CountIn(s, T) + One(x, T)
<1>1. PICK o : o = <<x>>
  OBVIOUS
<1>2. o \in Seq(P) /\ Append(s, x) = s \o o
  BY <1>1
<1>3. CountIn(o, T) = One(x, T)
  BY <1>1, CountOne
<1> QED
  BY <1>2, <1>3, CountJoin

LEMMA CountInsert ==
  ASSUME NEW P, NEW s \in Seq(P), NEW x \in P, NEW n \in 0..Len(s), NEW T
  PROVE  CountIn(InsertAt(s, n + 1, x), T) = CountIn(s, T) + One(x, T)
<1>1. PICK a : a = SubSeq(s, 1, n)
  OBVIOUS
<1>2. PICK b : b = SubSeq(s, n + 1, Len(s))
  OBVIOUS
<1>3. s = a \o b /\ a \in Seq(P) /\ b \in Seq(P)
  <2>1. s = a \o b
    BY <1>1, <1>2, SeqSplit
  <2>2. n \in Nat /\ Len(s) \in Nat /\ n <= Len(s)
    OBVIOUS
  <2>3. a \in Seq(P)
    BY <1>1, <2>2
  <2>4. b \in Seq(P)
    BY <1>2, <2>2
  <2> QED
    BY <2>1, <2>3, <2>4
<1>4. InsertAt(s, n + 1, x) = (a \o <<x>>) \o b
  <2>1. (n + 1) - 1 = n
    OBVIOUS
  <2> QED
    BY <1>1, <1>2, <2>1 DEF InsertAt
<1>5. /\ CountIn((a \o <<x>>) \o b, T) = CountIn(a, T) + One(x, T) + CountIn(b, T)
      /\ CountIn(a \o b, T) = CountIn(a, T) + CountIn(b, T)
      /\ CountIn(a, T) \in Nat /\ CountIn(b, T) \in Nat /\ One(x, T) \in Nat
  BY <1>3, CountThree
<1>6. CountIn(s, T) = CountIn(a \o b, T)
  BY <1>3
<1>7. CountIn(InsertAt(s, n + 1, x), T) = CountIn((a \o <<x>>) \o b, T)
  BY <1>4
<1> QED
  BY <1>5, <1>6, <1>7

LEMMA CountRemove ==
  ASSUME NEW P, NEW s \in Seq(P), NEW n \in 1..Len(s), NEW T
  PROVE  CountIn(s, T) = CountIn(RemoveAt(s, n), T) + One(s[n], T)
<1>1. PICK a : a = SubSeq(s, 1, n - 1)
  OBVIOUS
<1>2. PICK b : b = SubSeq(s, n + 1, Len(s))
  OBVIOUS
<1>3. s = (a \o <<s[n]>>) \o b /\ a \in Seq(P) /\ b \in Seq(P) /\ s[n] \in P
  BY <1>1, <1>2, SplitAt
<1>4. RemoveAt(s, n) = a \o b
  BY <1>1, <1>2 DEF RemoveAt
<1>5. PICK x \in P : x = s[n]
  BY <1>3
<1>6. /\ CountIn((a \o <<x>>) \o b, T) = CountIn(a, T) + One(x, T) + CountIn(b, T)
      /\ CountIn(a \o b, T) = CountIn(a, T) + CountIn(b, T)
      /\ CountIn(a, T) \in Nat /\ CountIn(b, T) \in Nat /\ One(x, T) \in Nat
  BY <1>3, CountThree
<1>7. CountIn(s, T) = CountIn((a \o <<x>>) \o b, T)
  BY <1>3, <1>5
<1> QED
  BY <1>4, <1>5, <1>6, <1>7

\* One element instead of another.
Replaced(s, n, x) == [s EXCEPT ![n] = x]

LEMMA CountReplace ==
  ASSUME NEW P, NEW s \in Seq(P), NEW n \in 1..Len(s), NEW x \in P, NEW T,
         NEW t, t = Replaced(s, n, x)
  PROVE  CountIn(t, T) + One(s[n], T) = CountIn(s, T) + One(x, T)
<1>1. /\ t \in Seq(P) /\ Len(t) = Len(s) /\ t[n] = x
      /\ \A i \in 1..Len(s) : i # n => t[i] = s[i]
  BY DEF Replaced
<1>2. RemoveAt(t, n) = RemoveAt(s, n)
  <2>1. Len(s) \in Nat /\ n \in Nat /\ n >= 1 /\ n <= Len(s)
    OBVIOUS
  <2>2. SubSeq(t, 1, n - 1) = SubSeq(s, 1, n - 1)
    <3>1. /\ SubSeq(t, 1, n - 1) \in Seq(P) /\ SubSeq(s, 1, n - 1) \in Seq(P)
          /\ Len(SubSeq(t, 1, n - 1)) = n - 1 /\ Len(SubSeq(s, 1, n - 1)) = n - 1
          /\ \A i \in 1..(n - 1) : SubSeq(t, 1, n - 1)[i] = t[i]
          /\ \A i \in 1..(n - 1) : SubSeq(s, 1, n - 1)[i] = s[i]
      BY <1>1, <2>1
    <3>2. \A i \in 1..(n - 1) : i \in 1..Len(s) /\ i # n
      BY <2>1
    <3>3. \A i \in 1..(n - 1) : SubSeq(t, 1, n - 1)[i] = SubSeq(s, 1, n - 1)[i]
      BY <1>1, <3>1, <3>2
    <3> QED
      BY <3>1, <3>3, SeqEqual
  <2>3. SubSeq(t, n + 1, Len(t)) = SubSeq(s, n + 1, Len(s))
    <3>1. PICK u : u = SubSeq(t, n + 1, Len(t))
      OBVIOUS
    <3>2. PICK w : w = SubSeq(s, n + 1, Len(s))
      OBVIOUS
    <3>3. u \in Seq(P) /\ Len(u) = Len(s) - n /\ \A i \in 1..(Len(s) - n) : u[i] = t[n + i]
      BY <1>1, <2>1, <3>1
    <3>4. w \in Seq(P) /\ Len(w) = Len(s) - n /\ \A i \in 1..(Len(s) - n) : w[i] = s[n + i]
      BY <2>1, <3>2
    <3>5. \A i \in 1..(Len(s) - n) : n + i \in 1..Len(s) /\ n + i # n
      BY <2>1
    <3>6. \A i \in 1..(Len(s) - n) : u[i] = w[i]
      BY <1>1, <3>3, <3>4, <3>5
    <3>7. u = w
      BY <3>3, <3>4, <3>6, SeqEqual
    <3> QED
      BY <3>1, <3>2, <3>7
  <2> QED
    BY <2>2, <2>3 DEF RemoveAt
<1>3. CountIn(s, T) = CountIn(RemoveAt(s, n), T) + One(s[n], T)
  BY CountRemove
<1>4. CountIn(t, T) = CountIn(RemoveAt(t, n), T) + One(t[n], T)
  <2>1. n \in 1..Len(t)
    BY <1>1
  <2> QED
    BY <1>1, <2>1, CountRemove
<1>5. PICK r : r = RemoveAt(s, n)
  OBVIOUS
<1>6. r \in Seq(P)
  <2>1. SubSeq(s, 1, n - 1) \in Seq(P) /\ SubSeq(s, n + 1, Len(s)) \in Seq(P)
    OBVIOUS
  <2> QED
    BY <1>5, <2>1, JoinIs DEF RemoveAt
<1>7. CountIn(r, T) \in Nat /\ One(x, T) \in Nat /\ One(s[n], T) \in Nat
  BY <1>6, CountType DEF One
<1> QED
  BY <1>1, <1>2, <1>3, <1>4, <1>5, <1>7

Rec(k, v) == [key |-> k, val |-> v]

\* Values that all get one key.
KeyedWith(vals, k) == [i \in DOMAIN vals |-> Rec(k, vals[i])]

\* The values that make an element of T of the key k.
Valued(k, T) == {v \in Values : Rec(k, v) \in T}

LEMMA CountKeyed ==
  ASSUME NEW s \in Seq(Values), NEW k, NEW T
  PROVE  CountIn(KeyedWith(s, k), T) = CountIn(s, Valued(k, T))
<1>1. \A i \in DOMAIN s : s[i] \in Values
  OBVIOUS
<1>2. PICK t : t = KeyedWith(s, k)
  OBVIOUS
<1>3. DOMAIN t = DOMAIN s /\ \A i \in DOMAIN s : t[i] = Rec(k, s[i])
  BY <1>2 DEF KeyedWith
<1>4. ASSUME NEW i \in DOMAIN s PROVE t[i] \in T <=> s[i] \in Valued(k, T)
  <2>1. t[i] = Rec(k, s[i]) /\ s[i] \in Values
    BY <1>1, <1>3
  <2> QED
    BY <2>1, Zenon DEF Valued
<1>5. {i \in DOMAIN t : t[i] \in T} = {i \in DOMAIN s : s[i] \in Valued(k, T)}
  BY <1>3, <1>4
<1> QED
  BY <1>2, <1>5 DEF CountIn

-----------------------------------------------------------------------------
(* The values of a chain *)

\* The flattened sequences up to the n-th.
LEMMA FlattenUpTo ==
  ASSUME NEW S, NEW ss \in Seq(Seq(S)), NEW n \in 1..Len(ss)
  PROVE  /\ FlattenSeq(SubSeq(ss, 1, n)) = FlattenSeq(SubSeq(ss, 1, n - 1)) \o ss[n]
         /\ FlattenSeq(SubSeq(ss, 1, n)) \in Seq(S)
         /\ FlattenSeq(SubSeq(ss, 1, n - 1)) \in Seq(S)
         /\ ss[n] \in Seq(S)
<1>1. PICK a : a = SubSeq(ss, 1, n - 1)
  OBVIOUS
<1>2. a \in Seq(Seq(S)) /\ ss[n] \in Seq(S)
  BY <1>1
<1>3. SubSeq(ss, 1, n) = Append(a, ss[n]) /\ SubSeq(ss, 1, n) \in Seq(Seq(S))
  BY <1>1
<1>4. FlattenSeq(Append(a, ss[n])) = FlattenSeq(a) \o ss[n]
  BY <1>2, FlattenAppend
<1>5. FlattenSeq(SubSeq(ss, 1, n)) \in Seq(S)
  BY <1>3, FlattenRange
<1>6. FlattenSeq(a) \in Seq(S)
  BY <1>2, FlattenRange
<1> QED
  BY <1>1, <1>2, <1>3, <1>4, <1>5, <1>6

LEMMA FlattenNone ==
  ASSUME NEW S, NEW ss \in Seq(Seq(S))
  PROVE  FlattenSeq(SubSeq(ss, 1, 0)) = <<>>
<1>1. SubSeq(ss, 1, 0) = <<>>
  OBVIOUS
<1>2. FlattenSeq(<<>>) = <<>>
  BY DEF FlattenSeq
<1> QED
  BY <1>1, <1>2

LEMMA WholeOf ==
  ASSUME NEW S, NEW s \in Seq(S)
  PROVE  SubSeq(s, 1, Len(s)) = s
<1>1. Len(s) \in Nat
  OBVIOUS
<1>2. /\ SubSeq(s, 1, Len(s)) \in Seq(S) /\ Len(SubSeq(s, 1, Len(s))) = Len(s)
      /\ \A i \in 1..Len(s) : SubSeq(s, 1, Len(s))[i] = s[i]
  BY <1>1
<1> QED
  BY <1>2, SeqEqual

\* A change to one of the sequences is the same change to all of them together.
ChangedAt(ss, tt, b) ==
  /\ Len(tt) = Len(ss) /\ b \in 1..Len(ss)
  /\ \A i \in 1..Len(ss) : i # b => tt[i] = ss[i]

LEMMA FlattenChanged ==
  ASSUME NEW S, NEW ss \in Seq(Seq(S)), NEW tt \in Seq(Seq(S)), NEW b,
         ChangedAt(ss, tt, b), NEW T, NEW x,
         CountIn(tt[b], T) = CountIn(ss[b], T) + One(x, T)
  PROVE  CountIn(FlattenSeq(tt), T) = CountIn(FlattenSeq(ss), T) + One(x, T)
<1>0. /\ Len(tt) = Len(ss) /\ b \in 1..Len(ss)
      /\ \A i \in 1..Len(ss) : i # b => tt[i] = ss[i]
  BY DEF ChangedAt
<1>d. PICK d \in Int : d = One(x, T)
  BY DEF One
<1>e. CountIn(tt[b], T) = CountIn(ss[b], T) + d
  BY <1>d
<1>1. PICK N \in Nat : N = Len(ss)
  OBVIOUS
<1> DEFINE f(n) == CountIn(FlattenSeq(SubSeq(ss, 1, n)), T)
           g(n) == CountIn(FlattenSeq(SubSeq(tt, 1, n)), T)
           Good == {n \in 0..N : /\ n < b => g(n) = f(n)
                                 /\ n >= b => g(n) = f(n) + d}
<1>2. 0 \in Good
  <2>1. FlattenSeq(SubSeq(ss, 1, 0)) = <<>> /\ FlattenSeq(SubSeq(tt, 1, 0)) = <<>>
    BY FlattenNone
  <2>2. f(0) = g(0) /\ 0 \in 0..N /\ ~(0 >= b)
    BY <1>0, <1>1, <2>1
  <2> QED
    BY <2>2
<1>3. ASSUME NEW n \in 1..N, n - 1 \in Good PROVE n \in Good
  <2>1. n \in 1..Len(ss) /\ n \in 1..Len(tt)
    BY <1>0, <1>1
  <2>2. f(n) = f(n - 1) + CountIn(ss[n], T) /\ f(n - 1) \in Nat /\ CountIn(ss[n], T) \in Nat
    <3>1. PICK a : a = FlattenSeq(SubSeq(ss, 1, n - 1))
      OBVIOUS
    <3>2. a \in Seq(S) /\ ss[n] \in Seq(S) /\ FlattenSeq(SubSeq(ss, 1, n)) = a \o ss[n]
      BY <2>1, <3>1, FlattenUpTo
    <3>3. CountIn(a \o ss[n], T) = CountIn(a, T) + CountIn(ss[n], T)
      BY <3>2, CountJoin
    <3>4. CountIn(a, T) \in Nat /\ CountIn(ss[n], T) \in Nat
      BY <3>2, CountType
    <3> QED
      BY <3>1, <3>2, <3>3, <3>4
  <2>3. g(n) = g(n - 1) + CountIn(tt[n], T) /\ g(n - 1) \in Nat /\ CountIn(tt[n], T) \in Nat
    <3>1. PICK a : a = FlattenSeq(SubSeq(tt, 1, n - 1))
      OBVIOUS
    <3>2. a \in Seq(S) /\ tt[n] \in Seq(S) /\ FlattenSeq(SubSeq(tt, 1, n)) = a \o tt[n]
      BY <2>1, <3>1, FlattenUpTo
    <3>3. CountIn(a \o tt[n], T) = CountIn(a, T) + CountIn(tt[n], T)
      BY <3>2, CountJoin
    <3>4. CountIn(a, T) \in Nat /\ CountIn(tt[n], T) \in Nat
      BY <3>2, CountType
    <3> QED
      BY <3>1, <3>2, <3>3, <3>4
  <2>4. (n - 1 < b => g(n - 1) = f(n - 1)) /\ (n - 1 >= b => g(n - 1) = f(n - 1) + d)
    BY <1>3
  <2> HIDE DEF f, g
  <2>5. CASE n = b
    <3>1. CountIn(tt[n], T) = CountIn(ss[n], T) + d /\ g(n - 1) = f(n - 1)
      BY <1>e, <2>4, <2>5
    <3>2. g(n) = f(n) + d /\ ~(n < b)
      BY <2>2, <2>3, <2>5, <3>1
    <3> QED
      BY <3>2
  <2>6. CASE n < b
    <3>1. CountIn(tt[n], T) = CountIn(ss[n], T) /\ g(n - 1) = f(n - 1)
      BY <1>0, <2>1, <2>4, <2>6
    <3>2. g(n) = f(n) /\ ~(n >= b)
      BY <1>0, <2>2, <2>3, <2>6, <3>1
    <3> QED
      BY <3>2
  <2>7. CASE n > b
    <3>a. n # b /\ n - 1 >= b
      BY <1>0, <1>1, <2>7
    <3>1. CountIn(tt[n], T) = CountIn(ss[n], T) /\ g(n - 1) = f(n - 1) + d
      BY <1>0, <2>1, <2>4, <3>a
    <3>2. g(n) = f(n) + d /\ ~(n < b)
      BY <1>0, <2>2, <2>3, <2>7, <3>1
    <3> QED
      BY <3>2
  <2>8. n = b \/ n < b \/ n > b
    BY <1>0, <1>1
  <2> QED
    BY <2>5, <2>6, <2>7, <2>8
<1>4. N \in Good
  <2> HIDE DEF Good
  <2>1. 0..N \subseteq Good
    BY <1>2, <1>3, UpToInduction
  <2> QED
    BY <2>1
<1>5. g(N) = f(N) + d
  <2>1. N >= b
    BY <1>0, <1>1
  <2> HIDE DEF f, g
  <2> QED
    BY <1>4, <2>1
<1>6. SubSeq(ss, 1, N) = ss /\ SubSeq(tt, 1, N) = tt
  BY <1>0, <1>1, WholeOf
<1> QED
  BY <1>d, <1>5, <1>6

\* Empty sequences at the end make no difference.
LEMMA FlattenTrimmed ==
  ASSUME NEW S, NEW ss \in Seq(Seq(S)), NEW m \in 0..Len(ss),
         \A i \in 1..Len(ss) : i > m => ss[i] = <<>>
  PROVE  FlattenSeq(SubSeq(ss, 1, m)) = FlattenSeq(ss)
<1>1. PICK N \in Nat : N = Len(ss)
  OBVIOUS
<1> DEFINE f(n) == FlattenSeq(SubSeq(ss, 1, n))
           Good == {n \in 0..N : n >= m => f(n) = f(m)}
<1>2. 0 \in Good
  <2>1. 0 >= m => 0 = m
    BY <1>1
  <2> QED
    BY <2>1
<1>3. ASSUME NEW n \in 1..N, n - 1 \in Good PROVE n \in Good
  <2>1. /\ f(n) = f(n - 1) \o ss[n] /\ f(n - 1) \in Seq(S)
    BY <1>1, FlattenUpTo
  <2>2. n - 1 >= m => f(n - 1) = f(m)
    BY <1>3
  <2> HIDE DEF f
  <2>3. CASE n > m
    <3>1. ss[n] = <<>> /\ n - 1 >= m
      BY <1>1, <2>3
    <3>2. f(n) = f(n - 1)
      BY <2>1, <3>1
    <3> QED
      BY <2>2, <3>1, <3>2
  <2>4. CASE n = m
    BY <2>4
  <2>5. CASE n < m
    BY <2>5
  <2> QED
    BY <2>3, <2>4, <2>5
<1>4. N \in Good
  <2> HIDE DEF Good
  <2>1. 0..N \subseteq Good
    BY <1>2, <1>3, UpToInduction
  <2> QED
    BY <2>1
<1>5. f(N) = f(m)
  <2>1. N >= m
    BY <1>1
  <2> HIDE DEF f
  <2> QED
    BY <1>4, <2>1
<1> QED
  BY <1>1, <1>5, WholeOf

ValuesOf(over) == [i \in DOMAIN over |-> over[i].vals]

LEMMA ValuesAre ==
  ASSUME NEW over \in Seq(OverBlocks)
  PROVE  /\ ValuesOf(over) \in Seq(Seq(Values)) /\ Len(ValuesOf(over)) = Len(over)
         /\ \A i \in 1..Len(over) : ValuesOf(over)[i] = over[i].vals
         /\ OverflowValues(over) = FlattenSeq(ValuesOf(over))
         /\ OverflowValues(over) \in Seq(Values)
<1>1. PICK n \in Nat : n = Len(over)
  OBVIOUS
<1>2. DOMAIN over = 1..n /\ \A i \in 1..n : over[i] \in OverBlocks
  BY <1>1
<1>3. \A i \in 1..n : over[i].vals \in Seq(Values)
  BY <1>2 DEF OverBlocks
<1>4. PICK ss : ss = ValuesOf(over)
  OBVIOUS
<1>5. ss = [i \in 1..n |-> over[i].vals]
  BY <1>2, <1>4 DEF ValuesOf
<1>6. ss \in [1..n -> Seq(Values)]
  BY <1>3, <1>5
<1>7. ss \in Seq(Seq(Values)) /\ Len(ss) = n
  BY <1>6
<1>8. FlattenSeq(ss) \in Seq(Values)
  BY <1>7, FlattenRange
<1>9. OverflowValues(over) = FlattenSeq(ss)
  BY <1>4 DEF OverflowValues, ValuesOf
<1> QED
  BY <1>1, <1>4, <1>5, <1>7, <1>8, <1>9

\* A chain with other values in one block.
LEMMA RefilledIs ==
  ASSUME NEW over \in Seq(OverBlocks), NEW n \in 1..Len(over), NEW vals \in Seq(Values),
         NEW new, new = Refilled(over, n, vals)
  PROVE  /\ new \in Seq(OverBlocks) /\ Len(new) = Len(over)
         /\ new[n].vals = vals
         /\ \A i \in 1..Len(over) : i # n => new[i].vals = over[i].vals
<1>1. PICK N \in Nat : N = Len(over)
  OBVIOUS
<1>2. DOMAIN over = 1..N /\ \A i \in 1..N : over[i] \in OverBlocks
  BY <1>1
<1>3. \A i \in 1..N : over[i].vals \in Seq(Values) /\ over[i].loaded \in BOOLEAN
  BY <1>2 DEF OverBlocks
<1>4. PICK old : old = Loaded(over, n)
  OBVIOUS
<1>5. old = [i \in 1..N |-> [vals |-> over[i].vals, loaded |-> over[i].loaded \/ i <= n]]
  BY <1>2, <1>4 DEF Loaded, Block
<1>6. new = [i \in 1..N |-> IF i = n THEN [vals |-> vals, loaded |-> TRUE] ELSE old[i]]
  BY <1>2, <1>4 DEF Refilled, Block
<1>7. \A i \in 1..N : old[i].vals = over[i].vals /\ old[i] \in OverBlocks
  <2>1. ASSUME NEW i \in 1..N PROVE old[i].vals = over[i].vals /\ old[i] \in OverBlocks
    <3>1. (over[i].loaded \/ i <= n) \in BOOLEAN
      OBVIOUS
    <3>2. old[i] = [vals |-> over[i].vals, loaded |-> over[i].loaded \/ i <= n]
      BY <1>5
    <3> QED
      BY <1>3, <3>1, <3>2 DEF OverBlocks
  <2> QED
    BY <2>1
<1>8. [vals |-> vals, loaded |-> TRUE] \in OverBlocks
  BY DEF OverBlocks
<1>9. new \in [1..N -> OverBlocks]
  BY <1>6, <1>7, <1>8
<1>10. new \in Seq(OverBlocks) /\ Len(new) = N
  BY <1>9
<1>11. new[n].vals = vals
  BY <1>1, <1>6
<1>12. \A i \in 1..N : i # n => new[i].vals = over[i].vals
  BY <1>6, <1>7
<1> QED
  BY <1>1, <1>10, <1>11, <1>12

\* Loading blocks changes nothing that is in them.
LEMMA LoadedIs ==
  ASSUME NEW over \in Seq(OverBlocks), NEW n, NEW new, new = Loaded(over, n)
  PROVE  /\ new \in Seq(OverBlocks) /\ Len(new) = Len(over)
         /\ \A i \in 1..Len(over) : new[i].vals = over[i].vals
         /\ OverflowValues(new) = OverflowValues(over)
<1>1. PICK N \in Nat : N = Len(over)
  OBVIOUS
<1>2. DOMAIN over = 1..N /\ \A i \in 1..N : over[i] \in OverBlocks
  BY <1>1
<1>3. \A i \in 1..N : over[i].vals \in Seq(Values)
  BY <1>2 DEF OverBlocks
<1>4. new = [i \in 1..N |-> [vals |-> over[i].vals, loaded |-> over[i].loaded \/ i <= n]]
  BY <1>2 DEF Loaded, Block
<1>5. \A i \in 1..N : new[i].vals = over[i].vals /\ new[i] \in OverBlocks
  <2>1. ASSUME NEW i \in 1..N PROVE new[i].vals = over[i].vals /\ new[i] \in OverBlocks
    <3>1. (over[i].loaded \/ i <= n) \in BOOLEAN
      OBVIOUS
    <3>2. new[i] = [vals |-> over[i].vals, loaded |-> over[i].loaded \/ i <= n]
      BY <1>4
    <3> QED
      BY <1>3, <3>1, <3>2 DEF OverBlocks
  <2> QED
    BY <2>1
<1>6. new \in Seq(OverBlocks) /\ Len(new) = N
  <2>1. new \in [1..N -> OverBlocks]
    BY <1>4, <1>5
  <2> QED
    BY <2>1
<1>7. ValuesOf(new) = ValuesOf(over)
  BY <1>2, <1>5, <1>6 DEF ValuesOf
<1> QED
  BY <1>1, <1>5, <1>6, <1>7, ValuesAre

\* overflowInsert: one value more.
LEMMA OverflowInserted ==
  ASSUME NEW over \in Seq(OverBlocks), over # <<>>, Last(over).vals # <<>>,
         NEW v \in Values, NEW new, new = OverflowInsert(over, v), NEW T
  PROVE  /\ new \in Seq(OverBlocks) /\ new # <<>> /\ Last(new).vals # <<>>
         /\ CountIn(OverflowValues(new), T) = CountIn(OverflowValues(over), T) + One(v, T)
<1>1. PICK N \in Nat : N = Len(over)
  OBVIOUS
<1>2. N >= 1 /\ 1 \in 1..N /\ N \in 1..N
  BY <1>1
<1>3. PICK vals : vals = over[1].vals
  OBVIOUS
<1>4. vals \in Seq(Values)
  <2>1. over[1] \in OverBlocks
    BY <1>1, <1>2
  <2> QED
    BY <1>3, <2>1 DEF OverBlocks
<1>5. PICK more : more = Append(vals, v)
  OBVIOUS
<1>6. more \in Seq(Values) /\ more # <<>>
  BY <1>4, <1>5
<1>7. new = Refilled(over, 1, more)
  BY <1>3, <1>5 DEF OverflowInsert
<1>8. /\ new \in Seq(OverBlocks) /\ Len(new) = N
      /\ new[1].vals = more
      /\ \A i \in 1..N : i # 1 => new[i].vals = over[i].vals
  BY <1>1, <1>2, <1>6, <1>7, RefilledIs
<1>9. new # <<>> /\ Last(new).vals # <<>>
  <2>1. new # <<>> /\ Last(new) = new[N] /\ Last(over) = over[N]
    BY <1>1, <1>2, <1>8 DEF Last
  <2>2. CASE N = 1
    BY <1>6, <1>8, <2>1, <2>2
  <2>3. CASE N # 1
    BY <1>2, <1>8, <2>1, <2>3
  <2> QED
    BY <2>1, <2>2, <2>3
<1>10. PICK ss : ss = ValuesOf(over)
  OBVIOUS
<1>11. PICK tt : tt = ValuesOf(new)
  OBVIOUS
<1>12. /\ ss \in Seq(Seq(Values)) /\ Len(ss) = N /\ \A i \in 1..N : ss[i] = over[i].vals
       /\ OverflowValues(over) = FlattenSeq(ss)
  BY <1>1, <1>10, ValuesAre
<1>13. /\ tt \in Seq(Seq(Values)) /\ Len(tt) = N /\ \A i \in 1..N : tt[i] = new[i].vals
       /\ OverflowValues(new) = FlattenSeq(tt)
  BY <1>8, <1>11, ValuesAre
<1>14. CountIn(more, T) = CountIn(vals, T) + One(v, T)
  BY <1>4, <1>5, CountAppend
<1>15. CountIn(tt[1], T) = CountIn(ss[1], T) + One(v, T)
  BY <1>2, <1>3, <1>8, <1>12, <1>13, <1>14
<1>16. ChangedAt(ss, tt, 1)
  BY <1>2, <1>8, <1>12, <1>13 DEF ChangedAt
<1>17. ss \in Seq(Seq(Values)) /\ tt \in Seq(Seq(Values))
  BY <1>12, <1>13
<1>18. CountIn(FlattenSeq(tt), T) = CountIn(FlattenSeq(ss), T) + One(v, T)
  BY <1>15, <1>16, <1>17, FlattenChanged
<1> QED
  BY <1>8, <1>9, <1>12, <1>13, <1>18

\* A chain without its empty end.
LEMMA LiveIs ==
  ASSUME NEW over \in Seq(OverBlocks), NEW new, new = Live(over)
  PROVE  /\ new \in Seq(OverBlocks)
         /\ new # <<>> => Last(new).vals # <<>>
         /\ OverflowValues(new) = OverflowValues(over)
<1>1. PICK N \in Nat : N = Len(over)
  OBVIOUS
<1>2. PICK B : B = {i \in DOMAIN over : over[i].vals # <<>>}
  OBVIOUS
<1>3. B \in SUBSET (1..N) /\ \A i \in 1..N : i \notin B => over[i].vals = <<>>
  BY <1>1, <1>2
<1>4. PICK m : m = Max({0} \cup B)
  OBVIOUS
<1>5. m \in 0..N /\ (m # 0 => m \in B) /\ \A i \in B : i <= m
  <2>1. CASE B = {}
    <3>1. {0} \cup B = {0} /\ Max({0}) = 0
      BY <2>1 DEF Max
    <3> QED
      BY <1>4, <2>1, <3>1
  <2>2. CASE B # {}
    <3>1. PICK n \in B : \A i \in B : i <= n
      BY <1>3, <2>2, LargestOf
    <3>2. /\ n \in {0} \cup B /\ \A y \in {0} \cup B : n >= y
      BY <1>3, <3>1
    <3>3. ASSUME NEW x \in {0} \cup B, \A y \in {0} \cup B : x >= y PROVE x = n
      BY <1>3, <3>1, <3>3
    <3>4. m = n
      BY <1>4, <3>2, <3>3 DEF Max
    <3> QED
      BY <1>3, <3>1, <3>4
  <2> QED
    BY <2>1, <2>2
<1>6. new = SubSeq(over, 1, m)
  BY <1>2, <1>4 DEF Live
<1>7. m \in Nat /\ m <= N
  BY <1>5
<1>8. new \in Seq(OverBlocks) /\ Len(new) = m /\ \A i \in 1..m : new[i] = over[i]
  BY <1>1, <1>6, <1>7
<1>9. new # <<>> => Last(new).vals # <<>>
  <2> SUFFICES ASSUME new # <<>> PROVE Last(new).vals # <<>>
    OBVIOUS
  <2>1. m # 0 /\ m \in 1..m
    BY <1>7, <1>8
  <2>2. Last(new) = over[m] /\ m \in B
    BY <1>5, <1>8, <2>1 DEF Last
  <2> QED
    BY <1>2, <2>2
<1>10. PICK ss : ss = ValuesOf(over)
  OBVIOUS
<1>11. /\ ss \in Seq(Seq(Values)) /\ Len(ss) = N /\ \A i \in 1..N : ss[i] = over[i].vals
       /\ OverflowValues(over) = FlattenSeq(ss)
  BY <1>1, <1>10, ValuesAre
<1>12. PICK tt : tt = ValuesOf(new)
  OBVIOUS
<1>13. /\ tt \in Seq(Seq(Values)) /\ Len(tt) = m /\ \A i \in 1..m : tt[i] = new[i].vals
       /\ OverflowValues(new) = FlattenSeq(tt)
  BY <1>8, <1>12, ValuesAre
<1>14. tt = SubSeq(ss, 1, m)
  <2>1. /\ SubSeq(ss, 1, m) \in Seq(Seq(Values)) /\ Len(SubSeq(ss, 1, m)) = m
        /\ \A i \in 1..m : SubSeq(ss, 1, m)[i] = ss[i]
    BY <1>7, <1>11
  <2>2. \A i \in 1..m : i \in 1..N
    BY <1>7
  <2>3. \A i \in 1..m : tt[i] = SubSeq(ss, 1, m)[i]
    BY <1>8, <1>11, <1>13, <2>1, <2>2
  <2> QED
    BY <1>13, <2>1, <2>3, SeqEqual
<1>15. \A i \in 1..Len(ss) : i > m => ss[i] = <<>>
  <2>1. ASSUME NEW i \in 1..N, i > m PROVE ss[i] = <<>>
    <3>1. i \notin B
      BY <1>5, <2>1
    <3> QED
      BY <1>3, <1>11, <3>1
  <2> QED
    BY <1>11, <2>1
<1>16. FlattenSeq(SubSeq(ss, 1, m)) = FlattenSeq(ss)
  BY <1>5, <1>11, <1>15, FlattenTrimmed
<1> QED
  BY <1>8, <1>9, <1>11, <1>13, <1>14, <1>16

\* overflowPull: the last value of the chain, and the chain without it.
LEMMA PulledIs ==
  ASSUME NEW over \in Seq(OverBlocks), over # <<>>, Last(over).vals # <<>>,
         NEW new, new = Pulled(over)
  PROVE  /\ new \in Seq(OverBlocks)
         /\ new # <<>> => Last(new).vals # <<>>
         /\ Last(OverflowValues(over)) \in Values
         /\ OverflowValues(over) = Append(OverflowValues(new), Last(OverflowValues(over)))
<1>1. PICK N \in Nat : N = Len(over)
  OBVIOUS
<1>2. N >= 1 /\ N \in 1..N /\ Last(over) = over[N] /\ N - 1 \in 0..N /\ N - 1 \in Nat
  BY <1>1 DEF Last
<1>3. PICK vals : vals = over[N].vals
  OBVIOUS
<1>4. vals \in Seq(Values) /\ vals # <<>> /\ over[N] \in OverBlocks
  <2>1. over[N] \in OverBlocks
    BY <1>1, <1>2
  <2> QED
    BY <1>2, <1>3, <2>1 DEF OverBlocks
<1>5. PICK rest : rest = Front(vals)
  OBVIOUS
<1>6. PICK x : x = Last(vals)
  OBVIOUS
<1>7. rest \in Seq(Values) /\ x \in Values /\ vals = Append(rest, x)
  <2>1. Len(vals) \in Nat /\ Len(vals) >= 1
    BY <1>4
  <2>2. rest \in Seq(Values) /\ x \in Values /\ Len(rest) = Len(vals) - 1
    <3>1. PICK m \in Nat : m = Len(vals)
      BY <2>1
    <3>2. rest = SubSeq(vals, 1, m - 1) /\ x = vals[m] /\ m >= 1
      BY <1>5, <1>6, <2>1, <3>1 DEF Front, Last
    <3>3. x \in Values
      BY <1>4, <3>1, <3>2
    <3>4. rest \in Seq(Values) /\ Len(rest) = m - 1
      BY <1>4, <3>1, <3>2
    <3> QED
      BY <3>1, <3>3, <3>4
  <2>3. \A i \in 1..(Len(vals) - 1) : rest[i] = vals[i]
    BY <1>4, <1>5, <2>1 DEF Front
  <2>4. PICK w : w = Append(rest, x)
    OBVIOUS
  <2>5. /\ w \in Seq(Values) /\ Len(w) = Len(vals) /\ w[Len(vals)] = x
        /\ \A i \in 1..(Len(vals) - 1) : w[i] = rest[i]
    BY <2>1, <2>2, <2>4
  <2>6. \A i \in 1..Len(vals) : w[i] = vals[i]
    <3>1. \A i \in 1..Len(vals) : i \in 1..(Len(vals) - 1) \/ i = Len(vals)
      BY <2>1
    <3> QED
      BY <1>6, <2>3, <2>5, <3>1 DEF Last
  <2>7. w = vals
    BY <1>4, <2>5, <2>6, SeqEqual
  <2> QED
    BY <2>2, <2>4, <2>7
<1>8. PICK mid : mid = Refilled(over, N, rest)
  OBVIOUS
<1>9. /\ mid \in Seq(OverBlocks) /\ Len(mid) = N
      /\ mid[N].vals = rest
      /\ \A i \in 1..N : i # N => mid[i].vals = over[i].vals
  <2>1. PICK n \in 1..Len(over) : n = N
    BY <1>1, <1>2
  <2>2. PICK vs \in Seq(Values) : vs = rest
    BY <1>7
  <2>3. mid = Refilled(over, n, vs)
    BY <1>8, <2>1, <2>2
  <2>4. /\ mid \in Seq(OverBlocks) /\ Len(mid) = Len(over)
        /\ mid[n].vals = vs
        /\ \A i \in 1..Len(over) : i # n => mid[i].vals = over[i].vals
    BY <2>3, RefilledIs
  <2> QED
    BY <1>1, <2>1, <2>2, <2>4
<1>10. new = Live(mid)
  BY <1>1, <1>2, <1>3, <1>5, <1>8 DEF Pulled
<1>11. /\ new \in Seq(OverBlocks) /\ (new # <<>> => Last(new).vals # <<>>)
       /\ OverflowValues(new) = OverflowValues(mid)
  BY <1>9, <1>10, LiveIs
<1>12. PICK ss : ss = ValuesOf(over)
  OBVIOUS
<1>13. PICK tt : tt = ValuesOf(mid)
  OBVIOUS
<1>14. /\ ss \in Seq(Seq(Values)) /\ Len(ss) = N /\ \A i \in 1..N : ss[i] = over[i].vals
       /\ OverflowValues(over) = FlattenSeq(ss)
  BY <1>1, <1>12, ValuesAre
<1>15. /\ tt \in Seq(Seq(Values)) /\ Len(tt) = N /\ \A i \in 1..N : tt[i] = mid[i].vals
       /\ OverflowValues(mid) = FlattenSeq(tt)
  BY <1>9, <1>13, ValuesAre
<1>16. SubSeq(ss, 1, N - 1) = SubSeq(tt, 1, N - 1)
  <2>1. /\ SubSeq(ss, 1, N - 1) \in Seq(Seq(Values)) /\ Len(SubSeq(ss, 1, N - 1)) = N - 1
        /\ \A i \in 1..(N - 1) : SubSeq(ss, 1, N - 1)[i] = ss[i]
    BY <1>2, <1>14
  <2>2. /\ SubSeq(tt, 1, N - 1) \in Seq(Seq(Values)) /\ Len(SubSeq(tt, 1, N - 1)) = N - 1
        /\ \A i \in 1..(N - 1) : SubSeq(tt, 1, N - 1)[i] = tt[i]
    BY <1>2, <1>15
  <2>3. \A i \in 1..(N - 1) : i \in 1..N /\ i # N
    BY <1>2
  <2>4. \A i \in 1..(N - 1) : SubSeq(ss, 1, N - 1)[i] = SubSeq(tt, 1, N - 1)[i]
    BY <1>9, <1>14, <1>15, <2>1, <2>2, <2>3
  <2> QED
    BY <2>1, <2>2, <2>4, SeqEqual
<1>17. PICK a : a = FlattenSeq(SubSeq(ss, 1, N - 1))
  OBVIOUS
<1>18. a \in Seq(Values) /\ FlattenSeq(ss) = a \o vals
  <2>1. N \in 1..Len(ss)
    BY <1>2, <1>14
  <2>2. FlattenSeq(SubSeq(ss, 1, N)) = a \o ss[N] /\ a \in Seq(Values)
    BY <1>14, <1>17, <2>1, FlattenUpTo
  <2>3. SubSeq(ss, 1, N) = ss
    BY <1>14, WholeOf
  <2> QED
    BY <1>2, <1>3, <1>14, <2>2, <2>3
<1>19. FlattenSeq(tt) = a \o rest
  <2>1. N \in 1..Len(tt)
    BY <1>2, <1>15
  <2>2. FlattenSeq(SubSeq(tt, 1, N)) = FlattenSeq(SubSeq(tt, 1, N - 1)) \o tt[N]
    BY <1>15, <2>1, FlattenUpTo
  <2>3. SubSeq(tt, 1, N) = tt
    BY <1>15, WholeOf
  <2> QED
    BY <1>2, <1>9, <1>15, <1>16, <1>17, <2>2, <2>3
<1>20. a \o vals = Append(a \o rest, x)
  BY <1>7, <1>18
<1>21. PICK all : all = a \o rest
  OBVIOUS
<1>22. all \in Seq(Values)
  BY <1>7, <1>18, <1>21
<1>23. Last(Append(all, x)) = x
  BY <1>7, <1>22 DEF Last
<1>24. OverflowValues(over) = Append(all, x) /\ OverflowValues(new) = all
  BY <1>11, <1>14, <1>15, <1>18, <1>19, <1>20, <1>21
<1> QED
  BY <1>7, <1>11, <1>23, <1>24

-----------------------------------------------------------------------------
(* Bags of what is in a list *)

\* The list after has one pair more than the list before.
Adds(before, after, x) ==
  \A T : CountIn(after, T) = CountIn(before, T) + One(x, T)

\* It has one pair less.
Drops(before, after, x) ==
  \A T : CountIn(before, T) = CountIn(after, T) + One(x, T)

\* It has y instead of x.
Swaps(before, after, x, y) ==
  \A T : CountIn(after, T) + One(x, T) = CountIn(before, T) + One(y, T)

LEMMA BagAt ==
  ASSUME NEW s \in Seq(Recs), NEW k \in Keys, NEW v \in Values
  PROVE  /\ BagOf(s)[<<k, v>>] = CountIn(s, {Rec(k, v)})
         /\ BagOf(s)[<<k, v>>] \in Nat
         /\ BagOf(s)[<<k, v>>] > 0 <=> \E i \in DOMAIN s : s[i] = Rec(k, v)
<1>1. \A i \in DOMAIN s : s[i] \in Recs
  OBVIOUS
<1>2. \A i \in DOMAIN s : <<s[i].key, s[i].val>> = <<k, v>> <=> s[i] \in {Rec(k, v)}
  BY <1>1 DEF Recs, Rec
<1>3. {i \in DOMAIN s : <<s[i].key, s[i].val>> = <<k, v>>}
      = {i \in DOMAIN s : s[i] \in {Rec(k, v)}}
  BY <1>2
<1>4. <<k, v>> \in Pairs
  BY DEF Pairs
<1>5. BagOf(s)[<<k, v>>] = CountIn(s, {Rec(k, v)})
  BY <1>3, <1>4 DEF BagOf, CountIn
<1>6. PICK B : B = {i \in DOMAIN s : s[i] \in {Rec(k, v)}}
  OBVIOUS
<1>7. IsFiniteSet(B) /\ CountIn(s, {Rec(k, v)}) = Cardinality(B) /\ Cardinality(B) \in Nat
  BY <1>6, CountType DEF CountIn
<1>8. Cardinality(B) = 0 <=> B = {}
  BY <1>7, FS_EmptySet
<1>9. B # {} <=> \E i \in DOMAIN s : s[i] = Rec(k, v)
  BY <1>6
<1> QED
  BY <1>5, <1>7, <1>8, <1>9

LEMMA RecsAre ==
  ASSUME NEW x \in Recs
  PROVE  x.key \in Keys /\ x.val \in Values /\ x = Rec(x.key, x.val)
BY DEF Recs, Rec

LEMMA OneIs ==
  ASSUME NEW k, NEW v, NEW j, NEW w
  PROVE  One(Rec(k, v), {Rec(j, w)}) = IF <<k, v>> = <<j, w>> THEN 1 ELSE 0
<1>1. Rec(k, v) = Rec(j, w) <=> <<k, v>> = <<j, w>>
  BY DEF Rec
<1> QED
  BY <1>1 DEF One

LEMMA BagAdds ==
  ASSUME NEW b \in Seq(Recs), NEW a \in Seq(Recs), NEW k \in Keys, NEW v \in Values,
         Adds(b, a, Rec(k, v))
  PROVE  BagOf(a) = With(BagOf(b), k, v) /\ Len(a) = Len(b) + 1
<1>1. BagOf(a) = [p \in Pairs |-> BagOf(a)[p]] /\ BagOf(b) = [p \in Pairs |-> BagOf(b)[p]]
  BY DEF BagOf
<1>2. ASSUME NEW j \in Keys, NEW w \in Values
      PROVE  BagOf(a)[<<j, w>>] = BagOf(b)[<<j, w>>] + IF <<k, v>> = <<j, w>> THEN 1 ELSE 0
  <2>1. CountIn(a, {Rec(j, w)}) = CountIn(b, {Rec(j, w)}) + One(Rec(k, v), {Rec(j, w)})
    BY DEF Adds
  <2> QED
    BY <2>1, BagAt, OneIs
<1>3. PICK A : A = BagOf(a)
  OBVIOUS
<1>4. PICK B : B = BagOf(b)
  OBVIOUS
<1>5. ASSUME NEW p \in Pairs
      PROVE  A[p] = IF p = <<k, v>> THEN B[p] + 1 ELSE B[p]
  <2>1. PICK j \in Keys, w \in Values : p = <<j, w>>
    BY DEF Pairs
  <2>2. B[<<j, w>>] \in Nat
    BY <1>4, BagAt
  <2>3. A[<<j, w>>] = B[<<j, w>>] + IF <<k, v>> = <<j, w>> THEN 1 ELSE 0
    BY <1>2, <1>3, <1>4
  <2> QED
    BY <2>1, <2>2, <2>3
<1>6. A = [B EXCEPT ![<<k, v>>] = @ + 1]
  <2>1. <<k, v>> \in Pairs
    BY DEF Pairs
  <2> QED
    BY <1>1, <1>3, <1>4, <1>5, <2>1
<1>7. Len(a) = Len(b) + 1
  <2>1. CountIn(a, Recs) = CountIn(b, Recs) + One(Rec(k, v), Recs)
    BY DEF Adds
  <2>2. One(Rec(k, v), Recs) = 1
    BY DEF One, Rec, Recs
  <2> QED
    BY <2>1, <2>2, CountAll
<1> QED
  BY <1>3, <1>4, <1>6, <1>7 DEF With

LEMMA BagDrops ==
  ASSUME NEW b \in Seq(Recs), NEW a \in Seq(Recs), NEW k \in Keys, NEW v \in Values,
         Drops(b, a, Rec(k, v))
  PROVE  /\ BagOf(a) = Without(BagOf(b), k, v) /\ Len(a) = Len(b) - 1
         /\ BagOf(b)[<<k, v>>] > 0
<1>1. BagOf(a) = [p \in Pairs |-> BagOf(a)[p]] /\ BagOf(b) = [p \in Pairs |-> BagOf(b)[p]]
  BY DEF BagOf
<1>2. ASSUME NEW j \in Keys, NEW w \in Values
      PROVE  BagOf(b)[<<j, w>>] = BagOf(a)[<<j, w>>] + IF <<k, v>> = <<j, w>> THEN 1 ELSE 0
  <2>1. CountIn(b, {Rec(j, w)}) = CountIn(a, {Rec(j, w)}) + One(Rec(k, v), {Rec(j, w)})
    BY DEF Drops
  <2> QED
    BY <2>1, BagAt, OneIs
<1>3. PICK A : A = BagOf(a)
  OBVIOUS
<1>4. PICK B : B = BagOf(b)
  OBVIOUS
<1>5. ASSUME NEW p \in Pairs
      PROVE  A[p] = IF p = <<k, v>> THEN B[p] - 1 ELSE B[p]
  <2>1. PICK j \in Keys, w \in Values : p = <<j, w>>
    BY DEF Pairs
  <2>2. A[<<j, w>>] \in Nat
    BY <1>3, BagAt
  <2>3. B[<<j, w>>] = A[<<j, w>>] + IF <<k, v>> = <<j, w>> THEN 1 ELSE 0
    BY <1>2, <1>3, <1>4
  <2> QED
    BY <2>1, <2>2, <2>3
<1>6. A = [B EXCEPT ![<<k, v>>] = @ - 1]
  <2>1. <<k, v>> \in Pairs
    BY DEF Pairs
  <2> QED
    BY <1>1, <1>3, <1>4, <1>5, <2>1
<1>7. Len(a) = Len(b) - 1
  <2>1. CountIn(b, Recs) = CountIn(a, Recs) + One(Rec(k, v), Recs)
    BY DEF Drops
  <2>2. One(Rec(k, v), Recs) = 1
    BY DEF One, Rec, Recs
  <2>3. Len(b) = Len(a) + 1
    BY <2>1, <2>2, CountAll
  <2> QED
    BY <2>3
<1>8. BagOf(b)[<<k, v>>] > 0
  <2>1. BagOf(b)[<<k, v>>] = BagOf(a)[<<k, v>>] + 1 /\ BagOf(a)[<<k, v>>] \in Nat
    BY <1>2, BagAt
  <2> QED
    BY <2>1
<1> QED
  BY <1>3, <1>4, <1>6, <1>7, <1>8 DEF Without

\* The list after has the value v of k instead of one that it has before.
LEMMA BagSwaps ==
  ASSUME NEW b \in Seq(Recs), NEW a \in Seq(Recs), NEW k \in Keys, NEW v \in Values,
         NEW u \in Values, Swaps(b, a, Rec(k, u), Rec(k, v))
  PROVE  BagOf(a) = With(Without(BagOf(b), k, u), k, v) /\ Len(a) = Len(b)
<1>1. BagOf(a) = [p \in Pairs |-> BagOf(a)[p]] /\ BagOf(b) = [p \in Pairs |-> BagOf(b)[p]]
  BY DEF BagOf
<1>2. ASSUME NEW j \in Keys, NEW w \in Values
      PROVE  BagOf(a)[<<j, w>>] + (IF <<k, u>> = <<j, w>> THEN 1 ELSE 0)
             = BagOf(b)[<<j, w>>] + (IF <<k, v>> = <<j, w>> THEN 1 ELSE 0)
  <2>1. CountIn(a, {Rec(j, w)}) + One(Rec(k, u), {Rec(j, w)})
        = CountIn(b, {Rec(j, w)}) + One(Rec(k, v), {Rec(j, w)})
    BY DEF Swaps
  <2> QED
    BY <2>1, BagAt, OneIs
<1>3. PICK A : A = BagOf(a)
  OBVIOUS
<1>4. PICK B : B = BagOf(b)
  OBVIOUS
<1>5. <<k, u>> \in Pairs /\ <<k, v>> \in Pairs
  BY DEF Pairs
<1>6. PICK C : C = [B EXCEPT ![<<k, u>>] = @ - 1]
  OBVIOUS
<1>7. PICK D : D = [C EXCEPT ![<<k, v>>] = @ + 1]
  OBVIOUS
<1>8. B = [p \in Pairs |-> B[p]] /\ A = [p \in Pairs |-> A[p]]
  BY <1>1, <1>3, <1>4
<1>9. C = [p \in Pairs |-> IF p = <<k, u>> THEN B[p] - 1 ELSE B[p]]
  BY <1>5, <1>6, <1>8
<1>10. D = [p \in Pairs |-> IF p = <<k, v>> THEN C[p] + 1 ELSE C[p]]
  BY <1>5, <1>7, <1>9
<1>11. ASSUME NEW p \in Pairs PROVE A[p] = D[p]
  <2>1. PICK j \in Keys, w \in Values : p = <<j, w>>
    BY DEF Pairs
  <2>2. A[p] \in Nat /\ B[p] \in Nat
    BY <1>3, <1>4, <2>1, BagAt
  <2>3. A[p] + (IF <<k, u>> = p THEN 1 ELSE 0) = B[p] + (IF <<k, v>> = p THEN 1 ELSE 0)
    BY <1>2, <1>3, <1>4, <2>1
  <2>4. D[p] = IF p = <<k, v>> THEN C[p] + 1 ELSE C[p]
    BY <1>10
  <2>5. C[p] = IF p = <<k, u>> THEN B[p] - 1 ELSE B[p]
    BY <1>9
  <2> QED
    BY <2>2, <2>3, <2>4, <2>5
<1>12. A = D
  BY <1>8, <1>10, <1>11
<1>13. Len(a) = Len(b)
  <2>1. CountIn(a, Recs) + One(Rec(k, u), Recs) = CountIn(b, Recs) + One(Rec(k, v), Recs)
    BY DEF Swaps
  <2>2. One(Rec(k, u), Recs) = 1 /\ One(Rec(k, v), Recs) = 1
    BY DEF One, Rec, Recs
  <2>3. Len(a) + 1 = Len(b) + 1
    BY <2>1, <2>2, CountAll
  <2> QED
    BY <2>3
<1> QED
  BY <1>3, <1>4, <1>6, <1>7, <1>12, <1>13 DEF With, Without

-----------------------------------------------------------------------------
(* What a leaf holds *)

LEMMA LeastOf ==
  ASSUME NEW B \in SUBSET Nat, B # {}
  PROVE  Min(B) \in B /\ \A i \in B : Min(B) <= i
<1>1. \E m \in B : \A n \in B : m <= n
  BY LeastNat
<1> QED
  BY <1>1 DEF Min

LEMMA OneValued ==
  ASSUME NEW k, NEW v \in Values, NEW T
  PROVE  One(v, Valued(k, T)) = One(Rec(k, v), T)
BY DEF One, Valued

LEMMA HeldIs ==
  ASSUME NEW pairs \in Seq(Recs), NEW over \in Seq(OverBlocks),
         over # <<>> => pairs # <<>>,
         NEW leaf, leaf = LeafNode(pairs, over), NEW items, items = LeafPairs(leaf)
  PROVE  /\ items \in Seq(Recs) /\ Len(items) = LeafItems(leaf)
         /\ \A T : CountIn(items, T) = CountIn(pairs, T)
                     + CountIn(OverflowValues(over), Valued(OverflowKey(leaf), T))
         /\ over = <<>> => items = pairs /\ OverflowValues(over) = <<>>
         /\ over # <<>> => OverflowKey(leaf) = pairs[Len(pairs)].key
                           /\ Len(pairs) \in 1..Len(pairs)
<1>1. leaf.pairs = pairs /\ leaf.over = over
  BY DEF LeafNode
<1>2. PICK more : more = OverflowValues(over)
  OBVIOUS
<1>3. more \in Seq(Values)
  BY <1>2, ValuesAre
<1>4. PICK k : k = OverflowKey(leaf)
  OBVIOUS
<1>5. PICK rest : rest = KeyedWith(more, k)
  OBVIOUS
<1>6. items = pairs \o rest
  BY <1>1, <1>2, <1>4, <1>5 DEF LeafPairs, KeyedWith, Rec
<1>7. over = <<>> => more = <<>>
  <2>1. FlattenSeq(<<>>) = <<>>
    BY DEF FlattenSeq
  <2>2. ASSUME over = <<>> PROVE [i \in DOMAIN over |-> over[i].vals] = <<>>
    BY <2>2
  <2> QED
    BY <1>2, <2>1, <2>2 DEF OverflowValues
<1>8. over # <<>> => k = pairs[Len(pairs)].key /\ Len(pairs) \in 1..Len(pairs) /\ k \in Keys
  <2> SUFFICES ASSUME over # <<>>
               PROVE  k = pairs[Len(pairs)].key /\ Len(pairs) \in 1..Len(pairs) /\ k \in Keys
    OBVIOUS
  <2>1. pairs # <<>>
    OBVIOUS
  <2>2. Len(pairs) \in 1..Len(pairs) /\ pairs[Len(pairs)] \in Recs
    BY <2>1
  <2> QED
    BY <1>1, <1>4, <2>1, <2>2 DEF OverflowKey, Last, Recs
<1>9. rest \in Seq(Recs) /\ Len(rest) = Len(more)
  <2>1. CASE over = <<>>
    <3>1. more = <<>> /\ rest = <<>>
      BY <1>5, <1>7, <2>1 DEF KeyedWith
    <3> QED
      BY <3>1
  <2>2. CASE over # <<>>
    <3>1. PICK n \in Nat : n = Len(more) /\ DOMAIN more = 1..n
      BY <1>3
    <3>2. \A i \in 1..n : more[i] \in Values
      BY <1>3, <3>1
    <3>3. \A i \in 1..n : Rec(k, more[i]) \in Recs
      BY <1>8, <2>2, <3>2 DEF Recs, Rec
    <3>4. rest \in [1..n -> Recs]
      BY <1>5, <3>1, <3>3 DEF KeyedWith
    <3> QED
      BY <3>1, <3>4
  <2> QED
    BY <2>1, <2>2
<1>10. items \in Seq(Recs) /\ Len(items) = Len(pairs) + Len(more)
  <2>1. /\ pairs \o rest \in Seq(Recs)
        /\ Len(pairs \o rest) = Len(pairs) + Len(rest)
    BY <1>9, JoinIs
  <2> QED
    BY <1>6, <1>9, <2>1
<1>11. LeafItems(leaf) = Len(pairs) + Len(more)
  BY <1>1, <1>2 DEF LeafItems
<1>12. ASSUME NEW T
       PROVE  CountIn(items, T) = CountIn(pairs, T) + CountIn(more, Valued(k, T))
  <2>1. CountIn(items, T) = CountIn(pairs, T) + CountIn(rest, T)
    BY <1>6, <1>9, CountJoin
  <2>2. CountIn(rest, T) = CountIn(more, Valued(k, T))
    BY <1>3, <1>5, CountKeyed
  <2> QED
    BY <2>1, <2>2
<1>13. over = <<>> => items = pairs
  <2> SUFFICES ASSUME over = <<>> PROVE items = pairs
    OBVIOUS
  <2>1. rest = <<>>
    BY <1>5, <1>7 DEF KeyedWith
  <2> QED
    BY <1>6, <2>1
<1> QED
  BY <1>2, <1>4, <1>7, <1>8, <1>10, <1>11, <1>12, <1>13

\* A key is in a leaf if and only if one of its pairs has it.
LEMMA HeldAt ==
  ASSUME NEW pairs \in Seq(Recs), NEW over \in Seq(OverBlocks),
         over # <<>> => pairs # <<>>,
         NEW leaf, leaf = LeafNode(pairs, over), NEW items, items = LeafPairs(leaf),
         NEW k \in Keys, NEW v \in Values
  PROVE  /\ BagOf(items)[<<k, v>>] \in Nat
         /\ BagOf(items)[<<k, v>>] > 0 <=>
              \/ \E i \in DOMAIN pairs : pairs[i] = Rec(k, v)
              \/ over # <<>> /\ k = OverflowKey(leaf) /\ Contains(OverflowValues(over), v)
<1>1. PICK more : more = OverflowValues(over)
  OBVIOUS
<1>2. /\ items \in Seq(Recs)
      /\ \A T : CountIn(items, T) = CountIn(pairs, T)
                  + CountIn(more, Valued(OverflowKey(leaf), T))
      /\ over = <<>> => more = <<>>
  BY <1>1, HeldIs
<1>3. more \in Seq(Values)
  BY <1>1, ValuesAre
<1>4. PICK j : j = OverflowKey(leaf)
  OBVIOUS
<1>5. PICK T : T = {Rec(k, v)}
  OBVIOUS
<1>6. PICK U : U = Valued(j, T)
  OBVIOUS
<1>7. BagOf(items)[<<k, v>>] = CountIn(items, T) /\ BagOf(items)[<<k, v>>] \in Nat
  BY <1>2, <1>5, BagAt
<1>8. CountIn(items, T) = CountIn(pairs, T) + CountIn(more, U)
  BY <1>2, <1>4, <1>6
<1>9. CountIn(pairs, T) \in Nat /\ (CountIn(pairs, T) > 0 <=> \E i \in DOMAIN pairs : pairs[i] = Rec(k, v))
  <2>1. /\ BagOf(pairs)[<<k, v>>] = CountIn(pairs, T)
        /\ BagOf(pairs)[<<k, v>>] \in Nat
        /\ BagOf(pairs)[<<k, v>>] > 0 <=> \E i \in DOMAIN pairs : pairs[i] = Rec(k, v)
    BY <1>5, BagAt
  <2> QED
    BY <2>1
<1>10. CountIn(more, U) \in Nat
  BY <1>3, CountType
<1>11. CountIn(more, U) > 0 <=> over # <<>> /\ k = j /\ Contains(more, v)
  <2>1. PICK B : B = {i \in DOMAIN more : more[i] \in U}
    OBVIOUS
  <2>2. IsFiniteSet(B) /\ CountIn(more, U) = Cardinality(B) /\ Cardinality(B) \in Nat
    BY <1>3, <2>1, CountType DEF CountIn
  <2>3. CountIn(more, U) > 0 <=> B # {}
    <3>1. Cardinality(B) = 0 <=> B = {}
      BY <2>2, FS_EmptySet
    <3> QED
      BY <2>2, <3>1
  <2>4. \A w : w \in U <=> k = j /\ w = v
    <3>1. \A w \in Values : Rec(j, w) = Rec(k, v) <=> k = j /\ w = v
      BY DEF Rec
    <3> QED
      BY <1>5, <1>6, <3>1 DEF Valued
  <2>5. DOMAIN more = 1..Len(more)
    BY <1>3
  <2>6. B # {} <=> k = j /\ Contains(more, v)
    BY <2>1, <2>4, <2>5 DEF Contains
  <2>7. Contains(more, v) => over # <<>>
    <3>1. more = <<>> => ~Contains(more, v)
      BY DEF Contains
    <3> QED
      BY <1>2, <3>1
  <2> QED
    BY <2>3, <2>6, <2>7
<1> QED
  BY <1>1, <1>4, <1>7, <1>8, <1>9, <1>10, <1>11

LEMMA HasKeyIs ==
  ASSUME NEW pairs \in Seq(Recs), NEW over \in Seq(OverBlocks),
         over # <<>> => pairs # <<>>,
         NEW leaf, leaf = LeafNode(pairs, over), NEW items, items = LeafPairs(leaf),
         NEW k \in Keys
  PROVE  HasKey(BagOf(items), k) <=> At(pairs, k) # {}
<1>1. ASSUME NEW i \in At(pairs, k) PROVE HasKey(BagOf(items), k)
  <2>1. i \in DOMAIN pairs /\ pairs[i] \in Recs /\ pairs[i].key = k
    BY DEF At
  <2>2. PICK v \in Values : pairs[i] = Rec(k, v)
    BY <2>1, RecsAre
  <2>3. BagOf(items)[<<k, v>>] > 0
    BY <2>1, <2>2, HeldAt
  <2> QED
    BY <2>3 DEF HasKey
<1>2. ASSUME HasKey(BagOf(items), k) PROVE At(pairs, k) # {}
  <2>1. PICK v \in Values : BagOf(items)[<<k, v>>] > 0
    BY <1>2 DEF HasKey
  <2>2. \/ \E i \in DOMAIN pairs : pairs[i] = Rec(k, v)
        \/ over # <<>> /\ k = OverflowKey(leaf) /\ Contains(OverflowValues(over), v)
    BY <2>1, HeldAt
  <2>3. CASE \E i \in DOMAIN pairs : pairs[i] = Rec(k, v)
    BY <2>3 DEF At, Rec
  <2>4. CASE over # <<>> /\ k = OverflowKey(leaf)
    <3>1. pairs[Len(pairs)].key = k /\ Len(pairs) \in 1..Len(pairs)
      BY <2>4, HeldIs
    <3> QED
      BY <3>1 DEF At
  <2> QED
    BY <2>2, <2>3, <2>4
<1> QED
  BY <1>1, <1>2

-----------------------------------------------------------------------------
(* What an edit may make of a leaf *)

AsAllowed(leaf, edit, after) ==
  /\ GoodLeaf(after)
  /\ BagOf(LeafPairs(after)) \in Results(BagOf(LeafPairs(leaf)), edit)
  /\ edit.op = "insert" \/ Targets(BagOf(LeafPairs(leaf)), edit) # {}
       => LeafItems(after) = LeafItems(leaf) + Delta(edit)

LEMMA GoodHolds ==
  ASSUME NEW leaf, GoodLeaf(leaf)
  PROVE  /\ LeafPairs(leaf) \in Seq(Recs)
         /\ LeafItems(leaf) = Len(LeafPairs(leaf)) /\ LeafItems(leaf) \in Nat
<1>1. PICK pairs, over : leaf = LeafNode(pairs, over) /\ GoodParts(pairs, over)
  BY DEF GoodLeaf
<1>2. pairs \in Seq(Recs) /\ over \in Seq(OverBlocks) /\ (over # <<>> => pairs # <<>>)
  BY <1>1 DEF GoodParts
<1>3. LeafPairs(leaf) \in Seq(Recs) /\ Len(LeafPairs(leaf)) = LeafItems(leaf)
  BY <1>1, <1>2, HeldIs
<1> QED
  BY <1>3

LEMMA AddsAllowed ==
  ASSUME NEW leaf, GoodLeaf(leaf), NEW after, GoodLeaf(after), NEW edit \in KeyEdits,
         edit.key \in Keys, edit.val \in Values,
         edit.op = "insert" \/ (edit.op = "upsert" /\ ~HasKey(BagOf(LeafPairs(leaf)), edit.key)),
         Adds(LeafPairs(leaf), LeafPairs(after), Rec(edit.key, edit.val))
  PROVE  AsAllowed(leaf, edit, after)
<1>1. PICK b \in Seq(Recs) : b = LeafPairs(leaf) /\ LeafItems(leaf) = Len(b)
  BY GoodHolds
<1>2. PICK a \in Seq(Recs) : a = LeafPairs(after) /\ LeafItems(after) = Len(a)
  BY GoodHolds
<1>3. Adds(b, a, Rec(edit.key, edit.val))
  BY <1>1, <1>2
<1>4. BagOf(a) = With(BagOf(b), edit.key, edit.val) /\ Len(a) = Len(b) + 1
  BY <1>3, BagAdds
<1>5. BagOf(a) \in Results(BagOf(b), edit)
  <2>1. CASE edit.op = "insert"
    BY <1>4, <2>1 DEF Results
  <2>2. CASE edit.op = "upsert" /\ ~HasKey(BagOf(b), edit.key)
    BY <1>4, <2>2 DEF Results
  <2> QED
    BY <1>1, <2>1, <2>2
<1>6. edit.op = "insert" \/ Targets(BagOf(b), edit) # {} => Len(a) = Len(b) + Delta(edit)
  <2>1. CASE edit.op = "insert"
    BY <1>4, <2>1 DEF Delta
  <2>2. CASE ~HasKey(BagOf(b), edit.key) /\ edit.op = "upsert"
    <3>1. Targets(BagOf(b), edit) = {}
      BY <2>2 DEF HasKey, Targets
    <3> QED
      BY <2>2, <3>1
  <2> QED
    BY <1>1, <2>1, <2>2
<1> QED
  BY <1>1, <1>2, <1>5, <1>6 DEF AsAllowed

LEMMA SwapsAllowed ==
  ASSUME NEW leaf, GoodLeaf(leaf), NEW after, GoodLeaf(after), NEW edit \in KeyEdits,
         edit.key \in Keys, edit.val \in Values, edit.op = "upsert",
         NEW u \in Values, BagOf(LeafPairs(leaf))[<<edit.key, u>>] > 0,
         Swaps(LeafPairs(leaf), LeafPairs(after), Rec(edit.key, u), Rec(edit.key, edit.val))
  PROVE  AsAllowed(leaf, edit, after)
<1>1. PICK b \in Seq(Recs) : b = LeafPairs(leaf) /\ LeafItems(leaf) = Len(b)
  BY GoodHolds
<1>2. PICK a \in Seq(Recs) : a = LeafPairs(after) /\ LeafItems(after) = Len(a)
  BY GoodHolds
<1>3. Swaps(b, a, Rec(edit.key, u), Rec(edit.key, edit.val)) /\ BagOf(b)[<<edit.key, u>>] > 0
  BY <1>1, <1>2
<1>4. /\ BagOf(a) = With(Without(BagOf(b), edit.key, u), edit.key, edit.val)
      /\ Len(a) = Len(b)
  BY <1>3, BagSwaps
<1>5. HasKey(BagOf(b), edit.key) /\ u \in Targets(BagOf(b), edit)
  BY <1>3 DEF HasKey, Targets
<1>6. BagOf(a) \in Results(BagOf(b), edit)
  BY <1>4, <1>5 DEF Results
<1>7. Len(a) = Len(b) + Delta(edit)
  BY <1>4 DEF Delta
<1> QED
  BY <1>1, <1>2, <1>6, <1>7 DEF AsAllowed

LEMMA DropsAllowed ==
  ASSUME NEW leaf, GoodLeaf(leaf), NEW after, GoodLeaf(after), NEW edit \in KeyEdits,
         edit.key \in Keys, edit.op \in {"removeKey", "removeKV"},
         NEW u \in Values, edit.op = "removeKV" => u = edit.val,
         Drops(LeafPairs(leaf), LeafPairs(after), Rec(edit.key, u))
  PROVE  AsAllowed(leaf, edit, after)
<1>1. PICK b \in Seq(Recs) : b = LeafPairs(leaf) /\ LeafItems(leaf) = Len(b)
  BY GoodHolds
<1>2. PICK a \in Seq(Recs) : a = LeafPairs(after) /\ LeafItems(after) = Len(a)
  BY GoodHolds
<1>3. Drops(b, a, Rec(edit.key, u))
  BY <1>1, <1>2
<1>4. /\ BagOf(a) = Without(BagOf(b), edit.key, u)
      /\ Len(a) = Len(b) - 1 /\ BagOf(b)[<<edit.key, u>>] > 0
  BY <1>3, BagDrops
<1>5. u \in Targets(BagOf(b), edit)
  BY <1>4 DEF Targets
<1>6. BagOf(a) \in Results(BagOf(b), edit)
  BY <1>4, <1>5 DEF Results
<1>7. Len(a) = Len(b) + Delta(edit)
  BY <1>4 DEF Delta
<1> QED
  BY <1>1, <1>2, <1>6, <1>7 DEF AsAllowed

LEMMA NothingAllowed ==
  ASSUME NEW leaf, NEW after, GoodLeaf(after), NEW edit \in KeyEdits,
         edit.op \in {"removeKey", "removeKV"},
         Targets(BagOf(LeafPairs(leaf)), edit) = {},
         LeafPairs(after) = LeafPairs(leaf)
  PROVE  AsAllowed(leaf, edit, after)
<1>1. BagOf(LeafPairs(after)) \in Results(BagOf(LeafPairs(leaf)), edit)
  BY DEF Results
<1> QED
  BY <1>1 DEF AsAllowed

-----------------------------------------------------------------------------
(* The ways in which a leaf is changed *)

LEMMA KeysAreNumbers ==
  ASSUME Numbered
  PROVE  /\ Keyed(Recs)
         /\ \A k \in Keys : k \in Nat /\ k # Empty
         /\ \A v \in Values : v # NoValue
<1>1. \A x \in Recs : x.key \in Keys
  BY DEF Recs
<1> QED
  BY <1>1 DEF Numbered, Keyed

\* How the count of a leaf follows from those of its pairs and its chain.
LEMMA PartsCount ==
  ASSUME NEW pairs, NEW over, GoodParts(pairs, over), NEW T
  PROVE  /\ CountIn(LeafPairs(LeafNode(pairs, over)), T) = CountIn(pairs, T)
              + CountIn(OverflowValues(over),
                        Valued(OverflowKey(LeafNode(pairs, over)), T))
         /\ CountIn(pairs, T) \in Nat
         /\ CountIn(OverflowValues(over),
                    Valued(OverflowKey(LeafNode(pairs, over)), T)) \in Nat
         /\ over = <<>> =>
              CountIn(LeafPairs(LeafNode(pairs, over)), T) = CountIn(pairs, T)
         /\ over # <<>> => OverflowKey(LeafNode(pairs, over)) = pairs[Len(pairs)].key
<1>1. /\ pairs \in Seq(Recs) /\ over \in Seq(OverBlocks)
      /\ over # <<>> => pairs # <<>>
  BY DEF GoodParts
<1>2. PICK leaf : leaf = LeafNode(pairs, over)
  OBVIOUS
<1>3. PICK items : items = LeafPairs(leaf)
  OBVIOUS
<1>4. /\ \A U : CountIn(items, U) = CountIn(pairs, U)
                  + CountIn(OverflowValues(over), Valued(OverflowKey(leaf), U))
      /\ over = <<>> => items = pairs
      /\ over # <<>> => OverflowKey(leaf) = pairs[Len(pairs)].key
  BY <1>1, <1>2, <1>3, HeldIs
<1>5. CountIn(pairs, T) \in Nat
  BY <1>1, CountType
<1>6. CountIn(OverflowValues(over), Valued(OverflowKey(leaf), T)) \in Nat
  BY <1>1, ValuesAre, CountType
<1> QED
  BY <1>2, <1>3, <1>4, <1>5, <1>6

\* A pair comes in between others.
LEMMA PairPlaced ==
  ASSUME NEW pairs, NEW over, GoodParts(pairs, over), NEW k \in Keys, NEW v \in Values,
         NEW front \in Seq(Recs), NEW back \in Seq(Recs), pairs = front \o back,
         NEW new, new = (front \o <<Rec(k, v)>>) \o back, InOrder(new),
         over # <<>> => back # <<>> \/ k = pairs[Len(pairs)].key
  PROVE  /\ GoodParts(new, over)
         /\ Adds(LeafPairs(LeafNode(pairs, over)), LeafPairs(LeafNode(new, over)), Rec(k, v))
<1>1. /\ pairs \in Seq(Recs) /\ over \in Seq(OverBlocks)
      /\ over # <<>> => pairs # <<>> /\ Last(over).vals # <<>>
  BY DEF GoodParts
<1>2. PICK x \in Recs : x = Rec(k, v) /\ x.key = k
  <2>1. [key |-> k, val |-> v] \in Recs
    BY DEF Recs
  <2> QED
    BY <2>1 DEF Rec
<1>3. PICK n \in Nat : n = Len(front)
  OBVIOUS
<1>4. PICK m \in Nat : m = Len(back)
  OBVIOUS
<1>5. /\ Len(pairs) = n + m
      /\ \A i \in 1..m : pairs[n + i] = back[i]
  BY <1>3, <1>4, JoinIs
<1>6. PICK head : head = front \o <<x>>
  OBVIOUS
<1>7. head \in Seq(Recs) /\ Len(head) = n + 1 /\ head[n + 1] = x
  BY <1>3, <1>6
<1>8. new = head \o back
  BY <1>2, <1>6
<1>9. /\ new \in Seq(Recs) /\ Len(new) = (n + 1) + m
      /\ \A i \in 1..(n + 1) : new[i] = head[i]
      /\ \A i \in 1..m : new[(n + 1) + i] = back[i]
  <2>1. /\ head \o back \in Seq(Recs) /\ Len(head \o back) = Len(head) + Len(back)
        /\ \A i \in 1..Len(head) : (head \o back)[i] = head[i]
        /\ \A i \in 1..Len(back) : (head \o back)[Len(head) + i] = back[i]
    <3>1. head \in Seq(Recs) /\ back \in Seq(Recs)
      BY <1>7
    <3> QED
      BY ONLY <3>1, JoinIs
  <2> QED
    BY <1>4, <1>7, <1>8, <2>1
<1>10. new # <<>>
  BY <1>9
<1>11. over # <<>> => new[Len(new)].key = pairs[Len(pairs)].key
  <2>1. CASE back = <<>>
    <3>1. new[Len(new)] = x
      <4>1. n + 1 \in 1..(n + 1) /\ Len(new) = n + 1
        <5>1. m = 0
          BY <1>4, <2>1
        <5> QED
          BY <1>9, <5>1
      <4> QED
        BY <1>7, <1>9, <4>1
    <3> QED
      BY <1>2, <2>1, <3>1
  <2>2. CASE back # <<>>
    <3>1. m \in 1..m /\ (n + 1) + m = Len(new) /\ n + m = Len(pairs)
      <4>1. m # 0
        BY <1>4, <2>2
      <4> QED
        BY <1>5, <1>9, <4>1
    <3> QED
      BY <1>5, <1>9, <3>1
  <2> QED
    BY <2>1, <2>2
<1>12. GoodParts(new, over)
  BY <1>1, <1>9, <1>10 DEF GoodParts
<1>13. ASSUME NEW T
       PROVE  CountIn(LeafPairs(LeafNode(new, over)), T)
              = CountIn(LeafPairs(LeafNode(pairs, over)), T) + One(Rec(k, v), T)
  <2>1. CountIn(new, T) = CountIn(pairs, T) + One(x, T)
    <3>1. /\ CountIn((front \o <<x>>) \o back, T)
             = CountIn(front, T) + One(x, T) + CountIn(back, T)
          /\ CountIn(front \o back, T) = CountIn(front, T) + CountIn(back, T)
          /\ CountIn(front, T) \in Nat /\ CountIn(back, T) \in Nat /\ One(x, T) \in Nat
      BY CountThree
    <3> QED
      BY <1>6, <1>8, <3>1
  <2>2. One(x, T) \in Nat
    BY DEF One
  <2>3. CASE over = <<>>
    <3>1. CountIn(LeafPairs(LeafNode(new, over)), T) = CountIn(new, T)
      BY <1>12, <2>3, PartsCount
    <3>2. CountIn(LeafPairs(LeafNode(pairs, over)), T) = CountIn(pairs, T)
      BY <2>3, PartsCount
    <3> QED
      BY <1>2, <2>1, <3>1, <3>2
  <2>4. CASE over # <<>>
    <3>1. PICK j : j = OverflowKey(LeafNode(pairs, over))
      OBVIOUS
    <3>2. j = OverflowKey(LeafNode(new, over))
      BY <1>11, <1>12, <2>4, <3>1, PartsCount
    <3>3. /\ CountIn(LeafPairs(LeafNode(pairs, over)), T)
             = CountIn(pairs, T) + CountIn(OverflowValues(over), Valued(j, T))
          /\ CountIn(pairs, T) \in Nat
          /\ CountIn(OverflowValues(over), Valued(j, T)) \in Nat
      BY <3>1, PartsCount
    <3>4. CountIn(LeafPairs(LeafNode(new, over)), T)
          = CountIn(new, T) + CountIn(OverflowValues(over), Valued(j, T))
      BY <1>12, <3>2, PartsCount
    <3> QED
      BY <1>2, <2>1, <2>2, <3>3, <3>4
  <2> QED
    BY <2>3, <2>4
<1> QED
  BY <1>12, <1>13 DEF Adds

\* LeafNode::insert.
LEMMA PairInserted ==
  ASSUME Numbered, NEW pairs, NEW over, GoodParts(pairs, over),
         NEW k \in Keys, NEW v \in Values,
         over # <<>> => k <= pairs[Len(pairs)].key,
         NEW new, new = InsertPair(pairs, k, v)
  PROVE  /\ GoodParts(new, over)
         /\ Adds(LeafPairs(LeafNode(pairs, over)), LeafPairs(LeafNode(new, over)), Rec(k, v))
<1>1. pairs \in Seq(Recs) /\ InOrder(pairs) /\ (over # <<>> => pairs # <<>>)
  BY DEF GoodParts
<1>2. PICK x \in Recs : x = Rec(k, v) /\ x = [key |-> k, val |-> v]
  <2>1. [key |-> k, val |-> v] \in Recs
    BY DEF Recs
  <2> QED
    BY <2>1 DEF Rec
<1>3. PICK n \in 0..Len(pairs) :
        /\ new = InsertAt(pairs, n + 1, x) /\ new \in Seq(Recs) /\ InOrder(new)
        /\ \A i \in 1..Len(pairs) : pairs[i].key <= k <=> i <= n
  <2>1. Keyed(Recs) /\ pairs \in Seq(Recs) /\ InOrder(pairs)
    BY <1>1, KeysAreNumbers
  <2>2. x \in Recs /\ x = [key |-> k, val |-> v]
    BY <1>2
  <2> QED
    BY <2>1, <2>2, InsertedIs
<1>4. n \in Nat /\ n <= Len(pairs) /\ Len(pairs) \in Nat
  BY <1>1
<1>5. PICK front : front = SubSeq(pairs, 1, n)
  OBVIOUS
<1>6. PICK back : back = SubSeq(pairs, n + 1, Len(pairs))
  OBVIOUS
<1>7. front \in Seq(Recs)
  BY <1>1, <1>4, <1>5
<1>8. back \in Seq(Recs) /\ Len(back) = Len(pairs) - n
  BY <1>1, <1>4, <1>6
<1>9. pairs = front \o back
  BY <1>1, <1>5, <1>6, SeqSplit
<1>10. new = (front \o <<Rec(k, v)>>) \o back
  <2>1. (n + 1) - 1 = n
    BY <1>4
  <2> QED
    BY <1>2, <1>3, <1>5, <1>6, <2>1 DEF InsertAt
<1>11. over # <<>> => back # <<>> \/ k = pairs[Len(pairs)].key
  <2> SUFFICES ASSUME over # <<>>, back = <<>> PROVE k = pairs[Len(pairs)].key
    OBVIOUS
  <2>1. Len(pairs) \in 1..Len(pairs) /\ n = Len(pairs)
    BY <1>1, <1>4, <1>8
  <2>2. pairs[Len(pairs)] \in Recs
    BY <1>1, <2>1
  <2>3. pairs[Len(pairs)].key \in Nat /\ k \in Nat
    BY <2>2, KeysAreNumbers DEF Keyed
  <2>4. pairs[Len(pairs)].key <= k
    BY <1>3, <2>1
  <2> QED
    BY <2>3, <2>4
<1>12. front \in Seq(Recs) /\ back \in Seq(Recs) /\ InOrder(new)
  BY <1>3, <1>7, <1>8
<1> QED
  BY ONLY GoodParts(pairs, over), k \in Keys, v \in Values, <1>9, <1>10, <1>11, <1>12,
          PairPlaced

\* The chain goes to the pairs of the leaf, from its end, and a pair with a new
\* key comes in.
LEMMA ChainEmptied ==
  ASSUME Numbered, NEW pairs, NEW over, GoodParts(pairs, over), over # <<>>,
         NEW k \in Keys, NEW v \in Values,
         NEW all,
         all = pairs \o KeyedWith(Reverse(OverflowValues(over)), pairs[Len(pairs)].key),
         NEW new, new = InsertPair(all, k, v), NEW none, none = <<>>
  PROVE  /\ GoodParts(new, none)
         /\ Adds(LeafPairs(LeafNode(pairs, over)), LeafPairs(LeafNode(new, none)), Rec(k, v))
<1>1. /\ pairs \in Seq(Recs) /\ InOrder(pairs) /\ over \in Seq(OverBlocks)
      /\ pairs # <<>> /\ Last(over).vals # <<>>
  BY DEF GoodParts
<1>2. PICK N \in Nat : N = Len(pairs)
  BY <1>1
<1>3. PICK j : j = pairs[N].key
  OBVIOUS
<1>4. j \in Keys /\ N \in 1..N
  <2>1. N \in 1..N /\ pairs[N] \in Recs
    BY <1>1, <1>2
  <2> QED
    BY <1>3, <2>1, RecsAre
<1>5. PICK vals : vals = OverflowValues(over)
  OBVIOUS
<1>6. PICK back : back = Reverse(vals)
  OBVIOUS
<1>7. vals \in Seq(Values) /\ back \in Seq(Values)
  <2>1. vals \in Seq(Values)
    BY <1>1, <1>5, ValuesAre
  <2> QED
    BY <1>6, <2>1, CountReverse
<1>8. PICK rest : rest = KeyedWith(back, j)
  OBVIOUS
<1>9. all = pairs \o rest
  BY <1>2, <1>3, <1>5, <1>6, <1>8
<1>10. rest \in Seq(Recs) /\ \A i \in 1..Len(rest) : rest[i].key = j
  <2>1. PICK n \in Nat : n = Len(back) /\ DOMAIN back = 1..n
    BY <1>7
  <2>2. \A i \in 1..n : back[i] \in Values
    BY <1>7, <2>1
  <2>3. \A i \in 1..n : Rec(j, back[i]) \in Recs
    BY <1>4, <2>2 DEF Recs, Rec
  <2>4. rest = [i \in 1..n |-> Rec(j, back[i])]
    BY <1>8, <2>1 DEF KeyedWith
  <2>5. rest \in [1..n -> Recs]
    BY <2>3, <2>4
  <2>6. rest \in Seq(Recs) /\ Len(rest) = n
    BY <2>5
  <2>7. \A i \in 1..n : rest[i].key = j
    BY <2>4 DEF Rec
  <2> QED
    BY <2>6, <2>7
<1>11. InOrder(rest)
  <2>1. j <= j
    BY <1>4, KeysAreNumbers
  <2> QED
    BY <1>10, <2>1 DEF InOrder
<1>12. Below(pairs, rest)
  <2>1. \A i \in 1..N : pairs[i].key <= j
    <3>1. \A i \in 1..N : i <= N
      OBVIOUS
    <3> QED
      BY <1>1, <1>2, <1>3, <1>4, <3>1 DEF InOrder
  <2> QED
    BY <1>2, <1>10, <2>1 DEF Below
<1>13. all \in Seq(Recs) /\ InOrder(all)
  BY <1>1, <1>9, <1>10, <1>11, <1>12, KeysAreNumbers, OrderJoin, JoinIs
<1>14. GoodParts(all, none)
  <2>1. none \in Seq(OverBlocks)
    OBVIOUS
  <2> QED
    BY <1>13, <2>1 DEF GoodParts
<1>15. /\ GoodParts(new, none)
       /\ Adds(LeafPairs(LeafNode(all, none)), LeafPairs(LeafNode(new, none)), Rec(k, v))
  BY <1>14, PairInserted
<1>16. ASSUME NEW T
       PROVE  CountIn(LeafPairs(LeafNode(all, none)), T)
              = CountIn(LeafPairs(LeafNode(pairs, over)), T)
  <2>1. CountIn(LeafPairs(LeafNode(all, none)), T) = CountIn(all, T)
    BY <1>14, PartsCount
  <2>2. CountIn(all, T) = CountIn(pairs, T) + CountIn(rest, T)
    BY <1>1, <1>9, <1>10, CountJoin
  <2>3. CountIn(rest, T) = CountIn(back, Valued(j, T))
    BY <1>7, <1>8, CountKeyed
  <2>4. CountIn(back, Valued(j, T)) = CountIn(vals, Valued(j, T))
    BY <1>6, <1>7, CountReverse
  <2>5. OverflowKey(LeafNode(pairs, over)) = j
    BY <1>2, <1>3, PartsCount
  <2>6. CountIn(LeafPairs(LeafNode(pairs, over)), T)
        = CountIn(pairs, T) + CountIn(vals, Valued(j, T))
    BY <1>5, <2>5, PartsCount
  <2> QED
    BY <2>1, <2>2, <2>3, <2>4, <2>6
<1> QED
  BY <1>15, <1>16 DEF Adds

\* A value more in the first block of the chain.
LEMMA ValueInserted ==
  ASSUME NEW pairs, NEW over, GoodParts(pairs, over), over # <<>>,
         NEW k, k = pairs[Len(pairs)].key, NEW v \in Values,
         NEW more, more = OverflowInsert(over, v)
  PROVE  /\ GoodParts(pairs, more)
         /\ Adds(LeafPairs(LeafNode(pairs, over)), LeafPairs(LeafNode(pairs, more)), Rec(k, v))
<1>1. /\ pairs \in Seq(Recs) /\ InOrder(pairs) /\ over \in Seq(OverBlocks)
      /\ pairs # <<>> /\ Last(over).vals # <<>>
  BY DEF GoodParts
<1>2. more \in Seq(OverBlocks) /\ more # <<>> /\ Last(more).vals # <<>>
  BY <1>1, OverflowInserted
<1>3. GoodParts(pairs, more)
  BY <1>1, <1>2 DEF GoodParts
<1>4. ASSUME NEW T
      PROVE  CountIn(LeafPairs(LeafNode(pairs, more)), T)
             = CountIn(LeafPairs(LeafNode(pairs, over)), T) + One(Rec(k, v), T)
  <2>1. OverflowKey(LeafNode(pairs, over)) = k
    BY PartsCount
  <2>2. OverflowKey(LeafNode(pairs, more)) = k
    BY <1>2, <1>3, PartsCount
  <2>3. PICK U : U = Valued(k, T)
    OBVIOUS
  <2>4. /\ CountIn(LeafPairs(LeafNode(pairs, over)), T)
           = CountIn(pairs, T) + CountIn(OverflowValues(over), U)
        /\ CountIn(pairs, T) \in Nat /\ CountIn(OverflowValues(over), U) \in Nat
    BY <2>1, <2>3, PartsCount
  <2>5. CountIn(LeafPairs(LeafNode(pairs, more)), T)
        = CountIn(pairs, T) + CountIn(OverflowValues(more), U)
    BY <1>3, <2>2, <2>3, PartsCount
  <2>6. CountIn(OverflowValues(more), U) = CountIn(OverflowValues(over), U) + One(v, U)
    BY <1>1, OverflowInserted
  <2>7. One(v, U) = One(Rec(k, v), T) /\ One(v, U) \in Nat
    BY <2>3, OneValued DEF One
  <2> QED
    BY <2>4, <2>5, <2>6, <2>7
<1> QED
  BY <1>3, <1>4 DEF Adds

\* A list in order with another pair of the same key in the place of one.
LEMMA SameKeys ==
  ASSUME NEW P, NEW s \in Seq(P), InOrder(s), NEW t \in Seq(P), Len(t) = Len(s),
         \A i \in 1..Len(s) : t[i].key = s[i].key
  PROVE  InOrder(t)
BY DEF InOrder

\* Another value in one of the pairs.
WithValue(pairs, n, v) == [pairs EXCEPT ![n].val = v]

LEMMA ValueReplaced ==
  ASSUME NEW pairs, NEW over, GoodParts(pairs, over), NEW n \in 1..Len(pairs),
         NEW v \in Values, NEW new, new = WithValue(pairs, n, v)
  PROVE  /\ GoodParts(new, over)
         /\ \A T : CountIn(new, T) + One(pairs[n], T) = CountIn(pairs, T)
                     + One(Rec(pairs[n].key, v), T)
         /\ Swaps(LeafPairs(LeafNode(pairs, over)), LeafPairs(LeafNode(new, over)),
                  pairs[n], Rec(pairs[n].key, v))
         /\ pairs[n] \in Recs
<1>1. /\ pairs \in Seq(Recs) /\ InOrder(pairs) /\ over \in Seq(OverBlocks)
      /\ over # <<>> => pairs # <<>> /\ Last(over).vals # <<>>
  BY DEF GoodParts
<1>2. PICK x \in Recs : x = pairs[n]
  BY <1>1
<1>3. PICK y \in Recs : y = Rec(x.key, v) /\ y = [x EXCEPT !.val = v] /\ y.key = x.key
  <2>1. Rec(x.key, v) \in Recs /\ Rec(x.key, v) = [x EXCEPT !.val = v]
    BY DEF Recs, Rec
  <2> QED
    BY <2>1 DEF Rec
<1>4. new = Replaced(pairs, n, y)
  BY <1>1, <1>2, <1>3 DEF WithValue, Replaced
<1>5. /\ new \in Seq(Recs) /\ Len(new) = Len(pairs) /\ new[n] = y
      /\ \A i \in 1..Len(pairs) : i # n => new[i] = pairs[i]
  BY <1>1, <1>4 DEF Replaced
<1>6. \A i \in 1..Len(pairs) : new[i].key = pairs[i].key
  <2>1. ASSUME NEW i \in 1..Len(pairs) PROVE new[i].key = pairs[i].key
    <3>1. CASE i = n
      BY <1>2, <1>3, <1>5, <3>1
    <3>2. CASE i # n
      BY <1>5, <3>2
    <3> QED
      BY <3>1, <3>2
  <2> QED
    BY <2>1
<1>7. InOrder(new)
  BY <1>1, <1>5, <1>6, SameKeys
<1>8. pairs # <<>> /\ new # <<>> /\ Len(pairs) \in 1..Len(pairs)
  BY <1>1, <1>5
<1>9. GoodParts(new, over)
  BY <1>1, <1>5, <1>7, <1>8 DEF GoodParts
<1>10. ASSUME NEW T
       PROVE  CountIn(new, T) + One(x, T) = CountIn(pairs, T) + One(y, T)
  <2>1. CountIn(new, T) + One(pairs[n], T) = CountIn(pairs, T) + One(y, T)
    <3>1. pairs \in Seq(Recs) /\ n \in 1..Len(pairs) /\ y \in Recs
      BY <1>1
    <3> QED
      BY ONLY <1>4, <3>1, CountReplace
  <2> QED
    BY <1>2, <2>1
<1>11. ASSUME NEW T
       PROVE  CountIn(LeafPairs(LeafNode(new, over)), T) + One(x, T)
              = CountIn(LeafPairs(LeafNode(pairs, over)), T) + One(y, T)
  <2>1. One(x, T) \in Nat /\ One(y, T) \in Nat
    BY DEF One
  <2>2. CASE over = <<>>
    <3>1. CountIn(LeafPairs(LeafNode(new, over)), T) = CountIn(new, T)
      BY <1>9, <2>2, PartsCount
    <3>2. CountIn(LeafPairs(LeafNode(pairs, over)), T) = CountIn(pairs, T)
      BY <2>2, PartsCount
    <3> QED
      BY <1>10, <3>1, <3>2
  <2>3. CASE over # <<>>
    <3>1. PICK j : j = OverflowKey(LeafNode(pairs, over))
      OBVIOUS
    <3>2. j = OverflowKey(LeafNode(new, over))
      <4>1. OverflowKey(LeafNode(new, over)) = new[Len(new)].key
        BY <1>9, <2>3, PartsCount
      <4>2. OverflowKey(LeafNode(pairs, over)) = pairs[Len(pairs)].key
        BY <2>3, PartsCount
      <4> QED
        BY <1>5, <1>6, <1>8, <3>1, <4>1, <4>2
    <3>3. /\ CountIn(LeafPairs(LeafNode(pairs, over)), T)
             = CountIn(pairs, T) + CountIn(OverflowValues(over), Valued(j, T))
          /\ CountIn(pairs, T) \in Nat
          /\ CountIn(OverflowValues(over), Valued(j, T)) \in Nat
      BY <3>1, PartsCount
    <3>4. /\ CountIn(LeafPairs(LeafNode(new, over)), T)
             = CountIn(new, T) + CountIn(OverflowValues(over), Valued(j, T))
          /\ CountIn(new, T) \in Nat
      BY <1>9, <3>2, PartsCount
    <3>5. CountIn(new, T) + One(x, T) = CountIn(pairs, T) + One(y, T)
      BY <1>10
    <3> QED
      BY <2>1, <3>3, <3>4, <3>5
  <2> QED
    BY <2>2, <2>3
<1> QED
  BY <1>2, <1>3, <1>9, <1>10, <1>11 DEF Swaps

\* The last pair of the leaf goes, and the last value of the chain takes its place.
LEMMA LastReplaced ==
  ASSUME NEW pairs, NEW over, GoodParts(pairs, over), over # <<>>,
         NEW new, new = [pairs EXCEPT ![Len(pairs)].val = Last(OverflowValues(over))],
         NEW less, less = Pulled(over)
  PROVE  /\ GoodParts(new, less) /\ pairs[Len(pairs)] \in Recs
         /\ Drops(LeafPairs(LeafNode(pairs, over)), LeafPairs(LeafNode(new, less)),
                  pairs[Len(pairs)])
<1>1. /\ pairs \in Seq(Recs) /\ InOrder(pairs) /\ over \in Seq(OverBlocks)
      /\ pairs # <<>> /\ Last(over).vals # <<>>
  BY DEF GoodParts
<1>2. PICK n \in 1..Len(pairs) : n = Len(pairs)
  BY <1>1
<1>3. PICK v \in Values : v = Last(OverflowValues(over))
  BY <1>1, PulledIs
<1>4. /\ less \in Seq(OverBlocks) /\ (less # <<>> => Last(less).vals # <<>>)
      /\ OverflowValues(over) = Append(OverflowValues(less), v)
  BY <1>1, <1>3, PulledIs
<1>5. new = WithValue(pairs, n, v)
  BY <1>2, <1>3 DEF WithValue
<1>6. PICK x \in Recs : x = pairs[n]
  BY <1>1
<1>7. /\ GoodParts(new, over)
      /\ \A T : CountIn(new, T) + One(pairs[n], T) = CountIn(pairs, T)
                  + One(Rec(pairs[n].key, v), T)
  <2>1. n \in 1..Len(pairs) /\ v \in Values /\ GoodParts(pairs, over)
    OBVIOUS
  <2>2. GoodParts(new, over)
    BY ONLY <1>5, <2>1, ValueReplaced
  <2>3. \A T : CountIn(new, T) + One(pairs[n], T) = CountIn(pairs, T)
                  + One(Rec(pairs[n].key, v), T)
    BY ONLY <1>5, <2>1, ValueReplaced
  <2> QED
    BY <2>2, <2>3
<1>8. /\ new \in Seq(Recs) /\ InOrder(new) /\ new # <<>>
  BY <1>7 DEF GoodParts
<1>9. GoodParts(new, less)
  BY <1>4, <1>8 DEF GoodParts
<1>10. new[Len(new)].key = x.key
  <2>1. new[n].key = x.key /\ Len(new) = Len(pairs)
    BY <1>1, <1>5, <1>6 DEF WithValue
  <2> QED
    BY <1>2, <2>1
<1>11. ASSUME NEW T
       PROVE  CountIn(LeafPairs(LeafNode(pairs, over)), T)
              = CountIn(LeafPairs(LeafNode(new, less)), T) + One(x, T)
  <2>1. PICK U : U = Valued(x.key, T)
    OBVIOUS
  <2>2. OverflowKey(LeafNode(pairs, over)) = x.key
    BY <1>2, <1>6, PartsCount
  <2>3. /\ CountIn(LeafPairs(LeafNode(pairs, over)), T)
           = CountIn(pairs, T) + CountIn(OverflowValues(over), U)
        /\ CountIn(pairs, T) \in Nat /\ CountIn(OverflowValues(over), U) \in Nat
    BY <2>1, <2>2, PartsCount
  <2>4. OverflowValues(less) \in Seq(Values)
    BY <1>4, ValuesAre
  <2>5. CountIn(OverflowValues(over), U) = CountIn(OverflowValues(less), U) + One(v, U)
    BY <1>4, <2>4, CountAppend
  <2>6. CountIn(OverflowValues(less), U) \in Nat /\ One(v, U) \in Nat /\ One(x, T) \in Nat
    BY <2>4, CountType DEF One
  <2>7. CountIn(LeafPairs(LeafNode(new, less)), T)
        = CountIn(new, T) + CountIn(OverflowValues(less), U)
    <3>1. CASE less = <<>>
      <4>1. CountIn(LeafPairs(LeafNode(new, less)), T) = CountIn(new, T)
            /\ CountIn(new, T) \in Nat
        BY <1>9, <3>1, PartsCount
      <4>2. OverflowValues(less) = <<>>
        <5>1. FlattenSeq(<<>>) = <<>> /\ [i \in DOMAIN less |-> less[i].vals] = <<>>
          BY <3>1 DEF FlattenSeq
        <5> QED
          BY <5>1 DEF OverflowValues
      <4>3. CountIn(OverflowValues(less), U) = 0
        BY <4>2, CountEmpty
      <4> QED
        BY <4>1, <4>3
    <3>2. CASE less # <<>>
      <4>1. OverflowKey(LeafNode(new, less)) = x.key
        BY <1>9, <1>10, <3>2, PartsCount
      <4> QED
        BY <1>9, <2>1, <4>1, PartsCount
    <3> QED
      BY <3>1, <3>2
  <2>8. CountIn(new, T) + One(x, T) = CountIn(pairs, T) + One(v, U)
    <3>1. One(v, U) = One(Rec(x.key, v), T)
      BY <2>1, OneValued
    <3> QED
      BY <1>6, <1>7, <3>1
  <2>9. CountIn(new, T) \in Nat
    BY <1>8, CountType
  <2> QED
    BY <2>3, <2>5, <2>6, <2>7, <2>8, <2>9
<1> QED
  BY <1>2, <1>6, <1>9, <1>11 DEF Drops

\* A pair of the leaf goes, and if there is a chain it is not the last one.
LEMMA PairRemoved ==
  ASSUME Numbered, NEW pairs, NEW over, GoodParts(pairs, over), NEW n \in 1..Len(pairs),
         over # <<>> => n # Len(pairs), NEW new, new = RemoveAt(pairs, n)
  PROVE  /\ GoodParts(new, over) /\ pairs[n] \in Recs
         /\ Drops(LeafPairs(LeafNode(pairs, over)), LeafPairs(LeafNode(new, over)), pairs[n])
<1>1. /\ pairs \in Seq(Recs) /\ InOrder(pairs) /\ over \in Seq(OverBlocks)
      /\ over # <<>> => pairs # <<>> /\ Last(over).vals # <<>>
  BY DEF GoodParts
<1>2. PICK N \in Nat : N = Len(pairs)
  BY <1>1
<1>3. n \in Nat /\ n >= 1 /\ n <= N
  BY <1>2
<1>4. PICK x \in Recs : x = pairs[n]
  BY <1>1
<1>5. new \in Seq(Recs) /\ InOrder(new) /\ Len(new) = N - 1
  BY <1>1, <1>2, KeysAreNumbers, OrderRemove
<1>6. over # <<>> => new # <<>> /\ new[Len(new)] = pairs[N]
  <2> SUFFICES ASSUME over # <<>> PROVE new # <<>> /\ new[N - 1] = pairs[N]
    BY <1>5
  <2>1. n # N /\ N - 1 >= 1 /\ N - n \in Nat /\ n - 1 \in Nat
    BY <1>2, <1>3
  <2>2. PICK a : a = SubSeq(pairs, 1, n - 1)
    OBVIOUS
  <2>3. PICK b : b = SubSeq(pairs, n + 1, N)
    OBVIOUS
  <2>4. a \in Seq(Recs) /\ Len(a) = n - 1
    BY <1>1, <1>2, <1>3, <2>2
  <2>5. b \in Seq(Recs) /\ Len(b) = N - n /\ \A i \in 1..(N - n) : b[i] = pairs[n + i]
    BY <1>1, <1>2, <1>3, <2>3
  <2>6. new = a \o b
    BY <1>2, <2>2, <2>3 DEF RemoveAt
  <2>7. \A i \in 1..Len(b) : (a \o b)[Len(a) + i] = b[i]
    BY ONLY <2>4, <2>5, JoinIs
  <2>8. N - n \in 1..(N - n) /\ (n - 1) + (N - n) = N - 1 /\ n + (N - n) = N
    BY <1>2, <1>3, <2>1
  <2>9. new[(n - 1) + (N - n)] = b[N - n]
    BY <2>4, <2>5, <2>6, <2>7, <2>8
  <2> QED
    BY <1>5, <2>1, <2>5, <2>8, <2>9
<1>7. GoodParts(new, over)
  BY <1>1, <1>5, <1>6 DEF GoodParts
<1>8. ASSUME NEW T
      PROVE  CountIn(LeafPairs(LeafNode(pairs, over)), T)
             = CountIn(LeafPairs(LeafNode(new, over)), T) + One(x, T)
  <2>1. CountIn(pairs, T) = CountIn(new, T) + One(x, T)
    BY <1>1, <1>4, CountRemove
  <2>2. One(x, T) \in Nat
    BY DEF One
  <2>3. CASE over = <<>>
    <3>1. CountIn(LeafPairs(LeafNode(new, over)), T) = CountIn(new, T)
      BY <1>7, <2>3, PartsCount
    <3>2. CountIn(LeafPairs(LeafNode(pairs, over)), T) = CountIn(pairs, T)
      BY <2>3, PartsCount
    <3> QED
      BY <2>1, <3>1, <3>2
  <2>4. CASE over # <<>>
    <3>1. PICK j : j = OverflowKey(LeafNode(pairs, over))
      OBVIOUS
    <3>2. j = OverflowKey(LeafNode(new, over))
      BY <1>2, <1>6, <1>7, <2>4, <3>1, PartsCount
    <3>3. CountIn(LeafPairs(LeafNode(pairs, over)), T)
          = CountIn(pairs, T) + CountIn(OverflowValues(over), Valued(j, T))
      BY <3>1, PartsCount
    <3>4. /\ CountIn(LeafPairs(LeafNode(new, over)), T)
             = CountIn(new, T) + CountIn(OverflowValues(over), Valued(j, T))
          /\ CountIn(new, T) \in Nat
          /\ CountIn(OverflowValues(over), Valued(j, T)) \in Nat
      BY <1>7, <3>2, PartsCount
    <3> QED
      BY <2>1, <2>2, <3>3, <3>4
  <2> QED
    BY <2>3, <2>4
<1> QED
  BY <1>4, <1>7, <1>8 DEF Drops

-----------------------------------------------------------------------------
(* The edits *)

LEMMA EditsAre ==
  ASSUME Numbered, NEW edit \in KeyEdits
  PROVE  /\ edit.key \in Keys
         /\ edit.op \in {"insert", "upsert", "removeKey", "removeKV"}
         /\ edit.op # "removeKey" => edit.val \in Values /\ edit.val # NoValue
         /\ edit.op = "removeKey" => edit.val = NoValue
<1>1. \A v \in Values : v # NoValue
  BY KeysAreNumbers
<1>2. CASE edit \in [op : {"insert", "upsert", "removeKV"}, key : Keys, val : Values,
                     sure : BOOLEAN]
  BY <1>1, <1>2
<1>3. CASE edit \in [op : {"removeKey"}, key : Keys, val : {NoValue}, sure : BOOLEAN]
  BY <1>3
<1> QED
  BY <1>2, <1>3 DEF KeyEdits

\* Where a key is among the pairs of a leaf.
LEMMA AtIs ==
  ASSUME NEW pairs \in Seq(Recs), NEW k
  PROVE  /\ At(pairs, k) \in SUBSET (1..Len(pairs))
         /\ \A i \in At(pairs, k) : pairs[i].key = k
         /\ At(pairs, k) # {} => Min(At(pairs, k)) \in At(pairs, k)
<1>1. At(pairs, k) \in SUBSET (1..Len(pairs)) /\ \A i \in At(pairs, k) : pairs[i].key = k
  BY DEF At
<1>2. At(pairs, k) \in SUBSET Nat
  BY <1>1
<1>3. At(pairs, k) # {} => Min(At(pairs, k)) \in At(pairs, k)
  BY <1>2, LeastOf
<1> QED
  BY <1>1, <1>3

\* leafInsert of a key that is not there, or of a further pair of one that is.
LEMMA InsertAllowed ==
  ASSUME Numbered, NEW pairs, NEW over, GoodParts(pairs, over),
         NEW edit \in KeyEdits, edit.op \in {"insert", "upsert"},
         edit.op = "upsert" => At(pairs, edit.key) = {},
         NEW leaf, leaf = LeafNode(pairs, over)
  PROVE  AsAllowed(leaf, edit, ApplyToLeaf(leaf, edit))
<1>1. /\ pairs \in Seq(Recs) /\ InOrder(pairs) /\ over \in Seq(OverBlocks)
      /\ over # <<>> => pairs # <<>> /\ Last(over).vals # <<>>
  BY DEF GoodParts
<1>2. leaf.pairs = pairs /\ leaf.over = over /\ GoodLeaf(leaf)
  BY DEF LeafNode, GoodLeaf
<1>3. PICK k \in Keys, v \in Values : k = edit.key /\ v = edit.val
  BY EditsAre
<1>4. PICK upsert \in BOOLEAN : upsert <=> edit.op = "upsert"
  OBVIOUS
<1>5. PICK after : after = ApplyToLeaf(leaf, edit)
  OBVIOUS
<1>6. after = LeafInsert(leaf, k, v, upsert)
  <2>1. CASE edit.op = "insert"
    <3>1. upsert = FALSE
      BY <1>4, <2>1
    <3> QED
      BY <1>3, <1>5, <2>1, <3>1 DEF ApplyToLeaf
  <2>2. CASE edit.op = "upsert"
    <3>1. upsert = TRUE
      BY <1>4, <2>2
    <3> QED
      BY <1>3, <1>5, <2>2, <3>1 DEF ApplyToLeaf
  <2> QED
    BY <2>1, <2>2
<1>7. PICK at : at = At(pairs, k)
  OBVIOUS
<1>8. upsert => at = {}
  BY <1>3, <1>4, <1>7
<1>9. at \in SUBSET (1..Len(pairs)) /\ \A i \in at : pairs[i].key = k
  BY <1>1, <1>7, AtIs
<1>10. edit.op = "insert" \/ (edit.op = "upsert" /\ ~HasKey(BagOf(LeafPairs(leaf)), edit.key))
  <2>1. ASSUME edit.op = "upsert" PROVE ~HasKey(BagOf(LeafPairs(leaf)), k)
    <3>1. At(pairs, k) = {}
      BY <1>3, <2>1
    <3> QED
      BY <1>1, <3>1, HasKeyIs
  <2> QED
    BY <1>3, <2>1
<1>11. ASSUME GoodLeaf(after), Adds(LeafPairs(leaf), LeafPairs(after), Rec(k, v))
       PROVE  AsAllowed(leaf, edit, after)
  BY <1>2, <1>3, <1>10, <1>11, AddsAllowed
<1>12. CASE at = {} /\ over # <<>>
  <2>1. PICK none : none = <<>>
    OBVIOUS
  <2>2. PICK back : back = Reverse(OverflowValues(over))
    OBVIOUS
  <2>3. PICK j : j = pairs[Len(pairs)].key
    OBVIOUS
  <2>4. OverflowKey(leaf) = j
    BY <1>1, <1>2, <1>12, <2>3 DEF OverflowKey, Last
  <2>5. PICK all : all = pairs \o KeyedWith(back, j)
    OBVIOUS
  <2>6. PICK new : new = InsertPair(all, k, v)
    OBVIOUS
  <2>7. pairs # <<>>
    BY <1>1, <1>12
  <2>8. after = LeafNode(new, none)
    <3>1. after = LeafNode(InsertPair(pairs \o [i \in DOMAIN back |->
                             [key |-> j, val |-> back[i]]], k, v), <<>>)
      BY <1>2, <1>6, <1>7, <1>12, <2>2, <2>4, <2>7, Zenon DEF LeafInsert
    <3>2. KeyedWith(back, j) = [i \in DOMAIN back |-> [key |-> j, val |-> back[i]]]
      BY DEF KeyedWith, Rec
    <3> QED
      BY <2>1, <2>5, <2>6, <3>1, <3>2
  <2>9. /\ GoodParts(new, none)
        /\ Adds(LeafPairs(LeafNode(pairs, over)), LeafPairs(LeafNode(new, none)), Rec(k, v))
    <3>1. all = pairs \o KeyedWith(Reverse(OverflowValues(over)), pairs[Len(pairs)].key)
      BY <2>2, <2>3, <2>5
    <3> QED
      BY <1>12, <2>1, <2>6, <3>1, ChainEmptied
  <2>10. GoodLeaf(after)
    BY <2>8, <2>9 DEF GoodLeaf
  <2> QED
    BY <1>5, <1>11, <2>8, <2>9, <2>10
<1>13. CASE ~upsert /\ at = {Len(pairs)} /\ over # <<>>
  <2>1. PICK more : more = OverflowInsert(over, v)
    OBVIOUS
  <2>2. after = [leaf EXCEPT !.over = more]
    BY <1>2, <1>6, <1>7, <1>13, <2>1 DEF LeafInsert
  <2>3. after = LeafNode(pairs, more)
    BY <2>2 DEF LeafNode
  <2>4. k = pairs[Len(pairs)].key
    BY <1>9, <1>13
  <2>5. /\ GoodParts(pairs, more)
        /\ Adds(LeafPairs(LeafNode(pairs, over)), LeafPairs(LeafNode(pairs, more)), Rec(k, v))
    BY <1>13, <2>1, <2>4, ValueInserted
  <2>6. GoodLeaf(after)
    BY <2>3, <2>5 DEF GoodLeaf
  <2> QED
    BY <1>5, <1>11, <2>3, <2>5, <2>6
<1>14. CASE ~(at = {} /\ over # <<>>) /\ ~(~upsert /\ at = {Len(pairs)} /\ over # <<>>)
  <2>1. PICK new : new = InsertPair(pairs, k, v)
    OBVIOUS
  <2>2. after = [leaf EXCEPT !.pairs = new]
    BY <1>2, <1>6, <1>7, <1>8, <1>14, <2>1 DEF LeafInsert
  <2>3. after = LeafNode(new, over)
    BY <2>2 DEF LeafNode
  <2>4. over # <<>> => k <= pairs[Len(pairs)].key
    <3>1. ASSUME over # <<>> PROVE k <= pairs[Len(pairs)].key
      <4>1. PICK i \in at : TRUE
        BY <1>14, <3>1
      <4>2. i \in 1..Len(pairs) /\ Len(pairs) \in 1..Len(pairs) /\ i <= Len(pairs)
        BY <1>1, <1>9
      <4>3. pairs[i].key <= pairs[Len(pairs)].key
        BY <1>1, <4>2 DEF InOrder
      <4> QED
        BY <1>9, <4>3
    <3> QED
      BY <3>1
  <2>5. /\ GoodParts(new, over)
        /\ Adds(LeafPairs(LeafNode(pairs, over)), LeafPairs(LeafNode(new, over)), Rec(k, v))
    BY <2>1, <2>4, PairInserted
  <2>6. GoodLeaf(after)
    BY <2>3, <2>5 DEF GoodLeaf
  <2> QED
    BY <1>5, <1>11, <2>3, <2>5, <2>6
<1> QED
  BY <1>12, <1>13, <1>14

\* leafInsert of a key that is there, by an upsert.
LEMMA UpsertAllowed ==
  ASSUME Numbered, NEW pairs, NEW over, GoodParts(pairs, over),
         NEW edit \in KeyEdits, edit.op = "upsert", At(pairs, edit.key) # {},
         NEW leaf, leaf = LeafNode(pairs, over)
  PROVE  AsAllowed(leaf, edit, ApplyToLeaf(leaf, edit))
<1>1. /\ pairs \in Seq(Recs) /\ InOrder(pairs) /\ over \in Seq(OverBlocks)
      /\ over # <<>> => pairs # <<>> /\ Last(over).vals # <<>>
  BY DEF GoodParts
<1>2. leaf.pairs = pairs /\ leaf.over = over /\ GoodLeaf(leaf)
  BY DEF LeafNode, GoodLeaf
<1>3. PICK k \in Keys, v \in Values : k = edit.key /\ v = edit.val
  BY EditsAre
<1>4. PICK n \in 1..Len(pairs) : n = Min(At(pairs, k)) /\ pairs[n].key = k
  <2>1. Min(At(pairs, k)) \in At(pairs, k)
    BY <1>1, <1>3, AtIs
  <2> QED
    BY <1>1, <2>1, AtIs
<1>5. PICK new : new = WithValue(pairs, n, v)
  OBVIOUS
<1>6. PICK after : after = ApplyToLeaf(leaf, edit)
  OBVIOUS
<1>7. after = LeafInsert(leaf, k, v, TRUE)
  BY <1>3, <1>6 DEF ApplyToLeaf
<1>8. after = [leaf EXCEPT !.pairs[n].val = v]
  BY <1>2, <1>3, <1>4, <1>7 DEF LeafInsert
<1>9. after = LeafNode(new, over)
  BY <1>5, <1>8 DEF LeafNode, WithValue
<1>10. /\ GoodParts(new, over) /\ pairs[n] \in Recs
       /\ Swaps(LeafPairs(LeafNode(pairs, over)), LeafPairs(LeafNode(new, over)),
                pairs[n], Rec(pairs[n].key, v))
  BY ONLY <1>3, <1>4, <1>5, ValueReplaced, GoodParts(pairs, over), n \in 1..Len(pairs),
          v \in Values
<1>11. PICK u \in Values : pairs[n] = Rec(k, u)
  BY <1>4, <1>10, RecsAre
<1>12. Swaps(LeafPairs(leaf), LeafPairs(after), Rec(edit.key, u), Rec(edit.key, edit.val))
  BY <1>3, <1>4, <1>9, <1>10, <1>11
<1>13. GoodLeaf(after)
  BY <1>9, <1>10 DEF GoodLeaf
<1>14. BagOf(LeafPairs(leaf))[<<k, u>>] > 0
  <2>1. \E i \in DOMAIN pairs : pairs[i] = Rec(k, u)
    BY <1>1, <1>11
  <2> QED
    BY <1>1, <2>1, HeldAt
<1> QED
  BY <1>2, <1>3, <1>6, <1>12, <1>13, <1>14, SwapsAllowed

\* What is in the values of a chain is in one of its blocks.
LEMMA ValueSomewhere ==
  ASSUME NEW over \in Seq(OverBlocks), NEW v, Contains(OverflowValues(over), v)
  PROVE  \E b \in DOMAIN over : Contains(over[b].vals, v)
<1>1. PICK ss : ss = ValuesOf(over)
  OBVIOUS
<1>2. /\ ss \in Seq(Seq(Values)) /\ Len(ss) = Len(over)
      /\ \A i \in 1..Len(over) : ss[i] = over[i].vals
      /\ OverflowValues(over) = FlattenSeq(ss)
  BY <1>1, ValuesAre
<1>3. /\ FlattenSeq(ss) \in Seq(Values)
      /\ \A x \in Range(FlattenSeq(ss)) : \E i \in 1..Len(ss) : x \in Range(ss[i])
  BY <1>2, FlattenRange
<1>4. v \in Range(FlattenSeq(ss))
  BY <1>2, <1>3 DEF Contains, Range
<1>5. PICK b \in 1..Len(over) : v \in Range(over[b].vals)
  BY <1>2, <1>3, <1>4
<1>6. over[b].vals \in Seq(Values)
  <2>1. over[b] \in OverBlocks
    BY <1>5
  <2> QED
    BY <2>1 DEF OverBlocks
<1> QED
  BY <1>5, <1>6 DEF Contains, Range

\* leafRemove of a pair of the leaf, or of one that is not there.
LEMMA RemoveAllowed ==
  ASSUME Numbered, NEW pairs, NEW over, GoodParts(pairs, over),
         NEW edit \in KeyEdits, edit.op \in {"removeKey", "removeKV"},
         NEW leaf, leaf = LeafNode(pairs, over), ~OnlyInChain(leaf, edit)
  PROVE  AsAllowed(leaf, edit, ApplyToLeaf(leaf, edit))
<1>1. /\ pairs \in Seq(Recs) /\ InOrder(pairs) /\ over \in Seq(OverBlocks)
      /\ over # <<>> => pairs # <<>> /\ Last(over).vals # <<>>
  BY DEF GoodParts
<1>2. leaf.pairs = pairs /\ leaf.over = over /\ GoodLeaf(leaf)
  BY DEF LeafNode, GoodLeaf
<1>3. PICK k \in Keys : k = edit.key
  BY EditsAre
<1>4. PICK v : v = edit.val
  OBVIOUS
<1>5. /\ edit.op = "removeKV" => v \in Values /\ v # NoValue
      /\ edit.op = "removeKey" => v = NoValue
  BY <1>4, EditsAre
<1>6. PICK after : after = ApplyToLeaf(leaf, edit)
  OBVIOUS
<1>7. after = LeafRemove(leaf, k, v)
  BY <1>3, <1>4, <1>6 DEF ApplyToLeaf
<1>8. PICK hits : hits = {i \in At(pairs, k) : v \in {NoValue, pairs[i].val}}
  OBVIOUS
<1>9. hits \in SUBSET (1..Len(pairs)) /\ \A i \in hits : pairs[i].key = k
  BY <1>1, <1>8, AtIs
<1>10. hits # {} => Min(hits) \in hits
  <2>1. hits \in SUBSET Nat
    BY <1>9
  <2> QED
    BY <2>1, LeastOf
<1>11. ASSUME hits # {}
       PROVE  \E u \in Values : /\ pairs[Min(hits)] = Rec(k, u)
                                /\ edit.op = "removeKV" => u = edit.val
  <2>1. PICK n \in 1..Len(pairs) : n = Min(hits) /\ n \in hits
    BY <1>9, <1>10, <1>11
  <2>2. pairs[n] \in Recs /\ pairs[n].key = k
    BY <1>1, <1>9, <2>1
  <2>3. PICK u \in Values : pairs[n] = Rec(k, u) /\ u = pairs[n].val
    BY <2>2, RecsAre
  <2>4. edit.op = "removeKV" => u = v
    BY <1>5, <1>8, <2>1, <2>3
  <2> QED
    BY <1>4, <2>1, <2>3, <2>4
<1>12. ASSUME GoodLeaf(after), hits # {},
              Drops(LeafPairs(leaf), LeafPairs(after), pairs[Min(hits)])
       PROVE  AsAllowed(leaf, edit, after)
  <2>1. PICK u \in Values : pairs[Min(hits)] = Rec(k, u) /\ (edit.op = "removeKV" => u = edit.val)
    BY <1>11, <1>12
  <2>2. Drops(LeafPairs(leaf), LeafPairs(after), Rec(edit.key, u))
    BY <1>3, <1>12, <2>1
  <2>3. edit.key \in Keys
    BY <1>3
  <2> QED
    BY <1>2, <1>12, <2>1, <2>2, <2>3, DropsAllowed
<1>13. CASE hits # {} /\ Min(hits) = Len(pairs) /\ over # <<>>
  <2>1. PICK new : new = [pairs EXCEPT ![Len(pairs)].val = Last(OverflowValues(over))]
    OBVIOUS
  <2>2. PICK less : less = Pulled(over)
    OBVIOUS
  <2>3. after = LeafNode(new, less)
    BY <1>2, <1>7, <1>8, <1>13, <2>1, <2>2 DEF LeafRemove
  <2>4. /\ GoodParts(new, less)
        /\ Drops(LeafPairs(LeafNode(pairs, over)), LeafPairs(LeafNode(new, less)),
                 pairs[Len(pairs)])
    BY <1>13, <2>1, <2>2, LastReplaced
  <2>5. GoodLeaf(after)
    BY <2>3, <2>4 DEF GoodLeaf
  <2> QED
    BY <1>6, <1>12, <1>13, <2>3, <2>4, <2>5
<1>14. CASE hits # {} /\ ~(Min(hits) = Len(pairs) /\ over # <<>>)
  <2>1. PICK n \in 1..Len(pairs) : n = Min(hits)
    BY <1>9, <1>10, <1>14
  <2>2. PICK new : new = RemoveAt(pairs, n)
    OBVIOUS
  <2>3. after = [leaf EXCEPT !.pairs = new]
    BY <1>2, <1>7, <1>8, <1>14, <2>1, <2>2 DEF LeafRemove
  <2>4. after = LeafNode(new, over)
    BY <2>3 DEF LeafNode
  <2>5. over # <<>> => n # Len(pairs)
    BY <1>14, <2>1
  <2>6. /\ GoodParts(new, over)
        /\ Drops(LeafPairs(LeafNode(pairs, over)), LeafPairs(LeafNode(new, over)), pairs[n])
    BY <2>2, <2>5, PairRemoved
  <2>7. GoodLeaf(after)
    BY <2>4, <2>6 DEF GoodLeaf
  <2> QED
    BY <1>6, <1>12, <1>14, <2>1, <2>4, <2>6, <2>7
<1>15. ASSUME hits = {} PROVE Targets(BagOf(LeafPairs(leaf)), edit) = {}
  <2> SUFFICES ASSUME NEW u \in Targets(BagOf(LeafPairs(leaf)), edit) PROVE FALSE
    OBVIOUS
  <2>1. u \in Values /\ BagOf(LeafPairs(leaf))[<<k, u>>] > 0 /\ (edit.op = "removeKV" => u = v)
    BY <1>3, <1>4 DEF Targets
  <2>2. \/ \E i \in DOMAIN pairs : pairs[i] = Rec(k, u)
        \/ over # <<>> /\ k = OverflowKey(leaf) /\ Contains(OverflowValues(over), u)
    BY <1>1, <2>1, HeldAt
  <2>3. ASSUME NEW i \in DOMAIN pairs, pairs[i] = Rec(k, u) PROVE FALSE
    <3>1. i \in At(pairs, k) /\ pairs[i].val = u
      BY <2>3 DEF At, Rec
    <3>2. v \in {NoValue, u}
      BY <1>5, <2>1
    <3> QED
      BY <1>8, <1>15, <3>1, <3>2
  <2>4. ASSUME over # <<>>, k = OverflowKey(leaf), Contains(OverflowValues(over), u) PROVE FALSE
    <3>1. Len(pairs) \in At(pairs, k)
      <4>1. Len(pairs) \in 1..Len(pairs) /\ pairs[Len(pairs)].key = k
        BY <1>1, <2>4, HeldIs
      <4> QED
        BY <1>1, <4>1 DEF At
    <3>2. edit.op = "removeKV" /\ v = u
      <4>1. v # NoValue
        BY <1>8, <1>15, <3>1
      <4> QED
        BY <1>5, <2>1, <4>1
    <3>3. \A i \in At(pairs, k) : pairs[i].val # v
      BY <1>8, <1>15
    <3>4. \E b \in DOMAIN over : Contains(over[b].vals, u)
      BY <1>1, <2>4, ValueSomewhere
    <3>5. OnlyInChain(leaf, edit)
      BY <1>2, <1>3, <1>4, <2>4, <3>2, <3>3, <3>4 DEF OnlyInChain
    <3> QED
      BY <3>5
  <2> QED
    BY <2>2, <2>3, <2>4
<1>16. CASE hits = {} /\ over # <<>> /\ Len(pairs) \in At(pairs, k)
  <2>1. edit.op = "removeKV" /\ v # NoValue
    BY <1>5, <1>8, <1>16
  <2>2. k = OverflowKey(leaf)
    BY <1>1, <1>16, AtIs, HeldIs
  <2>3. PICK having : having = {i \in DOMAIN over : Contains(over[i].vals, v)}
    OBVIOUS
  <2>4. having = {}
    <3> SUFFICES ASSUME having # {} PROVE FALSE
      OBVIOUS
    <3>1. \A i \in At(pairs, k) : pairs[i].val # v
      BY <1>8, <1>16
    <3>2. OnlyInChain(leaf, edit)
      BY <1>2, <1>3, <1>4, <2>1, <2>2, <2>3, <3>1 DEF OnlyInChain
    <3> QED
      BY <3>2
  <2>5. after = OverflowRemove(leaf, v)
    BY <1>2, <1>7, <1>8, <1>16 DEF LeafRemove
  <2>6. PICK same : same = Loaded(over, Len(over))
    OBVIOUS
  <2>7. after = [leaf EXCEPT !.over = same]
    BY <1>2, <2>3, <2>4, <2>5, <2>6, Zenon DEF OverflowRemove
  <2>8. after = LeafNode(pairs, same)
    BY <2>7 DEF LeafNode
  <2>9. /\ same \in Seq(OverBlocks) /\ Len(same) = Len(over)
        /\ \A i \in 1..Len(over) : same[i].vals = over[i].vals
        /\ OverflowValues(same) = OverflowValues(over)
    BY <1>1, <2>6, LoadedIs
  <2>10. GoodParts(pairs, same)
    <3>1. same # <<>> /\ Len(over) \in 1..Len(over)
      BY <1>1, <1>16, <2>9
    <3>2. Last(same).vals = Last(over).vals
      BY <2>9, <3>1 DEF Last
    <3> QED
      BY <1>1, <1>16, <2>9, <3>2 DEF GoodParts
  <2>11. LeafPairs(after) = LeafPairs(leaf)
    BY <1>2, <2>8, <2>9 DEF LeafPairs, LeafNode, OverflowKey
  <2>12. GoodLeaf(after)
    BY <2>8, <2>10 DEF GoodLeaf
  <2> QED
    BY <1>6, <1>15, <1>16, <2>11, <2>12, NothingAllowed
<1>17. CASE hits = {} /\ ~(over # <<>> /\ Len(pairs) \in At(pairs, k))
  <2>1. after = leaf
    BY <1>2, <1>7, <1>8, <1>17 DEF LeafRemove
  <2> QED
    BY <1>2, <1>6, <1>15, <1>17, <2>1, NothingAllowed
<1> QED
  BY <1>13, <1>14, <1>16, <1>17

\* An edit makes of a leaf and its chain, of any length, what the interface names:
\* an insertion adds the pair, an upsert replaces the value of one pair of the key
\* or adds it, a removal takes one out (tree_impl.cpp:120-283); and if it has what
\* it speaks of, the number of pairs changes as a guarantee says beforehand
\* (priv_types.h).  Left out is the removal of a value that only the chain has.
THEOREM EditExact ==
  ASSUME Numbered, NEW leaf, GoodLeaf(leaf), NEW edit \in KeyEdits,
         ~OnlyInChain(leaf, edit)
  PROVE  AsAllowed(leaf, edit, ApplyToLeaf(leaf, edit))
<1>1. PICK pairs, over : leaf = LeafNode(pairs, over) /\ GoodParts(pairs, over)
  BY DEF GoodLeaf
<1>2. CASE edit.op = "insert" \/ (edit.op = "upsert" /\ At(pairs, edit.key) = {})
  <2>1. edit.op \in {"insert", "upsert"} /\ (edit.op = "upsert" => At(pairs, edit.key) = {})
    BY <1>2
  <2> QED
    BY <1>1, <2>1, InsertAllowed
<1>3. CASE edit.op = "upsert" /\ At(pairs, edit.key) # {}
  BY <1>1, <1>3, UpsertAllowed
<1>4. CASE edit.op \in {"removeKey", "removeKV"}
  BY <1>1, <1>4, RemoveAllowed
<1> QED
  BY <1>2, <1>3, <1>4, EditsAre

-----------------------------------------------------------------------------
(* A flush merges the edits of a queue with the pairs *)

\* What the merge has made of the leaf so far; the last pair has not moved if
\* there is a chain behind it.
MergedSoFar(acc, over, key) ==
  /\ acc.out \in Seq(Recs) /\ acc.rest \in Seq(Recs)
  /\ GoodParts(acc.out \o acc.rest, over)
  /\ over # <<>> => acc.rest # <<>> /\ Last(acc.rest).key = key

SoFar(acc, over) == LeafNode(acc.out \o acc.rest, over)

\* A change of what comes first in a list is one of the list.
LEMMA RemovedInFront ==
  ASSUME NEW P, NEW s \in Seq(P), NEW t \in Seq(P), NEW k \in 1..Len(s)
  PROVE  /\ RemoveAt(s, k) \o t = RemoveAt(s \o t, k)
         /\ RemoveAt(s, k) \in Seq(P) /\ k \in 1..Len(s \o t)
<1>1. PICK u : u = s \o t
  OBVIOUS
<1>2. PICK n \in Nat : n = Len(s)
  OBVIOUS
<1>3. PICK m \in Nat : m = Len(t)
  OBVIOUS
<1>4. k \in Nat /\ k >= 1 /\ k <= n
  BY <1>2
<1>5. /\ u \in Seq(P) /\ Len(u) = n + m
      /\ \A i \in 1..n : u[i] = s[i]
      /\ \A i \in 1..m : u[n + i] = t[i]
  BY <1>1, <1>2, <1>3, JoinIs
<1>6. PICK a : a = SubSeq(s, 1, k - 1)
  OBVIOUS
<1>7. PICK b : b = SubSeq(s, k + 1, n)
  OBVIOUS
<1>8. a \in Seq(P) /\ Len(a) = k - 1 /\ \A i \in 1..(k - 1) : a[i] = s[i]
  BY <1>2, <1>4, <1>6
<1>9. b \in Seq(P) /\ Len(b) = n - k /\ \A i \in 1..(n - k) : b[i] = s[k + i]
  BY <1>2, <1>4, <1>7
<1>10. PICK c : c = SubSeq(u, 1, k - 1)
  OBVIOUS
<1>11. c \in Seq(P) /\ Len(c) = k - 1 /\ \A i \in 1..(k - 1) : c[i] = u[i]
  BY <1>3, <1>4, <1>5, <1>10
<1>12. c = a
  <2>1. \A i \in 1..(k - 1) : i \in 1..n
    BY <1>4
  <2>2. \A i \in 1..(k - 1) : c[i] = a[i]
    BY <1>5, <1>8, <1>11, <2>1
  <2> QED
    BY <1>8, <1>11, <2>2, SeqEqual
<1>13. PICK d : d = SubSeq(u, k + 1, n + m)
  OBVIOUS
<1>14. d \in Seq(P) /\ Len(d) = (n + m) - k /\ \A i \in 1..((n + m) - k) : d[i] = u[k + i]
  BY <1>3, <1>4, <1>5, <1>13
<1>15. d = b \o t
  <2>1. Len(d) = Len(b) + Len(t)
    BY <1>3, <1>4, <1>9, <1>14
  <2>2. ASSUME NEW i \in 1..Len(b) PROVE d[i] = b[i]
    <3>1. i \in 1..(n - k) /\ i \in 1..((n + m) - k) /\ k + i \in 1..n
      BY <1>3, <1>4, <1>9
    <3> QED
      BY <1>5, <1>9, <1>14, <3>1
  <2>3. ASSUME NEW i \in 1..Len(t) PROVE d[Len(b) + i] = t[i]
    <3>1. i \in 1..m /\ (n - k) + i \in 1..((n + m) - k) /\ k + ((n - k) + i) = n + i
      BY <1>3, <1>4
    <3> QED
      BY <1>5, <1>9, <1>14, <3>1
  <2> QED
    BY <1>9, <1>14, <2>1, <2>2, <2>3, JoinOf
<1>16. RemoveAt(s, k) = a \o b
  BY <1>2, <1>6, <1>7 DEF RemoveAt
<1>17. RemoveAt(u, k) = a \o (b \o t)
  BY <1>5, <1>10, <1>12, <1>13, <1>15 DEF RemoveAt
<1>18. (a \o b) \o t = a \o (b \o t)
  <2>1. a \in Seq(P) /\ b \in Seq(P) /\ t \in Seq(P)
    BY <1>8, <1>9
  <2> QED
    BY ONLY <2>1
<1>19. a \o b \in Seq(P)
  BY <1>8, <1>9, JoinIs
<1>20. k \in 1..Len(u)
  BY <1>3, <1>4, <1>5
<1> QED
  BY <1>1, <1>16, <1>17, <1>18, <1>19, <1>20

LEMMA ReplacedInFront ==
  ASSUME NEW s \in Seq(Recs), NEW t \in Seq(Recs), NEW k \in 1..Len(s), NEW v \in Values
  PROVE  /\ WithValue(s, k, v) \o t = WithValue(s \o t, k, v)
         /\ WithValue(s, k, v) \in Seq(Recs) /\ Len(WithValue(s, k, v)) = Len(s)
         /\ \A i \in 1..Len(s) : WithValue(s, k, v)[i].key = s[i].key
         /\ k \in 1..Len(s \o t)
<1>1. PICK u : u = s \o t
  OBVIOUS
<1>2. PICK n \in Nat : n = Len(s)
  OBVIOUS
<1>3. PICK m \in Nat : m = Len(t)
  OBVIOUS
<1>4. k \in Nat /\ k >= 1 /\ k <= n /\ k \in 1..n
  BY <1>2
<1>5. /\ u \in Seq(Recs) /\ Len(u) = n + m
      /\ \A i \in 1..n : u[i] = s[i]
      /\ \A i \in 1..m : u[n + i] = t[i]
  BY <1>1, <1>2, <1>3, JoinIs
<1>6. PICK x \in Recs : x = s[k]
  OBVIOUS
<1>7. PICK y \in Recs : y = [x EXCEPT !.val = v]
  BY DEF Recs
<1>8. y.key = x.key
  BY <1>6, <1>7 DEF Recs
<1>9. PICK p : p = Replaced(s, k, y)
  OBVIOUS
<1>10. PICK q : q = Replaced(u, k, y)
  OBVIOUS
<1>11. p = WithValue(s, k, v)
  BY <1>6, <1>7, <1>9 DEF WithValue, Replaced
<1>12. u[k] = x /\ k \in 1..Len(u)
  BY <1>3, <1>4, <1>5, <1>6
<1>13. q = WithValue(u, k, v)
  BY <1>5, <1>7, <1>10, <1>12 DEF WithValue, Replaced
<1>14. /\ p \in Seq(Recs) /\ Len(p) = n /\ p[k] = y
       /\ \A i \in 1..n : i # k => p[i] = s[i]
  BY <1>2, <1>9 DEF Replaced
<1>15. /\ q \in Seq(Recs) /\ Len(q) = n + m /\ q[k] = y
       /\ \A i \in 1..(n + m) : i # k => q[i] = u[i]
  BY <1>5, <1>10, <1>12 DEF Replaced
<1>16. q = p \o t
  <2>1. Len(q) = Len(p) + Len(t)
    BY <1>3, <1>14, <1>15
  <2>2. ASSUME NEW i \in 1..Len(p) PROVE q[i] = p[i]
    <3>1. i \in 1..n /\ i \in 1..(n + m)
      BY <1>14
    <3> QED
      BY <1>5, <1>14, <1>15, <3>1
  <2>3. ASSUME NEW i \in 1..Len(t) PROVE q[Len(p) + i] = t[i]
    <3>1. i \in 1..m /\ n + i \in 1..(n + m) /\ n + i # k
      BY <1>3, <1>4
    <3> QED
      BY <1>5, <1>14, <1>15, <3>1
  <2> QED
    BY <1>14, <1>15, <2>1, <2>2, <2>3, JoinOf
<1>17. ASSUME NEW i \in 1..n PROVE p[i].key = s[i].key
  <2>1. CASE i = k
    BY <1>6, <1>8, <1>14, <2>1
  <2>2. CASE i # k
    BY <1>14, <2>2
  <2> QED
    BY <2>1, <2>2
<1> QED
  BY <1>1, <1>2, <1>11, <1>12, <1>13, <1>14, <1>16, <1>17

\* One edit of the merge, on what has moved by then, and on what follows it.
LEMMA UpdatedAllowed ==
  ASSUME Numbered, NEW out \in Seq(Recs), NEW back \in Seq(Recs), NEW over,
         GoodParts(out \o back, over), NEW e \in KeyEdits, UpToKey(out, e.key),
         \A i \in 1..Len(back) : back[i].key >= e.key
                                 /\ (back[i].key = e.key => e.op = "insert"),
         over # <<>> => back # <<>> /\ e.key # Last(back).key,
         NEW new, new = Updated(out, e)
  PROVE  /\ new \in Seq(Recs) /\ UpToKey(new, e.key) /\ GoodParts(new \o back, over)
         /\ AsAllowed(LeafNode(out \o back, over), e, LeafNode(new \o back, over))
<1>1. PICK pairs : pairs = out \o back
  OBVIOUS
<1>2. PICK n \in Nat : n = Len(out)
  OBVIOUS
<1>3. PICK m \in Nat : m = Len(back)
  OBVIOUS
<1>4. /\ pairs \in Seq(Recs) /\ Len(pairs) = n + m
      /\ \A i \in 1..n : pairs[i] = out[i]
      /\ \A i \in 1..m : pairs[n + i] = back[i]
  <2>1. /\ out \o back \in Seq(Recs) /\ Len(out \o back) = Len(out) + Len(back)
        /\ \A i \in 1..Len(out) : (out \o back)[i] = out[i]
        /\ \A i \in 1..Len(back) : (out \o back)[Len(out) + i] = back[i]
    BY JoinIs
  <2> QED
    BY <1>1, <1>2, <1>3, <2>1
<1>5. GoodParts(pairs, over) /\ InOrder(pairs) /\ over \in Seq(OverBlocks)
      /\ (over # <<>> => pairs # <<>>)
  BY <1>1 DEF GoodParts
<1>6. PICK leaf : leaf = LeafNode(pairs, over) /\ GoodLeaf(leaf)
  BY <1>5 DEF GoodLeaf
<1>7. PICK k \in Keys : k = e.key /\ k \in Nat
  BY EditsAre, KeysAreNumbers
<1>8. PICK v : v = e.val
  OBVIOUS
<1>9. e.op # "removeKey" => v \in Values
  BY <1>8, EditsAre
<1>10. PICK hits : hits = Hits(out, e)
  OBVIOUS
<1>11. hits \in SUBSET (1..n) /\ \A i \in 1..n :
         i \in hits <=> out[i].key = k /\ (e.op = "removeKV" => out[i].val = v)
  BY <1>2, <1>7, <1>8, <1>10 DEF Hits, At
<1>12. hits # {} => Max(hits) \in hits
  <2>1. hits \in SUBSET (1..n) /\ n \in Nat
    BY <1>11
  <2> QED
    BY <2>1, LargestOf
<1>13. over # <<>> => k # OverflowKey(leaf)
  <2> SUFFICES ASSUME over # <<>> PROVE k # OverflowKey(leaf)
    OBVIOUS
  <2>1. m \in 1..m /\ n + m = Len(pairs)
    BY <1>3, <1>4
  <2>2. pairs[Len(pairs)] = back[m]
    BY <1>4, <2>1
  <2>3. OverflowKey(leaf) = pairs[Len(pairs)].key
    BY <1>5, <1>6, PartsCount
  <2> QED
    BY <1>3, <1>7, <2>2, <2>3 DEF Last
<1>14. InOrder(out) /\ InOrder(back) /\ Below(out, back)
  BY <1>1, <1>5, KeysAreNumbers, OrderSplit
<1>15. PICK after : after = LeafNode(new \o back, over)
  OBVIOUS
<1>16. CASE e.op = "insert" \/ (e.op = "upsert" /\ hits = {})
  <2>1. v \in Values /\ v = e.val
    BY <1>8, <1>9, <1>16
  <2>2. PICK x \in Recs : x = Rec(k, v) /\ x = [key |-> k, val |-> v] /\ x.key = k
    <3>1. [key |-> k, val |-> v] \in Recs
      BY <2>1 DEF Recs
    <3> QED
      BY <3>1 DEF Rec
  <2>3. new = Append(out, x)
    BY <1>7, <1>8, <1>10, <1>16, <2>2 DEF Updated
  <2>4. \A i \in 1..Len(out) : out[i].key <= x.key
    BY <1>7, <2>2 DEF UpToKey
  <2>5. /\ new \in Seq(Recs) /\ InOrder(new)
        /\ \A i \in 1..Len(new) : new[i].key <= x.key
    BY <1>14, <2>3, <2>4, KeysAreNumbers, OrderAppend
  <2>6. Below(new, back)
    <3>1. ASSUME NEW i \in 1..Len(new), NEW j \in 1..Len(back)
          PROVE  new[i].key <= back[j].key
      <4>1. new[i] \in Recs /\ back[j] \in Recs
        BY <2>5
      <4>2. PICK a \in Nat, b \in Nat : a = new[i].key /\ b = back[j].key
        BY <4>1, KeysAreNumbers DEF Keyed
      <4>3. a <= k /\ b >= k
        BY <1>7, <2>2, <2>5, <4>2
      <4> QED
        BY <1>7, <4>2, <4>3
    <3> QED
      BY <3>1 DEF Below
  <2>7. InOrder(new \o back)
    BY <1>14, <2>5, <2>6, KeysAreNumbers, OrderJoin
  <2>8. PICK all : all = new \o back
    OBVIOUS
  <2>9. all = (out \o <<Rec(k, v)>>) \o back
    <3>1. new = out \o <<x>>
      BY <2>2, <2>3
    <3> QED
      BY <2>2, <2>8, <3>1
  <2>10. InOrder(all) /\ pairs = out \o back
         /\ (over # <<>> => back # <<>> \/ k = pairs[Len(pairs)].key)
    BY <1>1, <2>7, <2>8
  <2>11. /\ GoodParts(all, over)
         /\ Adds(LeafPairs(LeafNode(pairs, over)), LeafPairs(LeafNode(all, over)), Rec(k, v))
    <3>1. GoodParts(pairs, over)
      BY <1>5
    <3>2. v \in Values /\ k \in Keys /\ out \in Seq(Recs) /\ back \in Seq(Recs)
      BY <2>1
    <3> QED
      BY ONLY <3>1, <3>2, <2>9, <2>10, PairPlaced
  <2>12. GoodLeaf(after) /\ after = LeafNode(all, over)
    BY <1>15, <2>8, <2>11 DEF GoodLeaf
  <2>13. e.op = "upsert" => ~HasKey(BagOf(LeafPairs(leaf)), k)
    <3> SUFFICES ASSUME e.op = "upsert", At(pairs, k) # {} PROVE FALSE
      BY <1>4, <1>5, <1>6, HasKeyIs
    <3>1. PICK i \in 1..(n + m) : pairs[i].key = k
      BY <1>4 DEF At
    <3>2. CASE i \in 1..n
      <4>1. i \in hits
        BY <1>4, <1>11, <3>1, <3>2
      <4> QED
        BY <1>16, <4>1
    <3>3. ASSUME NEW j \in 1..m, i = n + j PROVE FALSE
      <4>1. j \in 1..Len(back) /\ back[j].key = e.key
        BY <1>3, <1>4, <1>7, <3>1, <3>3
      <4> QED
        BY <4>1
    <3>4. i \in 1..n \/ \E j \in 1..m : i = n + j
      BY JoinSplits
    <3> QED
      BY <3>2, <3>3, <3>4
  <2>14. AsAllowed(leaf, e, after)
    <3>1. Adds(LeafPairs(leaf), LeafPairs(after), Rec(e.key, e.val))
      BY <1>6, <1>7, <2>1, <2>11, <2>12
    <3>2. e.op = "insert" \/ (e.op = "upsert" /\ ~HasKey(BagOf(LeafPairs(leaf)), e.key))
      BY <1>7, <1>16, <2>13
    <3>3. e.key \in Keys /\ e.val \in Values
      BY <1>7, <2>1
    <3> QED
      BY <1>6, <2>12, <3>1, <3>2, <3>3, AddsAllowed
  <2> QED
    BY <1>1, <1>6, <1>7, <1>15, <2>2, <2>5, <2>8, <2>11, <2>14 DEF UpToKey
<1>17. CASE e.op = "upsert" /\ hits # {}
  <2>1. v \in Values
    BY <1>9, <1>17
  <2>2. PICK h \in 1..n : h = Max(hits) /\ h \in hits
    BY <1>11, <1>12, <1>17
  <2>3. new = WithValue(out, h, v)
    BY <1>8, <1>10, <1>17, <2>2 DEF Updated, WithValue
  <2>4. h \in 1..Len(out)
    BY <1>2
  <2>5. /\ WithValue(out, h, v) \o back = WithValue(out \o back, h, v)
        /\ WithValue(out, h, v) \in Seq(Recs) /\ Len(WithValue(out, h, v)) = Len(out)
        /\ \A i \in 1..Len(out) : WithValue(out, h, v)[i].key = out[i].key
        /\ h \in 1..Len(out \o back)
    BY <2>1, <2>4, ReplacedInFront
  <2>6. PICK all : all = new \o back
    OBVIOUS
  <2>7. all = WithValue(pairs, h, v) /\ h \in 1..Len(pairs)
    BY <1>1, <2>3, <2>5, <2>6
  <2>8. /\ GoodParts(all, over) /\ pairs[h] \in Recs
        /\ Swaps(LeafPairs(LeafNode(pairs, over)), LeafPairs(LeafNode(all, over)),
                 pairs[h], Rec(pairs[h].key, v))
    <3>1. GoodParts(pairs, over)
      BY <1>5
    <3> QED
      BY ONLY <3>1, <2>1, <2>7, ValueReplaced
  <2>9. pairs[h].key = k
    BY <1>4, <1>11, <2>2
  <2>10. PICK u \in Values : pairs[h] = Rec(k, u)
    BY <2>8, <2>9, RecsAre
  <2>11. GoodLeaf(after) /\ after = LeafNode(all, over)
    BY <1>15, <2>6, <2>8 DEF GoodLeaf
  <2>12. BagOf(LeafPairs(leaf))[<<k, u>>] > 0
    <3>1. \E i \in DOMAIN pairs : pairs[i] = Rec(k, u)
      BY <1>4, <2>7, <2>10
    <3> QED
      BY <1>4, <1>5, <1>6, <3>1, HeldAt
  <2>13. AsAllowed(leaf, e, after)
    <3>1. Swaps(LeafPairs(leaf), LeafPairs(after), Rec(e.key, u), Rec(e.key, e.val))
      BY <1>6, <1>7, <1>8, <2>8, <2>9, <2>10, <2>11
    <3>2. e.key \in Keys /\ e.val \in Values /\ BagOf(LeafPairs(leaf))[<<e.key, u>>] > 0
      BY <1>7, <1>8, <2>1, <2>12
    <3> QED
      BY <1>6, <1>17, <2>11, <3>1, <3>2, SwapsAllowed
  <2>14. UpToKey(new, e.key)
    BY <2>3, <2>5 DEF UpToKey
  <2> QED
    BY <1>1, <1>6, <1>15, <2>3, <2>5, <2>6, <2>8, <2>13, <2>14
<1>18. CASE e.op \in {"removeKey", "removeKV"} /\ hits # {}
  <2>1. PICK h \in 1..n : h = Max(hits) /\ h \in hits
    BY <1>11, <1>12, <1>18
  <2>2. new = RemoveAt(out, h)
    BY <1>10, <1>18, <2>1 DEF Updated
  <2>3. h \in 1..Len(out)
    BY <1>2
  <2>4. /\ RemoveAt(out, h) \o back = RemoveAt(out \o back, h)
        /\ RemoveAt(out, h) \in Seq(Recs) /\ h \in 1..Len(out \o back)
    BY <2>3, RemovedInFront
  <2>5. PICK all : all = new \o back
    OBVIOUS
  <2>6. all = RemoveAt(pairs, h) /\ h \in 1..Len(pairs)
    BY <1>1, <2>2, <2>4, <2>5
  <2>7. over # <<>> => h # Len(pairs)
    <3>1. over # <<>> => m # 0
      BY <1>3
    <3> QED
      BY <1>2, <1>3, <1>4, <3>1
  <2>8. /\ GoodParts(all, over) /\ pairs[h] \in Recs
        /\ Drops(LeafPairs(LeafNode(pairs, over)), LeafPairs(LeafNode(all, over)), pairs[h])
    <3>1. GoodParts(pairs, over)
      BY <1>5
    <3> QED
      BY ONLY Numbered, <3>1, <2>6, <2>7, PairRemoved
  <2>9. pairs[h].key = k /\ (e.op = "removeKV" => pairs[h].val = v)
    BY <1>4, <1>11, <2>1
  <2>10. PICK u \in Values : pairs[h] = Rec(k, u) /\ u = pairs[h].val
    BY <2>8, <2>9, RecsAre
  <2>11. GoodLeaf(after) /\ after = LeafNode(all, over)
    BY <1>15, <2>5, <2>8 DEF GoodLeaf
  <2>12. AsAllowed(leaf, e, after)
    <3>1. Drops(LeafPairs(leaf), LeafPairs(after), Rec(e.key, u))
      BY <1>6, <1>7, <2>8, <2>10, <2>11
    <3>2. e.key \in Keys /\ (e.op = "removeKV" => u = e.val)
      BY <1>7, <1>8, <2>9, <2>10
    <3> QED
      BY <1>6, <1>18, <2>11, <3>1, <3>2, DropsAllowed
  <2>13. UpToKey(new, e.key)
    <3>1. \A i \in 1..Len(new) : \E j \in 1..Len(out) : new[i] = out[j]
      <4>1. Keyed(Recs) /\ InOrder(out)
        BY <1>14, KeysAreNumbers
      <4>2. \A i \in 1..Len(RemoveAt(out, h)) :
              \E j \in 1..Len(out) : RemoveAt(out, h)[i] = out[j]
        BY <2>3, <4>1, OrderRemove
      <4> QED
        BY <2>2, <4>2
    <3> QED
      BY <3>1 DEF UpToKey
  <2> QED
    BY <1>1, <1>6, <1>15, <2>2, <2>4, <2>5, <2>8, <2>12, <2>13
<1>19. CASE e.op \in {"removeKey", "removeKV"} /\ hits = {}
  <2>1. new = out
    BY <1>10, <1>19 DEF Updated
  <2>2. after = leaf
    BY <1>1, <1>6, <1>15, <2>1
  <2>3. Targets(BagOf(LeafPairs(leaf)), e) = {}
    <3> SUFFICES ASSUME NEW u \in Targets(BagOf(LeafPairs(leaf)), e) PROVE FALSE
      OBVIOUS
    <3>1. u \in Values /\ BagOf(LeafPairs(leaf))[<<k, u>>] > 0 /\ (e.op = "removeKV" => u = v)
      BY <1>7, <1>8 DEF Targets
    <3>2. \E i \in DOMAIN pairs : pairs[i] = Rec(k, u)
      <4>1. PICK items : items = LeafPairs(leaf)
        OBVIOUS
      <4>2. BagOf(items)[<<k, u>>] > 0 <=>
              \/ \E i \in DOMAIN pairs : pairs[i] = Rec(k, u)
              \/ over # <<>> /\ k = OverflowKey(leaf) /\ Contains(OverflowValues(over), u)
        <5>1. pairs \in Seq(Recs) /\ over \in Seq(OverBlocks) /\ (over # <<>> => pairs # <<>>)
          BY <1>4, <1>5
        <5>2. leaf = LeafNode(pairs, over) /\ k \in Keys /\ u \in Values
          BY <1>6, <3>1
        <5> QED
          BY ONLY <5>1, <5>2, <4>1, HeldAt
      <4> QED
        BY <1>13, <3>1, <4>1, <4>2
    <3>3. PICK i \in 1..(n + m) : pairs[i].key = k /\ pairs[i].val = u
      BY <1>4, <3>2 DEF Rec
    <3>4. CASE i \in 1..n
      <4>1. i \in hits
        BY <1>4, <1>11, <3>1, <3>3, <3>4
      <4> QED
        BY <1>19, <4>1
    <3>5. ASSUME NEW j \in 1..m, i = n + j PROVE FALSE
      <4>1. j \in 1..Len(back) /\ back[j].key = e.key
        BY <1>3, <1>4, <1>7, <3>3, <3>5
      <4> QED
        BY <1>19, <4>1
    <3>6. i \in 1..n \/ \E j \in 1..m : i = n + j
      BY JoinSplits
    <3> QED
      BY <3>4, <3>5, <3>6
  <2>4. AsAllowed(leaf, e, after)
    BY <1>6, <1>19, <2>2, <2>3, NothingAllowed
  <2> QED
    BY <1>1, <1>5, <1>6, <1>15, <2>1, <2>4
<1> QED
  BY <1>16, <1>17, <1>18, <1>19, EditsAre

\* An edit whose key is not below those before it, with the pairs that pass.
LEMMA MergeAllowed ==
  ASSUME Numbered, NEW acc, NEW over, NEW key, MergedSoFar(acc, over, key),
         NEW e \in KeyEdits, UpToKey(acc.out, e.key), over # <<>> => e.key < key,
         NEW m, m = MergeEdit(acc, e)
  PROVE  /\ MergedSoFar(m, over, key) /\ UpToKey(m.out, e.key)
         /\ AsAllowed(SoFar(acc, over), e, SoFar(m, over))
<1>1. PICK first \in Seq(Recs) : first = acc.out
  BY DEF MergedSoFar
<1>2. PICK rest \in Seq(Recs) : rest = acc.rest
  BY DEF MergedSoFar
<1>3. /\ GoodParts(first \o rest, over) /\ UpToKey(first, e.key)
      /\ over # <<>> => rest # <<>> /\ Last(rest).key = key
  BY <1>1, <1>2 DEF MergedSoFar
<1>4. PICK n : n = Cardinality(Passed(rest, e))
  OBVIOUS
<1>5. e.key \in Nat /\ Keyed(Recs)
  BY EditsAre, KeysAreNumbers
<1>6. InOrder(first \o rest)
  BY <1>3 DEF GoodParts
<1>7. InOrder(rest)
  BY <1>5, <1>6, OrderSplit
<1>8. /\ n \in 0..Len(rest)
      /\ \A i \in 1..n : rest[i].key <= e.key
      /\ \A i \in 1..Len(rest) :
           i > n => rest[i].key >= e.key /\ (rest[i].key = e.key => e.op = "insert")
  BY ONLY <1>4, <1>5, <1>7, rest \in Seq(Recs), PassedAre
<1>9. PICK N \in Nat : N = Len(rest)
  OBVIOUS
<1>10. n \in Nat /\ n <= N
  BY <1>8, <1>9
<1>11. PICK front : front = SubSeq(rest, 1, n)
  OBVIOUS
<1>12. PICK back : back = SubSeq(rest, n + 1, N)
  OBVIOUS
<1>13. front \in Seq(Recs) /\ Len(front) = n /\ \A i \in 1..n : front[i] = rest[i]
  BY <1>9, <1>10, <1>11
<1>14. /\ back \in Seq(Recs) /\ Len(back) = N - n
       /\ \A i \in 1..(N - n) : back[i] = rest[n + i]
  BY <1>9, <1>10, <1>12
<1>15. rest = front \o back
  BY <1>8, <1>9, <1>11, <1>12, SeqSplit
<1>16. PICK out : out = first \o front
  OBVIOUS
<1>17. out \in Seq(Recs) /\ UpToKey(out, e.key)
  <2>1. UpToKey(front, e.key)
    BY <1>8, <1>13 DEF UpToKey
  <2> QED
    BY <1>3, <1>13, <1>16, <2>1, JoinIs, UpToKeyJoin
<1>18. first \o rest = out \o back
  <2>1. front \in Seq(Recs) /\ back \in Seq(Recs)
    BY <1>13, <1>14
  <2>2. (first \o front) \o back = first \o (front \o back)
    BY ONLY first \in Seq(Recs), <2>1
  <2> QED
    BY <1>15, <1>16, <2>2
<1>19. \A i \in 1..Len(back) : back[i].key >= e.key /\ (back[i].key = e.key => e.op = "insert")
  <2>1. \A i \in 1..Len(back) : n + i \in 1..Len(rest) /\ n + i > n /\ i \in 1..(N - n)
    BY <1>9, <1>10, <1>14
  <2> QED
    BY <1>8, <1>14, <2>1
<1>20. over # <<>> => back # <<>> /\ Last(back).key = key
  <2> SUFFICES ASSUME over # <<>> PROVE back # <<>> /\ Last(back).key = key
    OBVIOUS
  <2>1. rest # <<>> /\ Last(rest).key = key /\ e.key < key
    BY <1>3
  <2>2. N >= 1 /\ N \in 1..N /\ N \in 1..Len(rest) /\ rest[N] \in Recs
    BY <1>9, <2>1
  <2>3. rest[N].key = key /\ key \in Nat
    BY <1>5, <1>9, <2>1, <2>2 DEF Last, Keyed
  <2>4. n # N
    <3> SUFFICES ASSUME n = N PROVE FALSE
      OBVIOUS
    <3>1. key <= e.key
      BY <1>8, <2>2, <2>3
    <3> QED
      BY <1>5, <2>1, <2>3, <3>1
  <2>5. N - n >= 1 /\ N - n \in 1..(N - n) /\ n + (N - n) = N
    BY <1>9, <1>10, <2>4
  <2> QED
    BY <1>14, <2>3, <2>5 DEF Last
<1>21. PICK new : new = Updated(out, e)
  OBVIOUS
<1>22. over # <<>> => back # <<>> /\ e.key # Last(back).key
  BY <1>5, <1>20
<1>23. GoodParts(out \o back, over)
  BY <1>3, <1>18
<1>24. /\ new \in Seq(Recs) /\ UpToKey(new, e.key) /\ GoodParts(new \o back, over)
       /\ AsAllowed(LeafNode(out \o back, over), e, LeafNode(new \o back, over))
  <2>1. out \in Seq(Recs) /\ back \in Seq(Recs) /\ UpToKey(out, e.key)
    BY <1>14, <1>17
  <2> QED
    BY ONLY Numbered, e \in KeyEdits, <2>1, <1>19, <1>21, <1>22, <1>23, UpdatedAllowed
<1>25. m.out = new /\ m.rest = back
  BY <1>1, <1>2, <1>4, <1>9, <1>11, <1>12, <1>16, <1>21 DEF MergeEdit
<1>26. SoFar(acc, over) = LeafNode(out \o back, over)
  BY <1>1, <1>2, <1>18 DEF SoFar
<1>27. SoFar(m, over) = LeafNode(new \o back, over)
  BY <1>25 DEF SoFar
<1> QED
  BY <1>14, <1>20, <1>24, <1>25, <1>26, <1>27 DEF MergedSoFar

\* What the merge computes over the indices of edits up to n.
Merging(it, base, edits, n) ==
  it = [T \in SUBSET (1..n) |->
          IF T = {} THEN base ELSE MergeEdit(it[T \ {Max(T)}], edits[Max(T)])]

\* It is defined: each step takes the largest index off.
LEMMA MergingExists ==
  ASSUME NEW base, NEW edits, NEW N \in Nat
  PROVE  \E it : Merging(it, base, edits, N)
<1> DEFINE Good == {n \in 0..N : \E it : Merging(it, base, edits, n)}
<1>1. 0 \in Good
  <2>1. SUBSET (1..0) = {{}}
    OBVIOUS
  <2>2. Merging([T \in SUBSET (1..0) |-> base], base, edits, 0)
    BY <2>1 DEF Merging
  <2> QED
    BY <2>2
<1>2. ASSUME NEW n \in 1..N, n - 1 \in Good PROVE n \in Good
  <2>1. PICK it : Merging(it, base, edits, n - 1)
    BY <1>2
  <2> DEFINE g == [T \in SUBSET (1..n) |->
                     IF n \in T THEN MergeEdit(it[T \ {n}], edits[n]) ELSE it[T]]
  <2>2. ASSUME NEW T \in SUBSET (1..n)
        PROVE  g[T] = IF T = {} THEN base
                      ELSE MergeEdit(g[T \ {Max(T)}], edits[Max(T)])
    <3>1. CASE T = {}
      BY <2>1, <3>1 DEF Merging
    <3>2. CASE n \in T
      <4>1. Max(T) = n
        BY <3>2, MaxUpTo
      <4>2. T \ {n} \in SUBSET (1..n) /\ n \notin T \ {n}
        OBVIOUS
      <4> QED
        BY <3>2, <4>1, <4>2
    <3>3. CASE T # {} /\ n \notin T
      <4>1. \A x \in T : x \in 1..(n - 1)
        BY <3>3
      <4>2. T \in SUBSET (1..(n - 1)) /\ T \ {Max(T)} \in SUBSET (1..n)
        BY <4>1
      <4>3. it[T] = MergeEdit(it[T \ {Max(T)}], edits[Max(T)])
        BY <2>1, <3>3, <4>2 DEF Merging
      <4> QED
        BY <3>3, <4>2, <4>3
    <3> QED
      BY <3>1, <3>2, <3>3
  <2>3. Merging(g, base, edits, n)
    BY <2>2 DEF Merging
  <2> QED
    BY <2>3
<1> HIDE DEF Good
<1>3. 0..N \subseteq Good
  BY <1>1, <1>2, UpToInduction
<1> QED
  BY <1>3 DEF Good

AllMerged(base, edits) == FoldLeft(MergeEdit, base, edits)

\* The merge, one edit after the other.
LEMMA MergesAre ==
  ASSUME NEW base, NEW edits, NEW N \in Nat, DOMAIN edits = 1..N
  PROVE  \E f : /\ f[0] = base
                /\ \A i \in 1..N : f[i] = MergeEdit(f[i - 1], edits[i])
                /\ AllMerged(base, edits) = f[N]
<1>1. PICK it : /\ Merging(it, base, edits, N)
                /\ AllMerged(base, edits) = it[1..N]
  <2>1. \E it : Merging(it, base, edits, N)
    BY MergingExists
  <2> QED
    BY <2>1 DEF AllMerged, FoldLeft, MapThenFoldSet, Merging
<1> DEFINE f == [i \in 0..N |-> it[1..i]]
<1>2. f[0] = base /\ AllMerged(base, edits) = f[N]
  <2>1. 1..0 = {} /\ {} \in SUBSET (1..N)
    OBVIOUS
  <2>2. it[1..0] = base
    BY <1>1, <2>1 DEF Merging
  <2> QED
    BY <1>1, <2>2
<1>3. ASSUME NEW i \in 1..N PROVE f[i] = MergeEdit(f[i - 1], edits[i])
  <2>1. i \in 1..i /\ \A j \in 1..i : j \in 1..N
    OBVIOUS
  <2>2. 1..i \in SUBSET (1..N) /\ 1..i # {}
    BY <2>1
  <2>3. Max(1..i) = i
    BY MaxUpTo
  <2>4. (1..i) \ {i} = 1..(i - 1)
    OBVIOUS
  <2>5. it[1..i] = MergeEdit(it[1..(i - 1)], edits[i])
    BY <1>1, <2>2, <2>3, <2>4 DEF Merging
  <2> QED
    BY <2>5
<1> QED
  BY <1>2, <1>3

\* A flush merges the edits of a queue, sorted by key, with the pairs of a leaf, and
\* what comes out is what the edits may make of it one after the other: there are
\* leaves from the one before to the one after, and from each to the next the edit
\* does what the interface names, as in EditExact (LeafNode::applyAll,
\* leaf_node.cpp:81-163).  The merge does not know of a chain, and an edit behind its
\* key would break it, so for a leaf with a chain the edits have keys below its key.
THEOREM FlushExact ==
  ASSUME Numbered, NEW leaf, GoodLeaf(leaf), NEW edits \in Seq(KeyEdits),
         \A i \in 2..Len(edits) : edits[i - 1].key <= edits[i].key,
         leaf.over # <<>> => \A i \in 1..Len(edits) : edits[i].key < OverflowKey(leaf)
  PROVE  \E leaves :
           /\ leaves[0] = leaf
           /\ \A i \in 1..Len(edits) : AsAllowed(leaves[i - 1], edits[i], leaves[i])
           /\ leaves[Len(edits)] = ApplyAll(leaf, edits)
<1>1. PICK pairs, over : leaf = LeafNode(pairs, over) /\ GoodParts(pairs, over)
  BY DEF GoodLeaf
<1>2. leaf.pairs = pairs /\ leaf.over = over /\ pairs \in Seq(Recs)
      /\ (over # <<>> => pairs # <<>>)
  BY <1>1 DEF LeafNode, GoodParts
<1>3. PICK N \in Nat : N = Len(edits) /\ DOMAIN edits = 1..N
  OBVIOUS
<1>4. PICK base : base = [rest |-> pairs, out |-> <<>>]
  OBVIOUS
<1>a. PICK merged : merged = AllMerged(base, edits)
  OBVIOUS
<1>5. PICK f : /\ f[0] = base
               /\ \A i \in 1..N : f[i] = MergeEdit(f[i - 1], edits[i])
               /\ merged = f[N]
  <2>1. N \in Nat /\ DOMAIN edits = 1..N
    BY <1>3
  <2> QED
    BY ONLY <1>a, <2>1, MergesAre
<1>6. PICK key : key = OverflowKey(leaf)
  OBVIOUS
<1>7. \A i \in 1..N : edits[i] \in KeyEdits /\ edits[i].key \in Nat
  <2>1. \A i \in 1..N : edits[i] \in KeyEdits
    BY <1>3
  <2> QED
    BY <2>1, EditsAre, KeysAreNumbers
<1>8. MergedSoFar(base, over, key) /\ SoFar(base, over) = leaf /\ \A k : UpToKey(base.out, k)
  <2>1. PICK none : none = <<>>
    OBVIOUS
  <2>2. none \in Seq(Recs) /\ none \o pairs = pairs /\ Len(none) = 0
    BY <1>2, <2>1
  <2>3. base.out = none /\ base.rest = pairs
    BY <1>4, <2>1
  <2>4. over # <<>> => Last(pairs).key = key
    BY <1>2, <1>6 DEF OverflowKey
  <2>5. \A k : UpToKey(none, k)
    BY <2>2 DEF UpToKey
  <2> QED
    BY <1>1, <1>2, <2>2, <2>3, <2>4, <2>5 DEF MergedSoFar, SoFar
<1> DEFINE Good == {i \in 0..N :
                      /\ MergedSoFar(f[i], over, key)
                      /\ i = 0 => \A k : UpToKey(f[i].out, k)
                      /\ i # 0 => UpToKey(f[i].out, edits[i].key)
                      /\ i # 0 => AsAllowed(SoFar(f[i - 1], over), edits[i], SoFar(f[i], over))}
<1>9. 0 \in Good
  BY <1>3, <1>5, <1>8
<1>10. ASSUME NEW i \in 1..N, i - 1 \in Good PROVE i \in Good
  <2>1. PICK e \in KeyEdits : e = edits[i] /\ e.key \in Nat
    BY <1>7
  <2>2. PICK acc : acc = f[i - 1]
    OBVIOUS
  <2>3. MergedSoFar(acc, over, key)
    BY <1>10, <2>2
  <2>4. UpToKey(acc.out, e.key)
    <3>1. CASE i = 1
      <4>1. i - 1 = 0
        BY <3>1
      <4> QED
        BY <1>10, <2>2, <4>1
    <3>2. CASE i # 1
      <4>1. i \in 2..N /\ i - 1 \in 1..N /\ i - 1 # 0
        BY <3>2
      <4>2. UpToKey(acc.out, edits[i - 1].key)
        BY <1>10, <2>2, <4>1
      <4>3. PICK c \in Nat : c = edits[i - 1].key
        BY <1>7, <4>1
      <4>4. c <= e.key
        BY <1>3, <2>1, <4>1, <4>3
      <4>5. acc.out \in Seq(Recs)
        BY <2>3 DEF MergedSoFar
      <4>6. \A j \in 1..Len(acc.out) : acc.out[j].key \in Nat /\ acc.out[j].key <= c
        BY <4>2, <4>3, <4>5, KeysAreNumbers DEF UpToKey, Keyed
      <4> QED
        BY <2>1, <4>3, <4>4, <4>6 DEF UpToKey
    <3> QED
      BY <3>1, <3>2
  <2>5. over # <<>> => e.key < key
    BY <1>2, <1>3, <1>6, <2>1
  <2>6. PICK m : m = MergeEdit(acc, e)
    OBVIOUS
  <2>7. /\ MergedSoFar(m, over, key) /\ UpToKey(m.out, e.key)
        /\ AsAllowed(SoFar(acc, over), e, SoFar(m, over))
    BY <2>3, <2>4, <2>5, <2>6, MergeAllowed
  <2>8. f[i] = m /\ i # 0
    BY <1>5, <2>1, <2>2, <2>6
  <2> QED
    BY <2>1, <2>2, <2>7, <2>8
<1>11. 0..N \subseteq Good
  <2> HIDE DEF Good
  <2> QED
    BY <1>9, <1>10, UpToInduction
<1> DEFINE leaves == [i \in 0..N |-> SoFar(f[i], over)]
<1>12. leaves[0] = leaf
  BY <1>3, <1>5, <1>8
<1>13. ASSUME NEW i \in 1..N PROVE AsAllowed(leaves[i - 1], edits[i], leaves[i])
  <2>1. i \in Good /\ i # 0 /\ i - 1 \in 0..N /\ i \in 0..N
    BY <1>11
  <2> QED
    BY <2>1
<1>14. leaves[N] = ApplyAll(leaf, edits)
  <2>1. leaves[N] = LeafNode(merged.out \o merged.rest, over)
    BY <1>3, <1>5 DEF SoFar
  <2>2. ApplyAll(leaf, edits) = [leaf EXCEPT !.pairs = merged.out \o merged.rest]
    BY <1>2, <1>4, <1>a DEF ApplyAll, AllMerged
  <2>3. leaf = LeafNode(pairs, over)
    BY <1>1
  <2> QED
    BY <2>1, <2>2, <2>3 DEF LeafNode
<1> QED
  BY <1>3, <1>12, <1>13, <1>14

=============================================================================
