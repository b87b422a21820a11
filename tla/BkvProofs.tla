------------------------------ MODULE BkvProofs ------------------------------
(***************************************************************************)
(* Bkv, proved for every number of pages, any failures of the engine and   *)
(* identifiers that are hashes or not: with one command at a time, killed  *)
(* at any moment, the root that was printed last can be read but for the   *)
(* pages at risk, from the first delete on one of the two trees is stored, *)
(* and every other block was left over by a failure or a kill.             *)
(*                                                                         *)
(* The write is where pages come to be at risk.  What it keeps unloaded is *)
(* made of pages that are not loaded and of shared ones, and so is all     *)
(* that can be reached from it: a loaded page below an unloaded one has a  *)
(* loaded parent as well, and is shared.                                   *)
(***************************************************************************)
EXTENDS Bkv, CommitProofs

\* One command runs at a time.
OneCommand == \E w : Writers = {w}

\* What is shared, and what is at risk, depends on the references of pages only.
LEMMA SameTwins ==
  ASSUME NEW w, kids' = kids, pages'[w] = pages[w], loaded'[w] = loaded[w],
         baseTree'[w] = baseTree[w]
  PROVE  Twins(w)' = Twins(w)
<1>1. \A S : Shared(S)' = Shared(S)
  BY DEF Shared, Reach, Closed
<1> QED
  BY <1>1 DEF Twins

\* The user's tree is as it was while references, blocks and root are.
LEMMA SameShown ==
  ASSUME ShownInv, kids' = kids, ctr' = ctr, live' = live, root' = root,
         blocks' \subseteq Issued
  PROVE  ShownInv'
  BY DEF ShownInv, Topped, Closed, Issued

\* When no command runs, the invariant is about the printed tree and the blocks.
LEMMA ForgottenInv ==
  ASSUME OneCommand, TypeOK, NEW w \in Writers, Forget(w), TypeOK',
         ShownInv', risked' \subseteq live', live' \subseteq blocks' \cup risked',
         blocks' \subseteq live' \cup leaked'
  PROVE  BkvInv'
<1>1. /\ pc'[w] = "idle" /\ loaded'[w] = {} /\ pages'[w] = {}
      /\ created'[w] = {} /\ ~flag'[w]
  BY DEF Forget, TypeOK
<1>2. SessionInv(w)' /\ PutInv(w)' /\ TakeInv(w)'
  BY <1>1 DEF SessionInv, PutInv, TakeInv
<1> QED
  BY <1>2 DEF OneCommand, BkvInv

\* The tree is opened.
LEMMA OpenedInv ==
  ASSUME OneCommand, BkvInv, NEW w \in Writers, TypeOK', Open(w), risked' = risked
  PROVE  BkvInv'
<1> USE DEF engineVars, commitVars, writeVars, mutVars
<1>0. TypeOK /\ ShownInv /\ SessionInv(w) /\ PutInv(w) /\ TakeInv(w) /\ risked \subseteq live
  BY DEF BkvInv
<1>1. /\ pc[w] = "idle" /\ pc'[w] = "editing" /\ base'[w] = root /\ baseTree'[w] = live
      /\ UNCHANGED <<blocks, kids, ctr, root, live, leaked, loaded, pages, newRoot,
                     newTree, pending, created, obsolete, success, flag>>
  BY <1>0 DEF Open, TypeOK
<1>2. ShownInv'
  BY <1>0, <1>1, SameShown DEF ShownInv
<1>3. SessionInv(w)' /\ PutInv(w)' /\ TakeInv(w)'
  BY <1>0, <1>1 DEF SessionInv, PutInv, TakeInv, Taken
<1> QED
  BY <1>0, <1>1, <1>2, <1>3 DEF OneCommand, BkvInv

\* Pages are loaded from the root down.
LEMMA LoadedInv ==
  ASSUME OneCommand, BkvInv, NEW w \in Writers, TypeOK', Load(w), risked' = risked
  PROVE  BkvInv'
<1> USE DEF engineVars, commitVars, writeVars, mutVars
<1>0. TypeOK /\ ShownInv /\ SessionInv(w) /\ PutInv(w) /\ TakeInv(w) /\ risked \subseteq live
  BY DEF BkvInv
<1>1. PICK b \in Loadable(w) : LoadPage(w, b)
  BY DEF Load
<1>2. /\ pc[w] = "editing" /\ loaded'[w] = loaded[w] \cup {b}
      /\ UNCHANGED <<blocks, kids, ctr, root, live, leaked, pc, base, baseTree, pages,
                     newRoot, newTree, pending, created, obsolete, success, flag>>
  BY <1>0, <1>1 DEF LoadPage, TypeOK
<1>3. b \in live /\ (b = root \/ \E p \in loaded[w] : b \in kids[p])
  <2>1. CASE loaded[w] = {}
    BY <1>0, <1>2, <2>1 DEF Loadable, SessionInv, ShownInv, Topped
  <2>2. CASE loaded[w] # {}
    BY <1>0, <2>2 DEF Loadable, Frontier, SessionInv, ShownInv, Topped, Closed
  <2> QED BY <2>1, <2>2
<1>4. SessionInv(w)'
  BY <1>0, <1>2, <1>3 DEF SessionInv
<1>5. ShownInv'
  BY <1>0, <1>2, SameShown DEF ShownInv
<1>6. PutInv(w)' /\ TakeInv(w)'
  BY <1>0, <1>2 DEF PutInv, TakeInv, Taken
<1> QED
  BY <1>0, <1>2, <1>4, <1>5, <1>6 DEF OneCommand, BkvInv

\* A tree that is opened and only in part loaded: pages that are not loaded, with
\* the shared ones, refer to no others.
LEMMA UnloadedClosed ==
  ASSUME TypeOK, ShownInv, NEW w \in Writers, SessionInv(w),
         NEW U, U = (live \ loaded[w]) \cup Shared(live)
  PROVE  /\ U \in SUBSET Ids /\ U \subseteq live /\ Closed(U)
         /\ \A unloaded \in Unloaded(w) : unloaded \subseteq U
<1> DEFINE Ends(S) == {b \in Ids : \E x, y \in S : x # y /\ b \in kids[x] \cap kids[y]}
<1>0. live \subseteq Ids /\ loaded[w] \subseteq live /\ kids \in [Ids -> SUBSET Ids]
  BY DEF TypeOK, SessionInv
<1>1. Closed(live)
  BY DEF ShownInv, Topped
<1>2. \A S : Ends(S) \in SUBSET Ids /\ Shared(S) = Reach(Ends(S))
  BY DEF Shared
<1>3. \A S : Ends(S) \subseteq Shared(S) /\ Closed(Shared(S))
  BY <1>0, <1>2, ReachClosed
<1>4. Shared(live) \subseteq live
  <2>1. Ends(live) \subseteq live
    BY <1>0, <1>1 DEF Closed
  <2> QED
    BY <1>0, <1>1, <1>2, <2>1, ReachMinimal
<1>5. Shared(loaded[w]) \subseteq Shared(live)
  <2>1. Ends(loaded[w]) \subseteq Ends(live)
    BY <1>0
  <2>2. Ends(loaded[w]) \subseteq Shared(live) /\ Shared(live) \in SUBSET Ids
    BY <1>0, <1>3, <1>4, <2>1
  <2>3. PICK E : E = Ends(loaded[w])
    OBVIOUS
  <2>4. E \subseteq Shared(live) /\ Closed(Shared(live)) /\ Shared(loaded[w]) = Reach(E)
    BY <1>2, <1>3, <2>2, <2>3
  <2> QED
    BY ONLY <2>2, <2>4, ReachMinimal
<1>6. ASSUME NEW x \in live \ loaded[w], NEW y \in kids[x], y \in loaded[w]
      PROVE  y \in Shared(live)
  <2>1. y < x /\ x \in Int /\ y \in Int /\ y \in Ids
    BY <1>0, <1>6, ConstantsAssumption DEF ShownInv, Ids
  <2>2. y # root
    BY <1>0, <1>6, <2>1, NoneAssumption DEF ShownInv, Topped
  <2>3. PICK p \in loaded[w] : y \in kids[p]
    BY <1>6, <2>2 DEF SessionInv
  <2>4. y \in Ends(live)
    BY <1>0, <1>6, <2>1, <2>3
  <2> QED
    BY <1>3, <2>4
<1>7. U \in SUBSET Ids /\ U \subseteq live
  BY <1>0, <1>4
<1>8. ASSUME NEW x \in U, NEW y \in kids[x] PROVE y \in U
  <2>1. CASE x \in Shared(live)
    BY <1>3, <1>8, <2>1 DEF Closed
  <2>2. CASE x \notin Shared(live)
    <3>1. x \in live \ loaded[w]
      BY <2>2
    <3>2. y \in live
      BY <1>1, <1>8, <3>1 DEF Closed
    <3> QED
      BY <1>6, <1>8, <3>1, <3>2
  <2> QED BY <2>1, <2>2
<1>9. Frontier(w) \subseteq live \ loaded[w]
  BY <1>0, <1>1 DEF Frontier, Closed
<1>10. ASSUME NEW unloaded \in Unloaded(w) PROVE unloaded \subseteq U
  <2>1. unloaded \subseteq Frontier(w) \cup Shared(loaded[w])
    BY DEF Unloaded
  <2> QED
    BY <1>5, <1>9, <2>1
<1> QED
  BY <1>7, <1>8, <1>10 DEF Closed

\* What write() serializes is a tree of new and of kept pages below its top.
LEMMA Serialized ==
  ASSUME TypeOK, TypeOK', ShownInv, NEW w \in Writers, NEW n \in 0..MaxNew,
         NEW N \in SUBSET IdsFor(ctr..(ctr + n - 1)), NEW kept \in SUBSET Ids,
         NEW top \in N, Serialize(w, n, N, kept, top), Reach(kept) \subseteq live
  PROVE  /\ N \subseteq Issued' /\ Issued \subseteq Issued' /\ top # None
         /\ \A x \in Issued : kids'[x] = kids[x]
         /\ \A b \in Ids : \A y \in kids'[b] : y < b
         /\ Topped(newTree[w], newRoot[w])'
         /\ newTree'[w] = N \cup Reach(kept)
<1>1. PICK below \in Layouts(w, N, kept, top) :
        /\ \A x \in N : x < ctr => below[x] = kids[x]
        /\ kids' = [b \in Ids |-> IF b \in N THEN below[b] ELSE kids[b]]
  BY DEF Serialize
<1>2. /\ \A x \in N : below[x] \subseteq (N \ {top}) \cup kept
      /\ \A x \in N : \A y \in below[x] : y < x
      /\ \A y \in (N \ {top}) \cup kept : \E x \in N : y \in below[x]
  BY <1>1, LayoutIs
<1>3. /\ newTree'[w] = N \cup Reach(kept) /\ newRoot'[w] = top /\ ctr' = ctr + n
      /\ \A x \in N : x <= top
      /\ ctr + n - 1 <= MaxId
  BY DEF Serialize, TypeOK
<1>4. ctr \in Int /\ n \in Int /\ n >= 0 /\ MaxId \in Int
  BY ConstantsAssumption DEF TypeOK
<1>5. N \subseteq Issued' /\ Issued \subseteq Issued' /\ N \subseteq Ids
  <2>1. ASSUME NEW x \in N PROVE x \in Int /\ x >= 0 /\ x < ctr + n /\ x <= MaxId
    <3>1. ctr >= 0 /\ ctr + n - 1 <= MaxId /\ ctr - 1 <= MaxId
      BY <1>3, <1>4, ConstantsAssumption DEF TypeOK
    <3>2. x \in ctr..(ctr + n - 1) \/ x \in 0..(ctr - 1)
      BY DEF IdsFor
    <3> QED
      BY <1>4, <3>1, <3>2
  <2> QED
    BY <1>3, <1>4, <2>1, ConstantsAssumption DEF Issued, Ids
<1>6. top # None
  BY <1>5, NoneAssumption
<1>7. \A x \in Issued : kids'[x] = kids[x]
  BY <1>1 DEF Issued
<1>8. \A b \in Ids : \A y \in kids'[b] : y < b
  BY <1>1, <1>2 DEF ShownInv
<1>9. kept \subseteq Reach(kept) /\ Closed(Reach(kept)) /\ Reach(kept) \subseteq Ids
  BY ReachClosed DEF TypeOK, Reach
<1>10. live \subseteq Issued
  BY DEF ShownInv
<1>11. ASSUME NEW x \in N \cup Reach(kept) PROVE kids'[x] \subseteq N \cup Reach(kept)
  <2>1. CASE x \in N
    BY <1>1, <1>2, <1>5, <1>9, <2>1
  <2>2. CASE x \notin N
    BY <1>7, <1>9, <1>10, <1>11, <2>2 DEF Closed
  <2> QED BY <2>1, <2>2
<1>12. ASSUME NEW x \in N \cup Reach(kept) PROVE x <= top
  <2> DEFINE T == {y \in Ids : y <= top}
  <2>1. top \in Int /\ \A y \in Ids : y \in Int
    BY <1>5, ConstantsAssumption DEF Ids
  <2>2. Closed(T)
    BY <2>1 DEF Closed, ShownInv, TypeOK
  <2>3. kept \subseteq T
    <3> SUFFICES ASSUME NEW y \in kept PROVE y <= top
      OBVIOUS
    <3>1. PICK z \in N : y \in below[z]
      BY <1>2
    <3>2. y < z /\ z <= top /\ z \in Int /\ y \in Int
      BY <1>2, <1>3, <1>5, <2>1, <3>1
    <3> QED
      BY <2>1, <3>2
  <2>4. Reach(kept) \subseteq T
    BY <2>2, <2>3, ReachMinimal
  <2> QED
    BY <1>3, <2>4
<1>13. Topped(newTree[w], newRoot[w])'
  BY <1>3, <1>6, <1>11, <1>12 DEF Topped, Closed
<1> QED
  BY <1>3, <1>5, <1>6, <1>7, <1>8, <1>13

\* Pages of a closed set that keep their references stay shared.
LEMMA StillShared ==
  ASSUME TypeOK, TypeOK', NEW S \in SUBSET Ids, Closed(S),
         \A x \in S : kids'[x] = kids[x]
  PROVE  Shared(S)' = Shared(S)
<1> DEFINE Ends == {b \in Ids : \E x, y \in S : x # y /\ b \in kids[x] \cap kids[y]}
<1>1. Ends \in SUBSET Ids /\ Ends \subseteq S
  BY DEF Closed
<1>2. Shared(S) = Reach(Ends)
  BY DEF Shared
<1>3. Shared(S)' = Reach(Ends)'
  BY DEF Shared, Reach, Closed
<1>4. \A x \in Reach(Ends) : kids'[x] = kids[x]
  BY <1>1, ReachMinimal
<1>5. Ends' = Ends
  OBVIOUS
<1>6. PICK E \in SUBSET Ids : E = Ends
  BY <1>1
<1>7. Reach(E)' = Reach(E)
  BY <1>4, <1>6, ReachSame
<1>8. Reach(Ends)' = Reach(E)'
  BY <1>5, <1>6 DEF Reach, Closed
<1> QED
  BY <1>2, <1>3, <1>6, <1>7, <1>8

\* The new tree is above pages that are not loaded, and among them are loaded ones
\* only as twins.
LEMMA WrittenInv ==
  ASSUME OneCommand, BkvInv, NEW w \in Writers, TypeOK', BeginWrite(w), risked' = risked
  PROVE  BkvInv'
<1> USE DEF commitVars, editVars, mutVars
<1>0. TypeOK /\ ShownInv /\ SessionInv(w) /\ PutInv(w) /\ TakeInv(w) /\ risked \subseteq live
  BY DEF BkvInv
<1>1. PICK n \in 0..MaxNew :
        \E N \in SUBSET IdsFor(ctr..(ctr + n - 1)), kept \in SUBSET Ids :
          /\ \E unloaded \in Unloaded(w) : kept \subseteq unloaded
          /\ \E top \in N : Serialize(w, n, N, kept, top)
  BY <1>0, BeginWriteParts
<1>2. PICK N \in SUBSET IdsFor(ctr..(ctr + n - 1)), kept \in SUBSET Ids :
        /\ \E unloaded \in Unloaded(w) : kept \subseteq unloaded
        /\ \E top \in N : Serialize(w, n, N, kept, top)
  BY <1>1
<1>3. PICK top \in N : Serialize(w, n, N, kept, top)
  BY <1>2
<1>4. /\ pc[w] = "editing" /\ pc'[w] = "putting"
      /\ pages'[w] = N /\ pending'[w] = N /\ newRoot'[w] = top
      /\ newTree'[w] = N \cup Reach(kept)
      /\ UNCHANGED <<blocks, root, live, leaked, base, baseTree, loaded, created,
                     obsolete, success, flag>>
  BY <1>0, <1>3 DEF BeginWrite, Serialize, TypeOK
<1>5. PICK U : U = (live \ loaded[w]) \cup Shared(live)
  OBVIOUS
<1>6. U \in SUBSET Ids /\ U \subseteq live /\ Closed(U) /\ kept \subseteq U
  BY <1>0, <1>2, <1>5, UnloadedClosed
<1>7. Reach(kept) \subseteq U
  BY <1>6, ReachMinimal
<1>8. /\ N \subseteq Issued' /\ Issued \subseteq Issued' /\ newRoot'[w] # None
      /\ \A x \in Issued : kids'[x] = kids[x]
      /\ \A b \in Ids : \A y \in kids'[b] : y < b
      /\ Topped(newTree[w], newRoot[w])'
  <2>1. Reach(kept) \subseteq live
    BY <1>6, <1>7
  <2>2. /\ N \subseteq Issued' /\ Issued \subseteq Issued' /\ top # None
        /\ \A x \in Issued : kids'[x] = kids[x]
        /\ \A b \in Ids : \A y \in kids'[b] : y < b
        /\ Topped(newTree[w], newRoot[w])'
    BY ONLY <1>0, TypeOK', <1>3, <2>1, Serialized
  <2> QED
    BY <1>4, <2>2
<1>9. live \subseteq Issued /\ blocks \subseteq Issued /\ Topped(live, root)
  BY <1>0 DEF ShownInv
<1>10. ShownInv'
  BY <1>4, <1>8, <1>9 DEF ShownInv, Topped, Closed
<1>11. SessionInv(w)'
  BY <1>0, <1>4, <1>8, <1>9 DEF SessionInv
<1>12. loaded[w] \cap newTree'[w] \subseteq Twins(w)'
  <2>1. baseTree'[w] = live /\ loaded[w] \subseteq live
    BY <1>0, <1>4 DEF SessionInv
  <2>2. loaded[w] \cap newTree'[w] \subseteq (N \cap live) \cup (loaded[w] \cap Shared(live))
    BY <1>4, <1>5, <1>7, <2>1
  <2>3. PICK S \in SUBSET Ids : S = live
    BY <1>0 DEF TypeOK
  <2>4. Shared(S)' = Shared(S)
    BY <1>0, <1>8, <1>9, <2>3, StillShared DEF Topped
  <2>5. Shared(baseTree[w])' = Shared(S)'
    BY <2>1, <2>3 DEF Shared, Reach, Closed
  <2>6. Twins(w)' = (N \cap live) \cup (loaded[w] \cap Shared(S))
    BY <1>4, <2>1, <2>4, <2>5 DEF Twins
  <2> QED
    BY <2>2, <2>3, <2>6
<1>13. PutInv(w)'
  <2>1. newTree'[w] \subseteq N \cup live /\ newTree'[w] \subseteq Issued'
    BY <1>4, <1>6, <1>7, <1>8, <1>9
  <2> QED
    BY <1>0, <1>4, <1>8, <1>12, <2>1 DEF PutInv
<1>14. TakeInv(w)'
  BY <1>0, <1>4 DEF TakeInv, Taken
<1> QED
  BY <1>0, <1>4, <1>10, <1>11, <1>13, <1>14 DEF OneCommand, BkvInv

\* A block that was put is of the new tree, and listed or lost.
LEMMA PutDoneInv ==
  ASSUME OneCommand, BkvInv, NEW w \in Writers, TypeOK', PutOne(w) \/ PutFails(w),
         risked' = risked
  PROVE  BkvInv'
<1> USE DEF commitVars, editVars, writeVars, mutVars
<1>0. TypeOK /\ ShownInv /\ SessionInv(w) /\ PutInv(w) /\ TakeInv(w) /\ risked \subseteq live
  BY DEF BkvInv
<1>1. /\ pc[w] = "putting" /\ pending'[w] \subseteq pending[w]
      /\ UNCHANGED <<kids, ctr, root, live, pc, base, baseTree, loaded, pages, newRoot,
                     newTree, obsolete, success, flag>>
  BY <1>0 DEF PutOne, PutFails, TypeOK
<1>2. PICK b \in pending[w] :
        \/ /\ blocks' = blocks \cup {b} /\ leaked' = leaked
           /\ created'[w] = created[w] \cup {b}
        \/ /\ created' = created /\ blocks' = blocks /\ leaked' = leaked
        \/ /\ created' = created /\ blocks' = blocks \cup {b}
           /\ leaked' = leaked \cup {b}
  BY <1>0 DEF PutOne, PutFails, TypeOK
<1>3. b \in pages[w] /\ b \in Issued
  BY <1>0, <1>1, <1>2 DEF PutInv
<1>4. ShownInv'
  <2>1. blocks' \subseteq Issued
    BY <1>0, <1>2, <1>3 DEF ShownInv
  <2> QED
    BY <1>0, <1>1, <2>1, SameShown
<1>5. Twins(w)' = Twins(w) /\ Issued' = Issued
  BY <1>1, SameTwins DEF Issued
<1>6. Topped(newTree[w], newRoot[w])'
  BY <1>0, <1>1 DEF PutInv, Topped, Closed
<1>7. SessionInv(w)'
  BY <1>0, <1>1 DEF SessionInv
<1>8. PutInv(w)'
  BY <1>0, <1>1, <1>2, <1>3, <1>5, <1>6 DEF PutInv
<1>9. TakeInv(w)'
  BY <1>0, <1>1, <1>2 DEF TakeInv, Taken
<1> QED
  BY <1>0, <1>1, <1>4, <1>7, <1>8, <1>9 DEF OneCommand, BkvInv

\* The mutation lists the loaded pages, and is a success if all pages were put.
LEMMA CollectedInv ==
  ASSUME OneCommand, BkvInv, NEW w \in Writers, TypeOK', Collect(w), risked' = risked
  PROVE  BkvInv'
<1> USE DEF engineVars, commitVars, editVars, writeVars
<1>0. TypeOK /\ ShownInv /\ SessionInv(w) /\ PutInv(w) /\ TakeInv(w) /\ risked \subseteq live
  BY DEF BkvInv
<1>1. /\ pc[w] = "putting" /\ pc'[w] = "written"
      /\ obsolete'[w] = loaded[w] /\ success'[w] = (created[w] = pages[w])
      /\ UNCHANGED <<blocks, kids, ctr, root, live, leaked, base, baseTree, loaded,
                     pages, newRoot, newTree, pending, created, flag>>
  BY <1>0 DEF Collect, CollectAs, TypeOK
<1>2. ShownInv'
  BY <1>0, <1>1, SameShown DEF ShownInv
<1>3. Twins(w)' = Twins(w) /\ Issued' = Issued
  BY <1>1, SameTwins DEF Issued
<1>4. Topped(newTree[w], newRoot[w])'
  BY <1>0, <1>1 DEF PutInv, Topped, Closed
<1>5. SessionInv(w)' /\ TakeInv(w)'
  BY <1>0, <1>1 DEF SessionInv, TakeInv, Taken
<1>6. PutInv(w)'
  BY <1>0, <1>1, <1>3, <1>4 DEF PutInv
<1> QED
  BY <1>0, <1>1, <1>2, <1>5, <1>6 DEF OneCommand, BkvInv

\* finish is called, whatever the success of the mutation: what it may take from
\* either tree is at risk.
LEMMA FinishCalled ==
  ASSUME OneCommand, BkvInv, NEW w \in Writers, TypeOK', Finish(w)
  PROVE  BkvInv'
<1> USE DEF engineVars, commitVars, editVars, writeVars
<1>0. TypeOK /\ ShownInv /\ SessionInv(w) /\ PutInv(w) /\ TakeInv(w) /\ risked \subseteq live
  BY DEF BkvInv
<1>1. /\ pc[w] = "written" /\ pc'[w] = "finishing" /\ flag'[w]
      /\ risked' = (risked \ created[w]) \cup Twins(w)
      /\ UNCHANGED <<blocks, kids, ctr, root, live, leaked, base, baseTree, loaded,
                     pages, newRoot, newTree, pending, created, obsolete, success>>
  BY <1>0 DEF Finish, TypeOK
<1>2. ShownInv'
  BY <1>0, <1>1, SameShown DEF ShownInv
<1>3. Twins(w)' = Twins(w) /\ Issued' = Issued
  BY <1>1, SameTwins DEF Issued
<1>4. Topped(newTree[w], newRoot[w])'
  BY <1>0, <1>1 DEF PutInv, Topped, Closed
<1>5. Twins(w) \subseteq live
  BY <1>0, <1>1 DEF SessionInv, Twins
<1>6. live \subseteq blocks \cup risked /\ created[w] \subseteq blocks
  BY <1>0, <1>1 DEF PutInv, TakeInv, Taken
<1>7. SessionInv(w)' /\ PutInv(w)'
  BY <1>0, <1>1, <1>3, <1>4 DEF SessionInv, PutInv
<1>8. success[w] => newTree[w] \subseteq blocks \cup risked'
  BY <1>0, <1>1, <1>6 DEF PutInv
<1>9. TakeInv(w)'
  BY <1>0, <1>1, <1>3, <1>6, <1>8 DEF TakeInv, Taken
<1> QED
  BY <1>0, <1>1, <1>2, <1>5, <1>7, <1>9 DEF OneCommand, BkvInv

\* Every deleted block is at risk, or of the one tree that is being taken away.
LEMMA DeletingInv ==
  ASSUME OneCommand, BkvInv, NEW w \in Writers, TypeOK',
         BeginFinish(w) \/ DelOne(w) \/ DelFails(w), risked' = risked
  PROVE  BkvInv'
<1> USE DEF engineVars, commitVars, editVars, writeVars, mutVars
<1>0. TypeOK /\ ShownInv /\ SessionInv(w) /\ PutInv(w) /\ TakeInv(w) /\ risked \subseteq live
  BY DEF BkvInv
<1>1. /\ pc[w] \in {"finishing", "deleting"} /\ pc'[w] = "deleting"
      /\ blocks' \subseteq blocks /\ leaked \subseteq leaked'
      /\ UNCHANGED <<kids, ctr, root, live, base, baseTree, loaded, pages, newRoot,
                     newTree, created, obsolete, success, flag>>
  BY <1>0 DEF BeginFinish, DelOne, DelFails, TypeOK
<1>2. DeleteList(w)' = DeleteList(w)
  BY <1>1 DEF DeleteList
<1>3. /\ pending'[w] \subseteq DeleteList(w)
      /\ \A b \in blocks \ blocks' : b \in DeleteList(w)
  BY <1>0 DEF TakeInv, BeginFinish, DelOne, DelFails, TypeOK
<1>4. /\ flag[w] /\ Twins(w) \subseteq risked
      /\ success[w] => newTree[w] \subseteq blocks \cup risked
      /\ live \subseteq blocks \cup risked \cup Taken(w)
      /\ blocks \subseteq live \cup leaked \cup created[w]
  BY <1>0, <1>1 DEF TakeInv
<1>5. /\ base[w] = root /\ baseTree[w] = live
      /\ loaded[w] \cap newTree[w] \subseteq Twins(w) /\ created[w] \subseteq pages[w]
      /\ obsolete[w] = loaded[w]
  BY <1>0, <1>1 DEF SessionInv, PutInv
<1>6. ShownInv'
  <2>1. blocks' \subseteq Issued
    BY <1>0, <1>1 DEF ShownInv
  <2> QED
    BY <1>0, <1>1, <2>1, SameShown
<1>7. Twins(w)' = Twins(w) /\ Issued' = Issued
  BY <1>1, SameTwins DEF Issued
<1>8. Topped(newTree[w], newRoot[w])'
  BY <1>0, <1>1 DEF PutInv, Topped, Closed
<1>9. SessionInv(w)' /\ PutInv(w)'
  BY <1>0, <1>1, <1>7, <1>8 DEF SessionInv, PutInv
<1>10. /\ success[w] => newTree[w] \subseteq blocks' \cup risked
       /\ live \subseteq blocks' \cup risked \cup Taken(w)'
  <2>1. CASE success[w]
    <3>1. DeleteList(w) = loaded[w] /\ Taken(w)' = loaded[w]
      BY <1>1, <1>4, <1>5, <2>1 DEF DeleteList, Taken
    <3>2. Taken(w) \subseteq loaded[w]
      BY <1>5 DEF Taken
    <3> QED
      BY <1>3, <1>4, <1>5, <3>1, <3>2
  <2>2. CASE ~success[w]
    <3>1. DeleteList(w) = created[w] /\ Taken(w) = {}
      BY <1>4, <2>2 DEF DeleteList, Taken
    <3>2. created[w] \cap live \subseteq risked
      BY <1>4, <1>5 DEF Twins
    <3> QED
      BY <1>3, <1>4, <2>2, <3>1, <3>2
  <2> QED BY <2>1, <2>2
<1>11. TakeInv(w)'
  BY <1>1, <1>2, <1>3, <1>4, <1>7, <1>10 DEF TakeInv
<1> QED
  BY <1>0, <1>1, <1>6, <1>9, <1>11 DEF OneCommand, BkvInv

\* However a command ends, the tree that its user keeps is stored but for the
\* pages at risk, and what is not of it is accounted for.
LEMMA EndedInv ==
  ASSUME OneCommand, BkvInv, NEW w \in Writers, TypeOK',
         \/ (LoadFails(w) \/ Close(w)) /\ risked' = risked
         \/ Show(w) \/ Complain(w) \/ Kill(w)
  PROVE  BkvInv'
<1> USE DEF engineVars, commitVars
<1>0. TypeOK /\ ShownInv /\ SessionInv(w) /\ PutInv(w) /\ TakeInv(w) /\ risked \subseteq live
  BY DEF BkvInv
<1>1. Forget(w) /\ UNCHANGED engineVars /\ Issued' = Issued
  BY DEF LoadFails, Close, Show, PrintRoot, Complain, Kill, Finished, Issued
<1>2. /\ live \subseteq blocks \cup risked \cup Taken(w)
      /\ blocks \subseteq live \cup leaked \cup created[w] /\ blocks \subseteq Issued
  BY <1>0 DEF TakeInv, ShownInv
<1>3. live' = live /\ root' = root => ShownInv'
  BY <1>0, <1>1, <1>2, SameShown
<1>4. CASE (LoadFails(w) \/ Close(w)) /\ risked' = risked
  <2>1. /\ live' = live /\ root' = root /\ leaked' = leaked /\ pc[w] = "editing"
        /\ created[w] = {} /\ Taken(w) = {}
    BY <1>0, <1>4 DEF LoadFails, Close, PutInv, Taken
  <2> QED
    BY <1>0, <1>1, <1>2, <1>3, <1>4, <2>1, ForgottenInv
<1>5. CASE Complain(w)
  <2>1. /\ live' = live /\ root' = root /\ risked' = risked /\ Taken(w) = {}
        /\ leaked' = ((leaked \cup created[w]) \cap blocks) \ live
    BY <1>5 DEF Complain, DeleteList, Taken
  <2> QED
    BY <1>0, <1>1, <1>2, <1>3, <2>1, ForgottenInv
<1>6. CASE Kill(w)
  <2>1. /\ live' = live /\ root' = root /\ risked' = risked \cup Taken(w)
        /\ leaked' = ((leaked \cup pages[w]) \cap blocks) \ live
    BY <1>6 DEF Kill
  <2>2. created[w] \subseteq pages[w]
    BY <1>0 DEF PutInv
  <2>3. Taken(w) \subseteq live
    BY <1>0 DEF SessionInv, PutInv, Taken
  <2> QED
    BY <1>0, <1>1, <1>2, <1>3, <2>1, <2>2, <2>3, ForgottenInv
<1>7. CASE Show(w)
  <2>1. /\ pc[w] = "deleting" /\ success[w] /\ flag[w]
        /\ newTree[w] \subseteq blocks \cup risked
    BY <1>0, <1>7 DEF Show, PrintRoot, Finished, TakeInv
  <2>2. /\ created[w] \subseteq newTree[w] /\ obsolete[w] = loaded[w]
        /\ newTree[w] \subseteq Issued /\ Topped(newTree[w], newRoot[w])
        /\ baseTree[w] = live
    BY <1>0, <2>1 DEF SessionInv, PutInv
  <2>3. /\ live' = newTree[w] /\ root' = newRoot[w] /\ risked' = risked \cap newTree[w]
        /\ leaked' = ((leaked \cup loaded[w] \cup (live \ loaded[w])) \cap blocks)
                     \ newTree[w]
    BY <1>7, <2>1, <2>2 DEF Show, PrintRoot, DeleteList
  <2>4. ShownInv'
    BY <1>0, <1>1, <1>2, <2>2, <2>3 DEF ShownInv, Topped, Closed
  <2>5. live' \subseteq blocks' \cup risked' /\ blocks' \subseteq live' \cup leaked'
    BY <1>1, <1>2, <2>1, <2>2, <2>3
  <2> QED
    BY <1>0, <1>1, <2>3, <2>4, <2>5, ForgottenInv
<1> QED BY <1>4, <1>5, <1>6, <1>7

-----------------------------------------------------------------------------
\* Every variable has its type.
LEMMA BkvTypeStep ==
  ASSUME TypeOK, [BkvNext]_bkvVars
  PROVE  TypeOK'
<1> USE DEF engineVars, commitVars, editVars, writeVars, mutVars, States
<1>1. CASE [Next]_vars
  BY <1>1, TypeStep
<1>2. ASSUME NEW w \in Writers, Finish(w) PROVE TypeOK'
  BY <1>2 DEF TypeOK, Finish
<1>3. ASSUME NEW w \in Writers, Show(w) \/ Complain(w) \/ Kill(w) PROVE TypeOK'
  <2>1. Forget(w) /\ UNCHANGED engineVars
    BY <1>3 DEF Show, PrintRoot, Complain, Kill, Finished
  <2>2. /\ root' \in Ids \cup {None} /\ live' \subseteq Ids /\ leaked' \subseteq Ids
    BY <1>3 DEF Show, PrintRoot, Complain, Kill, TypeOK
  <2> QED
    BY <2>1, <2>2, ForgetType DEF TypeOK
<1> QED
  BY <1>1, <1>2, <1>3 DEF BkvNext, Next, bkvVars

\* The invariant holds in every reachable state.
THEOREM BkvInvariant == ASSUME OneCommand PROVE BkvSpec => []BkvInv
<1>1. BkvInit => BkvInv
  <2> SUFFICES ASSUME BkvInit PROVE BkvInv
    OBVIOUS
  <2>1. TypeOK
    BY ConstantsAssumption DEF BkvInit, Init, TypeOK, Ids, States
  <2>2. ShownInv /\ risked \subseteq live
    BY DEF BkvInit, Init, ShownInv, Topped, Closed
  <2>3. \A w \in Writers : SessionInv(w) /\ PutInv(w) /\ TakeInv(w)
    BY DEF BkvInit, Init, SessionInv, PutInv, TakeInv
  <2> QED
    BY <2>1, <2>2, <2>3 DEF BkvInv
<1>2. BkvInv /\ [BkvNext]_bkvVars => BkvInv'
  <2> SUFFICES ASSUME BkvInv, [BkvNext]_bkvVars PROVE BkvInv'
    OBVIOUS
  <2>1. TypeOK'
    BY BkvTypeStep DEF BkvInv
  <2>2. CASE UNCHANGED bkvVars
    <3> USE DEF bkvVars, vars, engineVars, commitVars, editVars, writeVars, mutVars
    <3>1. ShownInv'
      BY <2>2, SameShown DEF BkvInv, ShownInv
    <3>2. ASSUME NEW w \in Writers PROVE SessionInv(w)' /\ PutInv(w)' /\ TakeInv(w)'
      <4>1. Twins(w)' = Twins(w)
        BY <2>2, SameTwins
      <4> QED
        BY <2>2, <4>1 DEF BkvInv, SessionInv, PutInv, TakeInv, Topped, Closed, Issued,
           DeleteList, Taken
    <3> QED
      BY <2>1, <2>2, <3>1, <3>2 DEF BkvInv
  <2> QED
    BY <2>1, <2>2, OpenedInv, LoadedInv, WrittenInv, PutDoneInv, CollectedInv,
       FinishCalled, DeletingInv, EndedInv DEF BkvNext
<1> QED
  BY <1>1, <1>2, PTL DEF BkvSpec

\* The pages of a root are in every set of pages that has it and refers to no
\* others.
LEMMA PagesWithin ==
  ASSUME NEW T \in SUBSET Ids, NEW r, Topped(T, r)
  PROVE  PagesOf(r) \subseteq T
<1>1. CASE r = None
  BY <1>1 DEF PagesOf
<1>2. CASE r # None
  <2>1. {r} \subseteq T /\ Closed(T)
    BY <1>2 DEF Topped
  <2> QED
    BY <1>2, <2>1, ReachMinimal DEF PagesOf
<1> QED BY <1>1, <1>2

\* A put that fails at any block, is refused, or is killed, has taken nothing from
\* the tree that was printed last but what is at risk (bkv.cpp:118-141).
THEOREM AlwaysShown == ASSUME OneCommand PROVE BkvSpec => []ShownReadable
<1>1. BkvInv => ShownReadable
  <2> SUFFICES ASSUME BkvInv, Idle PROVE PagesOf(root) \subseteq blocks \cup risked
    BY DEF ShownReadable
  <2>1. PICK w \in Writers : pc[w] = "idle" /\ TakeInv(w)
    BY DEF BkvInv, Idle, OneCommand
  <2>2. live \subseteq blocks \cup risked
    BY <2>1 DEF TakeInv, Taken
  <2>3. PagesOf(root) \subseteq live
    BY PagesWithin DEF BkvInv, ShownInv, TypeOK
  <2> QED BY <2>2, <2>3
<1> QED
  BY <1>1, BkvInvariant, PTL

\* While a command deletes, one of its two trees is complete, but for the pages at
\* risk: the one whose root it will print, if all of it was put (bkv.cpp:129).
THEOREM AlwaysOneTree == ASSUME OneCommand PROVE BkvSpec => []OneTreeStored
<1>1. BkvInv => OneTreeStored
  <2> SUFFICES ASSUME BkvInv, NEW w \in Writers, pc[w] \in {"finishing", "deleting"}
               PROVE  PagesOf(IF success[w] THEN newRoot[w] ELSE root)
                        \subseteq blocks \cup risked
    BY DEF OneTreeStored
  <2>1. CASE success[w]
    <3>1. newTree[w] \subseteq blocks \cup risked
      BY <2>1 DEF BkvInv, TakeInv
    <3>2. newTree[w] \in SUBSET Ids /\ Topped(newTree[w], newRoot[w])
      BY DEF BkvInv, PutInv, TypeOK
    <3>3. PagesOf(newRoot[w]) \subseteq newTree[w]
      BY <3>2, PagesWithin
    <3> QED BY <2>1, <3>1, <3>3
  <2>2. CASE ~success[w]
    <3>1. live \subseteq blocks \cup risked
      BY <2>2 DEF BkvInv, TakeInv, Taken
    <3>2. PagesOf(root) \subseteq live
      BY PagesWithin DEF BkvInv, ShownInv, TypeOK
    <3> QED BY <2>2, <3>1, <3>2
  <2> QED BY <2>1, <2>2
<1> QED
  BY <1>1, BkvInvariant, PTL

\* Between commands every block is of the printed tree or was left over by a
\* failing put or delete, a dropped branch or a kill: a put that is refused takes
\* back all that it had put (bkv.cpp:129).
THEOREM AlwaysExplained == ASSUME OneCommand PROVE BkvSpec => []LeftoversExplained
<1>1. BkvInv => LeftoversExplained
  <2> SUFFICES ASSUME BkvInv, Idle PROVE blocks \subseteq live \cup leaked
    BY DEF LeftoversExplained
  <2>1. PICK w \in Writers : pc[w] = "idle" /\ TakeInv(w) /\ PutInv(w)
    BY DEF BkvInv, Idle, OneCommand
  <2> QED
    BY <2>1 DEF TakeInv, PutInv
<1> QED
  BY <1>1, BkvInvariant, PTL
=============================================================================
