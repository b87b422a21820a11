---------------------------- MODULE CommitProofs ----------------------------
(***************************************************************************)
(* Commit, proved for every number of sessions and pages: the variables    *)
(* have their types, and with identifiers that are never reused and a      *)
(* del_all that does not throw, the committed tree is always readable, a   *)
(* session sees a stable snapshot, and a commit only extends its base.  No *)
(* block is forgotten, a write reports exactly what it has replaced, and   *)
(* an engine that loses nothing holds the committed tree alone once no     *)
(* session is open.                                                        *)
(*                                                                         *)
(* What a write replaces rests on what can be reached in a graph of pages  *)
(* of any size, which needs induction: it enters as the largest identifier *)
(* of a set, from the library's fact that < is well-founded on the natural *)
(* numbers.                                                                *)
(***************************************************************************)
EXTENDS Commit, WellFoundedInduction, TLAPS

-----------------------------------------------------------------------------
(* Types *)

\* Resetting a session keeps the types of all its variables.
LEMMA ForgetType ==
  ASSUME TypeOK, NEW w \in Writers, Forget(w)
  PROVE  /\ pc' \in [Writers -> States]
         /\ base' \in [Writers -> Ids \cup {None}]
         /\ baseTree' \in [Writers -> SUBSET Ids]
         /\ loaded' \in [Writers -> SUBSET Ids]
         /\ pages' \in [Writers -> SUBSET Ids]
         /\ pending' \in [Writers -> SUBSET Ids]
         /\ done' \in [Writers -> SUBSET Ids]
         /\ created' \in [Writers -> SUBSET Ids]
         /\ obsolete' \in [Writers -> SUBSET Ids]
         /\ newRoot' \in [Writers -> Ids \cup {None}]
         /\ newTree' \in [Writers -> SUBSET Ids]
         /\ success' \in [Writers -> BOOLEAN]
         /\ flag' \in [Writers -> BOOLEAN]
  BY DEF TypeOK, Forget, States

\* The pages a session is responsible for are identifiers.
LEMMA OwnedType ==
  ASSUME TypeOK, NEW w \in Writers
  PROVE  DeleteList(w) \subseteq Ids /\ Owned(w) \subseteq Ids
  BY DEF TypeOK, DeleteList, Owned

\* A layout refers from each new page to others and to kept pages, all below it,
\* and from some new page to each of them.
LEMMA LayoutIs ==
  ASSUME NEW w, NEW N, NEW kept, NEW top, NEW below \in Layouts(w, N, kept, top)
  PROVE  /\ below = [x \in N |-> below[x]]
         /\ \A x \in N : below[x] \subseteq (N \ {top}) \cup kept
         /\ \A x \in N : \A y \in below[x] : y < x
         /\ \A y \in (N \ {top}) \cup kept : \E x \in N : y \in below[x]
<1> DEFINE others == (N \ {top}) \cup kept
<1>1. PICK ps \in [others -> ParentSets(N)] :
        /\ \A y \in others : \A x \in ps[y] : y < x
        /\ below = [x \in N |-> {y \in others : x \in ps[y]}]
  BY DEF Layouts
<1>2. ASSUME NEW y \in others PROVE ps[y] \subseteq N /\ ps[y] # {}
  <2>1. ps[y] \in ParentSets(N)
    BY <1>1
  <2>2. CASE ContentAddressed
    BY <2>1, <2>2 DEF ParentSets
  <2>3. CASE ~ContentAddressed
    BY <2>1, <2>3 DEF ParentSets
  <2> QED BY <2>2, <2>3
<1>3. below = [x \in N |-> below[x]]
  BY <1>1
<1>4. \A x \in N : below[x] = {y \in others : x \in ps[y]}
  BY <1>1
<1>5. ASSUME NEW y \in others PROVE \E x \in N : y \in below[x]
  BY <1>2, <1>4
<1> QED
  BY <1>1, <1>3, <1>4, <1>5

\* Without hashes every page but the top has one parent.
SerializeTree(w, n, N, kept, top) ==
  /\ ctr + n - 1 <= MaxId
  /\ ctr..(ctr + n - 1) \subseteq N
  /\ N \cap kept = {}
  /\ \E parent \in [(N \ {top}) \cup kept -> N] :
       /\ \A y \in N \ {top} : y < parent[y]
       /\ kids' = [b \in Ids |-> IF b \in N
                    THEN {y \in (N \ {top}) \cup kept : parent[y] = b}
                    ELSE kids[b]]
  /\ ctr' = ctr + n
  /\ pages' = [pages EXCEPT ![w] = N]
  /\ pending' = [pending EXCEPT ![w] = N]
  /\ newRoot' = [newRoot EXCEPT ![w] = top]
  /\ newTree' = [newTree EXCEPT ![w] = N \cup Reach(kept)]

\* Then what is serialized is a tree.
LEMMA SerializeOnce ==
  ASSUME ~ContentAddressed, NEW w, NEW n, NEW N, NEW kept, NEW top,
         Serialize(w, n, N, kept, top)
  PROVE  SerializeTree(w, n, N, kept, top)
<1> DEFINE others == (N \ {top}) \cup kept
<1>1. PICK below \in Layouts(w, N, kept, top) :
        kids' = [b \in Ids |-> IF b \in N THEN below[b] ELSE kids[b]]
  BY DEF Serialize
<1>2. PICK ps \in [others -> ParentSets(N)] :
        /\ \A y \in others : \A x \in ps[y] : y < x
        /\ below = [x \in N |-> {y \in others : x \in ps[y]}]
  BY <1>1 DEF Layouts
<1>3. \A y \in others : \E x \in N : ps[y] = {x}
  BY <1>2 DEF ParentSets
<1>4. PICK parent \in [others -> N] : \A y \in others : ps[y] = {parent[y]}
  <2> DEFINE p == [y \in others |-> CHOOSE x \in N : ps[y] = {x}]
  <2>1. p \in [others -> N] /\ \A y \in others : ps[y] = {p[y]}
    BY <1>3
  <2> QED BY <2>1
<1>5. \A y \in others : y < parent[y]
  BY <1>2, <1>4
<1>6. \A x \in N : below[x] = {y \in others : parent[y] = x}
  BY <1>2, <1>4
<1>7. kids' = [b \in Ids |-> IF b \in N THEN {y \in others : parent[y] = b} ELSE kids[b]]
  BY <1>1, <1>6
<1> QED
  BY <1>5, <1>7 DEF Serialize, SerializeTree

\* write() serializes new pages above pages that it keeps; without hashes those
\* are all, or when branches are dropped some, of those that it may load.
LEMMA BeginWriteParts ==
  ASSUME TypeOK, NEW w \in Writers, BeginWrite(w)
  PROVE  \E n \in 0..MaxNew :
         \E N \in SUBSET IdsFor(ctr..(ctr + n - 1)), kept \in SUBSET Ids :
           /\ \E unloaded \in Unloaded(w) : kept \subseteq unloaded
           /\ ~ContentAddressed => /\ kept \in SUBSET Frontier(w)
                                   /\ "dropBranch" \notin Faults => kept = Frontier(w)
           /\ \E top \in N : Serialize(w, n, N, kept, top)
<1>1. PICK n \in 0..MaxNew : \E N \in SUBSET IdsFor(ctr..(ctr + n - 1)) :
        \E unloaded \in Unloaded(w) :
        \E kept \in IF "dropBranch" \in Faults THEN SUBSET unloaded ELSE {unloaded} :
        \E top \in N : Serialize(w, n, N, kept, top)
  BY DEF BeginWrite
<1>2. PICK N \in SUBSET IdsFor(ctr..(ctr + n - 1)), unloaded \in Unloaded(w) :
        \E kept \in IF "dropBranch" \in Faults THEN SUBSET unloaded ELSE {unloaded} :
        \E top \in N : Serialize(w, n, N, kept, top)
  BY <1>1
<1>a. PICK kept \in IF "dropBranch" \in Faults THEN SUBSET unloaded ELSE {unloaded} :
        \E top \in N : Serialize(w, n, N, kept, top)
  BY <1>2
<1>3. kept \subseteq unloaded /\ ("dropBranch" \notin Faults => kept = unloaded)
  OBVIOUS
<1>4. unloaded \subseteq Ids /\ (~ContentAddressed => unloaded = Frontier(w))
  BY DEF Unloaded, Frontier, TypeOK
<1> QED
  BY <1>a, <1>3, <1>4

\* What collectBlocksRec assigns has its type.
LEMMA SerializeType ==
  ASSUME TypeOK, NEW w \in Writers, NEW n \in 0..MaxNew,
         NEW N \in SUBSET IdsFor(ctr..(ctr + n - 1)),
         NEW kept \in SUBSET Ids, NEW top \in N,
         Serialize(w, n, N, kept, top)
  PROVE  /\ kids' \in [Ids -> SUBSET Ids]
         /\ ctr' \in 0..(MaxId + 1)
         /\ pages' \in [Writers -> SUBSET Ids]
         /\ pending' \in [Writers -> SUBSET Ids]
         /\ newRoot' \in [Writers -> Ids \cup {None}]
         /\ newTree' \in [Writers -> SUBSET Ids]
<1>1. N \subseteq Ids
  BY ConstantsAssumption DEF IdsFor, Ids, TypeOK, Serialize
<1>2. PICK below \in Layouts(w, N, kept, top) :
        kids' = [b \in Ids |-> IF b \in N THEN below[b] ELSE kids[b]]
  BY DEF Serialize
<1>3. kids' \in [Ids -> SUBSET Ids]
  <2>1. \A x \in N : below[x] \subseteq Ids
    BY <1>1, <1>2, LayoutIs
  <2> QED
    BY <1>2, <2>1 DEF TypeOK
<1>4. ctr' \in 0..(MaxId + 1)
  BY ConstantsAssumption DEF TypeOK, Serialize
<1>5. Reach(kept) \subseteq Ids
  BY DEF Reach
<1> QED
  BY <1>1, <1>3, <1>4, <1>5 DEF TypeOK, Serialize

\* write() keeps the types.
LEMMA BeginWriteType ==
  ASSUME TypeOK, NEW w \in Writers, BeginWrite(w)
  PROVE  TypeOK'
<1>1. PICK n \in 0..MaxNew : \E N \in SUBSET IdsFor(ctr..(ctr + n - 1)) :
        \E kept \in SUBSET Ids : \E top \in N : Serialize(w, n, N, kept, top)
  BY BeginWriteParts
<1>2. PICK N \in SUBSET IdsFor(ctr..(ctr + n - 1)), kept \in SUBSET Ids :
        \E top \in N : Serialize(w, n, N, kept, top)
  BY <1>1
<1>3. PICK top \in N : Serialize(w, n, N, kept, top)
  BY <1>2
<1>4. /\ kids' \in [Ids -> SUBSET Ids]
      /\ ctr' \in 0..(MaxId + 1)
      /\ pages' \in [Writers -> SUBSET Ids]
      /\ pending' \in [Writers -> SUBSET Ids]
      /\ newRoot' \in [Writers -> Ids \cup {None}]
      /\ newTree' \in [Writers -> SUBSET Ids]
  BY <1>3, SerializeType
<1> QED
  BY <1>4 DEF BeginWrite, TypeOK, States, commitVars, editVars, mutVars

\* No step of any session gives a variable a value of another type.
LEMMA TypeStep ==
  ASSUME TypeOK, [Next]_vars
  PROVE  TypeOK'
<1> USE DEF engineVars, commitVars, editVars, writeVars, mutVars, States
<1>1. CASE UNCHANGED vars
  BY <1>1 DEF TypeOK, vars
<1>2. ASSUME NEW w \in Writers, Open(w) PROVE TypeOK'
  BY <1>2 DEF TypeOK, Open
<1>3. ASSUME NEW w \in Writers, Load(w) PROVE TypeOK'
  BY <1>3 DEF TypeOK, Load, LoadPage
<1>4. ASSUME NEW w \in Writers, LoadFails(w) PROVE TypeOK'
  BY <1>4, ForgetType DEF TypeOK, LoadFails
<1>5. ASSUME NEW w \in Writers, Close(w) PROVE TypeOK'
  BY <1>5, ForgetType DEF TypeOK, Close
<1>6. ASSUME NEW w \in Writers, BeginWrite(w) PROVE TypeOK'
  BY <1>6, BeginWriteType
<1>7. ASSUME NEW w \in Writers, PutOne(w) PROVE TypeOK'
  BY <1>7 DEF TypeOK, PutOne
<1>8. ASSUME NEW w \in Writers, PutFails(w) PROVE TypeOK'
  BY <1>8 DEF TypeOK, PutFails
<1>9. ASSUME NEW w \in Writers, PutThrows(w) PROVE TypeOK'
  BY <1>9, ForgetType, OwnedType DEF TypeOK, PutThrows
<1>10. ASSUME NEW w \in Writers, Collect(w) PROVE TypeOK'
  BY <1>10 DEF TypeOK, Collect, CollectAs
<1>11. ASSUME NEW w \in Writers, Publish(w) PROVE TypeOK'
  BY <1>11 DEF TypeOK, Publish
<1>12. ASSUME NEW w \in Writers, Abort(w) PROVE TypeOK'
  BY <1>12 DEF TypeOK, Abort
<1>13. ASSUME NEW w \in Writers, BeginFinish(w) PROVE TypeOK'
  BY <1>13, OwnedType DEF TypeOK, BeginFinish
<1>14. ASSUME NEW w \in Writers, DelOne(w) PROVE TypeOK'
  BY <1>14 DEF TypeOK, DelOne
<1>15. ASSUME NEW w \in Writers, DelFails(w) PROVE TypeOK'
  BY <1>15 DEF TypeOK, DelFails
<1>16. ASSUME NEW w \in Writers, FinishReturns(w) PROVE TypeOK'
  <2>1. CASE Forget(w)
    BY <1>16, <2>1, ForgetType DEF TypeOK, FinishReturns
  <2>2. CASE ~Forget(w)
    BY <1>16, <2>2 DEF TypeOK, FinishReturns
  <2> QED BY <2>1, <2>2
<1>17. ASSUME NEW w \in Writers, FinishThrows(w) PROVE TypeOK'
  BY <1>17 DEF TypeOK, FinishThrows
<1>18. ASSUME NEW w \in Writers, Crash(w) PROVE TypeOK'
  BY <1>18, ForgetType, OwnedType DEF TypeOK, Crash
<1> QED
  BY <1>1, <1>2, <1>3, <1>4, <1>5, <1>6, <1>7, <1>8, <1>9, <1>10, <1>11,
     <1>12, <1>13, <1>14, <1>15, <1>16, <1>17, <1>18 DEF Next

\* Every variable has its type, with any engine and any failures.
THEOREM TypeCorrect == Spec => []TypeOK
<1>1. Init => TypeOK
  BY ConstantsAssumption DEF Init, TypeOK, Ids, States
<1> QED
  BY <1>1, TypeStep, PTL DEF Spec

-----------------------------------------------------------------------------
(* Reachable pages *)

\* What is reachable from a set is in every closed set around it.
LEMMA ReachMinimal ==
  ASSUME NEW S, NEW T \in SUBSET Ids, S \subseteq T, Closed(T)
  PROVE  Reach(S) \subseteq T
  BY DEF Reach

\* A set of identifiers is among the pages reachable from it, and those are
\* closed under the references of pages.
LEMMA ReachClosed ==
  ASSUME NEW S \in SUBSET Ids, kids \in [Ids -> SUBSET Ids]
  PROVE  S \subseteq Reach(S) /\ Closed(Reach(S))
  BY DEF Reach, Closed

-----------------------------------------------------------------------------
(* The inductive invariant *)

\* Identifiers are issued once, and del_all does not throw while a committed
\* mutation is finished.
SafeEngine == ~ContentAddressed /\ "delThrows" \notin Faults

\* The invariant holds at the start.
LEMMA CommitInvInit == Init => CommitInv
  BY ConstantsAssumption
  DEF Init, CommitInv, TypeOK, Ids, States, CommittedInv, SnapshotInv, WriteInv,
      CreatedInv, DeleteInv, PairInv, TreeInv, IsTree, Issued, Closed

\* Opening takes the committed tree as the snapshot.
LEMMA OpenInv ==
  ASSUME CommitInv, SafeEngine, NEW w \in Writers, Open(w), TypeOK'
  PROVE  CommitInv'
<1> USE DEF engineVars, commitVars, editVars, writeVars, mutVars
<1>0. /\ TypeOK /\ TreeInv /\ CommittedInv
      /\ \A v \in Writers :
           SnapshotInv(v) /\ WriteInv(v) /\ CreatedInv(v) /\ DeleteInv(v)
      /\ \A u, v \in Writers : u # v => PairInv(u, v)
  BY DEF CommitInv
<1>1. TreeInv'
  BY <1>0 DEF Open, TreeInv, IsTree, Closed, SnapshotInv, TypeOK
<1>2. CommittedInv'
  BY <1>0 DEF Open, CommittedInv, TypeOK, SnapshotInv, WriteInv, CreatedInv, DeleteInv,
      DeleteList, Issued
<1>3. ASSUME NEW v \in Writers PROVE SnapshotInv(v)'
  <2>1. CASE v = w
    BY <1>0, <2>1 DEF Open, CommittedInv, SnapshotInv, DeleteInv, TypeOK, Issued
  <2>2. CASE v # w
    BY <1>0, <2>2 DEF Open, SnapshotInv, TypeOK, Issued
  <2> QED BY <2>1, <2>2
<1>4. ASSUME NEW v \in Writers PROVE WriteInv(v)'
  BY <1>0 DEF Open, WriteInv, SnapshotInv, TypeOK, Issued
<1>5. ASSUME NEW v \in Writers PROVE CreatedInv(v)'
  BY <1>0 DEF Open, WriteInv, CreatedInv, DeleteInv, PairInv, TypeOK
<1>6. ASSUME NEW v \in Writers PROVE DeleteInv(v)'
  BY <1>0 DEF Open, CommittedInv, SnapshotInv, WriteInv, CreatedInv, DeleteInv, PairInv,
      TypeOK, DeleteList
<1>7. ASSUME NEW u \in Writers, NEW v \in Writers, u # v PROVE PairInv(u, v)'
  <2>1. CASE v = w
    BY <1>0, <1>7, <2>1 DEF Open, WriteInv, DeleteInv, PairInv, TypeOK
  <2>2. CASE v # w
    BY <1>0, <1>7, <2>2 DEF Open, PairInv, TypeOK
  <2> QED BY <2>1, <2>2
<1> QED
  BY <1>1, <1>2, <1>3, <1>4, <1>5, <1>6, <1>7 DEF CommitInv

\* Only pages of the snapshot are loaded.
LEMMA LoadInv ==
  ASSUME CommitInv, SafeEngine, NEW w \in Writers, Load(w), TypeOK'
  PROVE  CommitInv'
<1> USE DEF engineVars, commitVars, editVars, writeVars, mutVars
<1>0. /\ TypeOK /\ TreeInv /\ CommittedInv
      /\ \A v \in Writers :
           SnapshotInv(v) /\ WriteInv(v) /\ CreatedInv(v) /\ DeleteInv(v)
      /\ \A u, v \in Writers : u # v => PairInv(u, v)
  BY DEF CommitInv
<1>1. TreeInv'
  <2>1. PICK b \in Loadable(w) : loaded' = [loaded EXCEPT ![w] = @ \cup {b}]
    BY DEF Load, LoadPage
  <2>2. ASSUME NEW x \in baseTree[w] \ loaded[w], b \in kids[x] PROVE FALSE
    <3>1. CASE loaded[w] = {}
      BY <1>0, <2>1, <2>2, <3>1 DEF Loadable, TreeInv, IsTree
    <3>2. CASE loaded[w] # {}
      <4>1. PICK y \in loaded[w] : b \in kids[y]
        BY <2>1, <3>2 DEF Loadable, Frontier
      <4> QED
        BY <1>0, <2>2, <4>1 DEF TreeInv, IsTree, SnapshotInv
    <3> QED BY <3>1, <3>2
  <2>3. \A v \in Writers : IsTree(baseTree[v], base[v])' /\ IsTree(newTree[v], newRoot[v])'
    BY <1>0 DEF Load, LoadPage, TreeInv, IsTree, Closed
  <2>4. ASSUME NEW v \in Writers, NEW x \in baseTree[v] \ loaded'[v]
        PROVE  kids[x] \cap loaded'[v] = {}
    BY <1>0, <2>1, <2>2, <2>4 DEF TreeInv, TypeOK
  <2> QED
    BY <1>0, <2>3, <2>4 DEF Load, LoadPage, TreeInv, IsTree, Closed
<1>2. CommittedInv'
  BY <1>0 DEF Load, LoadPage, CommittedInv, TypeOK, SnapshotInv, WriteInv, CreatedInv, DeleteInv,
      DeleteList, Issued
<1>3. ASSUME NEW v \in Writers PROVE SnapshotInv(v)'
  <2>1. PICK b \in Loadable(w) : loaded' = [loaded EXCEPT ![w] = @ \cup {b}]
    BY DEF Load, LoadPage
  <2>2. b \in baseTree[w]
    BY <1>0, <2>1 DEF Loadable, Frontier, SnapshotInv, TreeInv, IsTree, Closed
  <2> QED
    BY <1>0, <2>1, <2>2 DEF Load, LoadPage, SnapshotInv, TypeOK, Issued
<1>4. ASSUME NEW v \in Writers PROVE WriteInv(v)'
  BY <1>0 DEF Load, LoadPage, WriteInv, TypeOK, Issued
<1>5. ASSUME NEW v \in Writers PROVE CreatedInv(v)'
  BY <1>0 DEF Load, LoadPage, WriteInv, CreatedInv, DeleteInv, PairInv, TypeOK
<1>6. ASSUME NEW v \in Writers PROVE DeleteInv(v)'
  BY <1>0 DEF Load, LoadPage, CommittedInv, SnapshotInv, WriteInv, CreatedInv, DeleteInv, PairInv,
      TypeOK, DeleteList
<1>7. ASSUME NEW u \in Writers, NEW v \in Writers, u # v PROVE PairInv(u, v)'
  BY <1>0, <1>7 DEF Load, LoadPage, PairInv, TypeOK
<1> QED
  BY <1>1, <1>2, <1>3, <1>4, <1>5, <1>6, <1>7 DEF CommitInv

\* A put adds a block; nothing a session relies on goes away.
LEMMA PutOneInv ==
  ASSUME CommitInv, SafeEngine, NEW w \in Writers, PutOne(w), TypeOK'
  PROVE  CommitInv'
<1> USE DEF engineVars, commitVars, editVars, writeVars, mutVars
<1>0. /\ TypeOK /\ TreeInv /\ CommittedInv
      /\ \A v \in Writers :
           SnapshotInv(v) /\ WriteInv(v) /\ CreatedInv(v) /\ DeleteInv(v)
      /\ \A u, v \in Writers : u # v => PairInv(u, v)
  BY DEF CommitInv
<1>1. TreeInv'
  BY <1>0 DEF PutOne, TreeInv, IsTree, Closed, TypeOK
<1>2. CommittedInv'
  BY <1>0 DEF PutOne, CommittedInv, WriteInv, CreatedInv, TypeOK, Issued
<1>3. ASSUME NEW v \in Writers PROVE SnapshotInv(v)'
  BY <1>0 DEF PutOne, CommittedInv, SnapshotInv, WriteInv, DeleteInv, PairInv, TypeOK, Issued
<1>4. ASSUME NEW v \in Writers PROVE WriteInv(v)'
  BY <1>0 DEF PutOne, WriteInv, TypeOK, Issued
<1>5. ASSUME NEW v \in Writers PROVE CreatedInv(v)'
  BY <1>0 DEF PutOne, CreatedInv, TypeOK
<1>6. ASSUME NEW v \in Writers PROVE DeleteInv(v)'
  BY <1>0 DEF PutOne, CommittedInv, SnapshotInv, WriteInv, CreatedInv, DeleteInv, PairInv,
      TypeOK, DeleteList
<1>7. ASSUME NEW u \in Writers, NEW v \in Writers, u # v PROVE PairInv(u, v)'
  BY <1>0, <1>7 DEF PutOne, PairInv, TypeOK
<1> QED
  BY <1>1, <1>2, <1>3, <1>4, <1>5, <1>6, <1>7 DEF CommitInv

\* A put that fails changes no more than one that succeeds.
LEMMA PutFailsInv ==
  ASSUME CommitInv, SafeEngine, NEW w \in Writers, PutFails(w), TypeOK'
  PROVE  CommitInv'
<1> USE DEF engineVars, commitVars, editVars, writeVars, mutVars
<1>0. /\ TypeOK /\ TreeInv /\ CommittedInv
      /\ \A v \in Writers :
           SnapshotInv(v) /\ WriteInv(v) /\ CreatedInv(v) /\ DeleteInv(v)
      /\ \A u, v \in Writers : u # v => PairInv(u, v)
  BY DEF CommitInv
<1>1. TreeInv'
  BY <1>0 DEF PutFails, TreeInv, IsTree, Closed, TypeOK
<1>2. CommittedInv'
  BY <1>0 DEF PutFails, CommittedInv, WriteInv, CreatedInv, TypeOK, Issued
<1>3. ASSUME NEW v \in Writers PROVE SnapshotInv(v)'
  BY <1>0 DEF PutFails, CommittedInv, SnapshotInv, WriteInv, DeleteInv, PairInv, TypeOK, Issued
<1>4. ASSUME NEW v \in Writers PROVE WriteInv(v)'
  BY <1>0 DEF PutFails, WriteInv, TypeOK, Issued
<1>5. ASSUME NEW v \in Writers PROVE CreatedInv(v)'
  BY <1>0 DEF PutFails, CreatedInv, TypeOK
<1>6. ASSUME NEW v \in Writers PROVE DeleteInv(v)'
  BY <1>0 DEF PutFails, CommittedInv, SnapshotInv, WriteInv, CreatedInv, DeleteInv, PairInv,
      TypeOK, DeleteList
<1>7. ASSUME NEW u \in Writers, NEW v \in Writers, u # v PROVE PairInv(u, v)'
  BY <1>0, <1>7 DEF PutFails, PairInv, TypeOK
<1> QED
  BY <1>1, <1>2, <1>3, <1>4, <1>5, <1>6, <1>7 DEF CommitInv

\* The mutation succeeds only if every page was put.
LEMMA CollectInv ==
  ASSUME CommitInv, SafeEngine, NEW w \in Writers, Collect(w), TypeOK'
  PROVE  CommitInv'
<1> USE DEF engineVars, commitVars, editVars, writeVars, mutVars
<1>0. /\ TypeOK /\ TreeInv /\ CommittedInv
      /\ \A v \in Writers :
           SnapshotInv(v) /\ WriteInv(v) /\ CreatedInv(v) /\ DeleteInv(v)
      /\ \A u, v \in Writers : u # v => PairInv(u, v)
  BY DEF CommitInv
<1>1. TreeInv'
  BY <1>0 DEF Collect, CollectAs, TreeInv, IsTree, Closed, TypeOK
<1>2. CommittedInv'
  BY <1>0 DEF Collect, CollectAs, CommittedInv, TypeOK, SnapshotInv, WriteInv, CreatedInv, DeleteInv,
      DeleteList, Issued
<1>3. ASSUME NEW v \in Writers PROVE SnapshotInv(v)'
  BY <1>0 DEF Collect, CollectAs, CommittedInv, SnapshotInv, WriteInv, DeleteInv, PairInv, TypeOK, Issued
<1>4. ASSUME NEW v \in Writers PROVE WriteInv(v)'
  BY <1>0 DEF Collect, CollectAs, WriteInv, TypeOK, Issued
<1>5. ASSUME NEW v \in Writers PROVE CreatedInv(v)'
  BY <1>0 DEF Collect, CollectAs, WriteInv, CreatedInv, DeleteInv, PairInv, TypeOK
<1>6. ASSUME NEW v \in Writers PROVE DeleteInv(v)'
  BY <1>0 DEF Collect, CollectAs, CommittedInv, SnapshotInv, WriteInv, CreatedInv, DeleteInv, PairInv,
      TypeOK, DeleteList
<1>7. ASSUME NEW u \in Writers, NEW v \in Writers, u # v PROVE PairInv(u, v)'
  BY <1>0, <1>7 DEF Collect, CollectAs, PairInv, TypeOK
<1> QED
  BY <1>1, <1>2, <1>3, <1>4, <1>5, <1>6, <1>7 DEF CommitInv

\* The new tree is stored, and no delete list reaches it.
LEMMA PublishInv ==
  ASSUME CommitInv, SafeEngine, NEW w \in Writers, Publish(w), TypeOK'
  PROVE  CommitInv'
<1> USE DEF engineVars, commitVars, editVars, writeVars, mutVars
<1>0. /\ TypeOK /\ TreeInv /\ CommittedInv
      /\ \A v \in Writers :
           SnapshotInv(v) /\ WriteInv(v) /\ CreatedInv(v) /\ DeleteInv(v)
      /\ \A u, v \in Writers : u # v => PairInv(u, v)
  BY DEF CommitInv
<1>a. baseTree[w] = live /\ pages[w] \subseteq blocks /\ newRoot[w] \in pages[w]
  BY <1>0 DEF Publish, SnapshotInv, DeleteInv, WriteInv, CreatedInv
<1>b. newTree[w] \subseteq pages[w] \cup (live \ loaded[w]) /\ ~flag[w]
  BY <1>0, <1>a DEF Publish, WriteInv, DeleteInv
<1>1. TreeInv'
  BY <1>0 DEF Publish, TreeInv, IsTree, Closed, TypeOK
<1>2. CommittedInv'
  BY <1>0, <1>a, <1>b, NoneAssumption DEF Publish, CommittedInv, WriteInv, TypeOK, Issued
<1>3. ASSUME NEW v \in Writers PROVE SnapshotInv(v)'
  <2>1. CASE v = w
    BY <1>0, <2>1 DEF Publish, SnapshotInv, TypeOK, Issued
  <2>2. CASE v # w
    <3>1. base[v] # newRoot[w]
      BY <1>0, <1>a, <1>b, <2>2, NoneAssumption DEF PairInv, SnapshotInv, TypeOK
    <3> QED
      BY <1>0, <2>2, <3>1 DEF Publish, SnapshotInv, TypeOK, Issued
  <2> QED BY <2>1, <2>2
<1>4. ASSUME NEW v \in Writers PROVE WriteInv(v)'
  BY <1>0 DEF Publish, WriteInv, TypeOK, Issued
<1>5. ASSUME NEW v \in Writers PROVE CreatedInv(v)'
  BY <1>0 DEF Publish, WriteInv, CreatedInv, DeleteInv, PairInv, TypeOK
<1>6. ASSUME NEW v \in Writers PROVE DeleteInv(v)'
  <2>1. CASE v = w
    BY <1>0, <1>a, <1>b, <2>1
    DEF Publish, SnapshotInv, WriteInv, DeleteInv, TypeOK, DeleteList
  <2>2. CASE v # w
    <3>1. pages[v] \cap pages[w] = {} /\ pages[w] \cap baseTree[v] = {}
      BY <1>0, <1>b, <2>2 DEF PairInv
    <3> QED
      BY <1>0, <1>b, <2>2, <3>1 DEF Publish, SnapshotInv, DeleteInv, TypeOK, DeleteList
  <2> QED BY <2>1, <2>2
<1>7. ASSUME NEW u \in Writers, NEW v \in Writers, u # v PROVE PairInv(u, v)'
  BY <1>0, <1>7 DEF Publish, PairInv, DeleteInv, TypeOK
<1> QED
  BY <1>1, <1>2, <1>3, <1>4, <1>5, <1>6, <1>7 DEF CommitInv

\* A rolled back session deletes what it created, which no tree has.
LEMMA AbortInv ==
  ASSUME CommitInv, SafeEngine, NEW w \in Writers, Abort(w), TypeOK'
  PROVE  CommitInv'
<1> USE DEF engineVars, commitVars, editVars, writeVars, mutVars
<1>0. /\ TypeOK /\ TreeInv /\ CommittedInv
      /\ \A v \in Writers :
           SnapshotInv(v) /\ WriteInv(v) /\ CreatedInv(v) /\ DeleteInv(v)
      /\ \A u, v \in Writers : u # v => PairInv(u, v)
  BY DEF CommitInv
<1>1. TreeInv'
  BY <1>0 DEF Abort, TreeInv, IsTree, Closed, TypeOK
<1>2. CommittedInv'
  BY <1>0 DEF Abort, CommittedInv, TypeOK, SnapshotInv, WriteInv, CreatedInv, DeleteInv,
      DeleteList, Issued
<1>3. ASSUME NEW v \in Writers PROVE SnapshotInv(v)'
  BY <1>0 DEF Abort, CommittedInv, SnapshotInv, WriteInv, DeleteInv, PairInv, TypeOK, Issued
<1>4. ASSUME NEW v \in Writers PROVE WriteInv(v)'
  BY <1>0 DEF Abort, WriteInv, TypeOK, Issued
<1>5. ASSUME NEW v \in Writers PROVE CreatedInv(v)'
  BY <1>0 DEF Abort, WriteInv, CreatedInv, DeleteInv, PairInv, TypeOK
<1>6. ASSUME NEW v \in Writers PROVE DeleteInv(v)'
  BY <1>0 DEF Abort, CommittedInv, SnapshotInv, WriteInv, CreatedInv, DeleteInv, PairInv,
      TypeOK, DeleteList
<1>7. ASSUME NEW u \in Writers, NEW v \in Writers, u # v PROVE PairInv(u, v)'
  BY <1>0, <1>7 DEF Abort, PairInv, DeleteInv, TypeOK
<1> QED
  BY <1>1, <1>2, <1>3, <1>4, <1>5, <1>6, <1>7 DEF CommitInv

\* The blocks handed to del_all are those of the delete list.
LEMMA BeginFinishInv ==
  ASSUME CommitInv, SafeEngine, NEW w \in Writers, BeginFinish(w), TypeOK'
  PROVE  CommitInv'
<1> USE DEF engineVars, commitVars, editVars, writeVars, mutVars
<1>0. /\ TypeOK /\ TreeInv /\ CommittedInv
      /\ \A v \in Writers :
           SnapshotInv(v) /\ WriteInv(v) /\ CreatedInv(v) /\ DeleteInv(v)
      /\ \A u, v \in Writers : u # v => PairInv(u, v)
  BY DEF CommitInv
<1>1. TreeInv'
  BY <1>0 DEF BeginFinish, TreeInv, IsTree, Closed, TypeOK
<1>2. CommittedInv'
  BY <1>0 DEF BeginFinish, CommittedInv, TypeOK, SnapshotInv, WriteInv, CreatedInv, DeleteInv,
      DeleteList, Issued
<1>3. ASSUME NEW v \in Writers PROVE SnapshotInv(v)'
  BY <1>0 DEF BeginFinish, CommittedInv, SnapshotInv, WriteInv, DeleteInv, PairInv, TypeOK, Issued
<1>4. ASSUME NEW v \in Writers PROVE WriteInv(v)'
  BY <1>0 DEF BeginFinish, WriteInv, TypeOK, Issued
<1>5. ASSUME NEW v \in Writers PROVE CreatedInv(v)'
  BY <1>0 DEF BeginFinish, WriteInv, CreatedInv, DeleteInv, PairInv, TypeOK
<1>6. ASSUME NEW v \in Writers PROVE DeleteInv(v)'
  BY <1>0 DEF BeginFinish, CommittedInv, SnapshotInv, WriteInv, CreatedInv, DeleteInv, PairInv,
      TypeOK, DeleteList
<1>7. ASSUME NEW u \in Writers, NEW v \in Writers, u # v PROVE PairInv(u, v)'
  BY <1>0, <1>7 DEF BeginFinish, PairInv, TypeOK
<1> QED
  BY <1>1, <1>2, <1>3, <1>4, <1>5, <1>6, <1>7 DEF CommitInv

\* A deleted block is in no committed tree and no session needs it.
LEMMA DelOneInv ==
  ASSUME CommitInv, SafeEngine, NEW w \in Writers, DelOne(w), TypeOK'
  PROVE  CommitInv'
<1> USE DEF engineVars, commitVars, editVars, writeVars, mutVars
<1>0. /\ TypeOK /\ TreeInv /\ CommittedInv
      /\ \A v \in Writers :
           SnapshotInv(v) /\ WriteInv(v) /\ CreatedInv(v) /\ DeleteInv(v)
      /\ \A u, v \in Writers : u # v => PairInv(u, v)
  BY DEF CommitInv
<1>1. TreeInv'
  BY <1>0 DEF DelOne, TreeInv, IsTree, Closed, TypeOK
<1>2. CommittedInv'
  BY <1>0 DEF DelOne, CommittedInv, TypeOK, SnapshotInv, WriteInv, CreatedInv, DeleteInv,
      DeleteList, Issued
<1>3. ASSUME NEW v \in Writers PROVE SnapshotInv(v)'
  BY <1>0 DEF DelOne, CommittedInv, SnapshotInv, WriteInv, DeleteInv, PairInv, TypeOK, Issued
<1>4. ASSUME NEW v \in Writers PROVE WriteInv(v)'
  BY <1>0 DEF DelOne, WriteInv, TypeOK, Issued
<1>5. ASSUME NEW v \in Writers PROVE CreatedInv(v)'
  <2>1. PICK b \in DeleteList(w) : blocks \ {b} \subseteq blocks'
    BY <1>0 DEF DelOne, DeleteInv
  <2>2. CASE v = w
    BY <1>0, <2>2 DEF DelOne, CreatedInv, TypeOK
  <2>3. CASE v # w /\ pc[v] \in {"putting", "written"}
    <3>1. ~flag[v]
      BY <1>0, <2>3 DEF DeleteInv
    <3>2. b \in pages[w] \cup baseTree[w]
      BY <1>0, <2>1 DEF DeleteList, DeleteInv, CreatedInv, SnapshotInv
    <3>3. b \notin pages[v]
      BY <1>0, <2>3, <3>1, <3>2 DEF PairInv
    <3> QED
      BY <1>0, <2>1, <2>3, <3>3 DEF DelOne, CreatedInv, TypeOK
  <2>4. CASE v # w /\ pc[v] \notin {"putting", "written"}
    BY <1>0, <2>4 DEF DelOne, CreatedInv, TypeOK
  <2> QED BY <2>2, <2>3, <2>4
<1>6. ASSUME NEW v \in Writers PROVE DeleteInv(v)'
  BY <1>0 DEF DelOne, CommittedInv, SnapshotInv, WriteInv, CreatedInv, DeleteInv, PairInv,
      TypeOK, DeleteList
<1>7. ASSUME NEW u \in Writers, NEW v \in Writers, u # v PROVE PairInv(u, v)'
  BY <1>0, <1>7 DEF DelOne, PairInv, TypeOK
<1> QED
  BY <1>1, <1>2, <1>3, <1>4, <1>5, <1>6, <1>7 DEF CommitInv

\* A block that stays does no harm.
LEMMA DelFailsInv ==
  ASSUME CommitInv, SafeEngine, NEW w \in Writers, DelFails(w), TypeOK'
  PROVE  CommitInv'
<1> USE DEF engineVars, commitVars, editVars, writeVars, mutVars
<1>0. /\ TypeOK /\ TreeInv /\ CommittedInv
      /\ \A v \in Writers :
           SnapshotInv(v) /\ WriteInv(v) /\ CreatedInv(v) /\ DeleteInv(v)
      /\ \A u, v \in Writers : u # v => PairInv(u, v)
  BY DEF CommitInv
<1>1. TreeInv'
  BY <1>0 DEF DelFails, TreeInv, IsTree, Closed, TypeOK
<1>2. CommittedInv'
  BY <1>0 DEF DelFails, CommittedInv, TypeOK, SnapshotInv, WriteInv, CreatedInv, DeleteInv,
      DeleteList, Issued
<1>3. ASSUME NEW v \in Writers PROVE SnapshotInv(v)'
  BY <1>0 DEF DelFails, CommittedInv, SnapshotInv, WriteInv, DeleteInv, PairInv, TypeOK, Issued
<1>4. ASSUME NEW v \in Writers PROVE WriteInv(v)'
  BY <1>0 DEF DelFails, WriteInv, TypeOK, Issued
<1>5. ASSUME NEW v \in Writers PROVE CreatedInv(v)'
  BY <1>0 DEF DelFails, WriteInv, CreatedInv, DeleteInv, PairInv, TypeOK
<1>6. ASSUME NEW v \in Writers PROVE DeleteInv(v)'
  BY <1>0 DEF DelFails, CommittedInv, SnapshotInv, WriteInv, CreatedInv, DeleteInv, PairInv,
      TypeOK, DeleteList
<1>7. ASSUME NEW u \in Writers, NEW v \in Writers, u # v PROVE PairInv(u, v)'
  BY <1>0, <1>7 DEF DelFails, PairInv, TypeOK
<1> QED
  BY <1>1, <1>2, <1>3, <1>4, <1>5, <1>6, <1>7 DEF CommitInv

\* A session that is forgotten has no pages and no delete list any more.
LEMMA ForgetInv ==
  ASSUME CommitInv, NEW w \in Writers, Forget(w), TypeOK',
         UNCHANGED <<engineVars, commitVars>>
  PROVE  CommitInv'
<1> USE DEF engineVars, commitVars
<1>0. /\ TypeOK /\ TreeInv /\ CommittedInv
      /\ \A v \in Writers :
           SnapshotInv(v) /\ WriteInv(v) /\ CreatedInv(v) /\ DeleteInv(v)
      /\ \A u, v \in Writers : u # v => PairInv(u, v)
  BY DEF CommitInv
<1>1. TreeInv'
  BY <1>0 DEF Forget, TreeInv, IsTree, Closed, TypeOK
<1>2. CommittedInv'
  BY <1>0 DEF Forget, CommittedInv, TypeOK, Issued
<1>3. ASSUME NEW v \in Writers PROVE SnapshotInv(v)'
  BY <1>0 DEF Forget, SnapshotInv, TypeOK, Issued
<1>4. ASSUME NEW v \in Writers PROVE WriteInv(v)'
  BY <1>0 DEF Forget, WriteInv, TypeOK, Issued
<1>5. ASSUME NEW v \in Writers PROVE CreatedInv(v)'
  BY <1>0 DEF Forget, CreatedInv, TypeOK
<1>6. ASSUME NEW v \in Writers PROVE DeleteInv(v)'
  BY <1>0 DEF Forget, DeleteInv, TypeOK, DeleteList
<1>7. ASSUME NEW u \in Writers, NEW v \in Writers, u # v PROVE PairInv(u, v)'
  BY <1>0, <1>7 DEF Forget, PairInv, TypeOK
<1> QED
  BY <1>1, <1>2, <1>3, <1>4, <1>5, <1>6, <1>7 DEF CommitInv

\* A call of finish that leaves blocks in the list only shortens it.
LEMMA FinishReturnsInv ==
  ASSUME CommitInv, SafeEngine, NEW w \in Writers, FinishReturns(w), TypeOK'
  PROVE  CommitInv'
<1> USE DEF engineVars, commitVars, editVars, writeVars, mutVars
<1>0. /\ TypeOK /\ TreeInv /\ CommittedInv
      /\ \A v \in Writers :
           SnapshotInv(v) /\ WriteInv(v) /\ CreatedInv(v) /\ DeleteInv(v)
      /\ \A u, v \in Writers : u # v => PairInv(u, v)
  BY DEF CommitInv
<1>a. CASE DeleteList(w) \subseteq done[w]
  BY <1>a, ForgetInv DEF FinishReturns
<1>b. CASE ~(DeleteList(w) \subseteq done[w])
  <2>1. TreeInv' /\ CommittedInv'
    BY <1>0, <1>b DEF FinishReturns, TreeInv, IsTree, Closed, CommittedInv, TypeOK, Issued
  <2>2. ASSUME NEW v \in Writers PROVE SnapshotInv(v)'
    BY <1>0, <1>b DEF FinishReturns, SnapshotInv, TypeOK, Issued
  <2>3. ASSUME NEW v \in Writers PROVE WriteInv(v)'
    <3>1. /\ ctr' = ctr /\ pages' = pages /\ baseTree' = baseTree
          /\ newTree' = newTree /\ newRoot' = newRoot /\ loaded' = loaded
      BY <1>b DEF FinishReturns
    <3>2. \/ pc'[v] = pc[v]
          \/ pc[v] = "deleting" /\ pc'[v] = "finishing"
      <4>1. pc[w] = "deleting" /\ pc' = [pc EXCEPT ![w] = "finishing"]
        BY <1>b DEF FinishReturns
      <4>2. DOMAIN pc = Writers
        BY <1>0 DEF TypeOK
      <4> QED
        BY ONLY v \in Writers, <4>1, <4>2
    <3> QED
      BY <1>0, <3>1, <3>2 DEF WriteInv, Issued
  <2>4. ASSUME NEW v \in Writers PROVE CreatedInv(v)'
    BY <1>0, <1>b DEF FinishReturns, CreatedInv, TypeOK
  <2>5. ASSUME NEW v \in Writers PROVE DeleteInv(v)'
    BY <1>0, <1>b DEF FinishReturns, DeleteInv, TypeOK, DeleteList
  <2>6. ASSUME NEW u \in Writers, NEW v \in Writers, u # v PROVE PairInv(u, v)'
    BY <1>0, <1>b, <2>6 DEF FinishReturns, PairInv, TypeOK
  <2> QED
    BY <2>1, <2>2, <2>3, <2>4, <2>5, <2>6 DEF CommitInv
<1> QED
  BY <1>a, <1>b

\* A rollback that throws lists the same blocks as before.
LEMMA FinishThrowsInv ==
  ASSUME CommitInv, SafeEngine, NEW w \in Writers, FinishThrows(w), TypeOK'
  PROVE  CommitInv'
<1> USE DEF engineVars, commitVars, editVars, writeVars
<1>0. /\ TypeOK /\ TreeInv /\ CommittedInv
      /\ \A v \in Writers :
           SnapshotInv(v) /\ WriteInv(v) /\ CreatedInv(v) /\ DeleteInv(v)
      /\ \A u, v \in Writers : u # v => PairInv(u, v)
  BY DEF CommitInv
<1>1. ~flag[w]
  BY DEF FinishThrows, SafeEngine
<1>2. TreeInv' /\ CommittedInv'
  BY <1>0 DEF FinishThrows, TreeInv, IsTree, Closed, CommittedInv, TypeOK, Issued
<1>3. ASSUME NEW v \in Writers PROVE SnapshotInv(v)'
  BY <1>0 DEF FinishThrows, SnapshotInv, TypeOK, Issued
<1>4. ASSUME NEW v \in Writers PROVE WriteInv(v)'
  BY <1>0 DEF FinishThrows, WriteInv, TypeOK, Issued
<1>5. ASSUME NEW v \in Writers PROVE CreatedInv(v)'
  BY <1>0 DEF FinishThrows, CreatedInv, TypeOK
<1>6. ASSUME NEW v \in Writers PROVE DeleteInv(v)'
  BY <1>0, <1>1 DEF FinishThrows, DeleteInv, TypeOK, DeleteList
<1>7. ASSUME NEW u \in Writers, NEW v \in Writers, u # v PROVE PairInv(u, v)'
  BY <1>0, <1>7 DEF FinishThrows, PairInv, TypeOK
<1> QED
  BY <1>2, <1>3, <1>4, <1>5, <1>6, <1>7 DEF CommitInv

\* The pages of a write get identifiers that no tree and no session has.
LEMMA SerializeInv ==
  ASSUME CommitInv, SafeEngine, NEW w \in Writers, pc[w] = "editing",
         NEW n \in 0..MaxNew, NEW N \in SUBSET IdsFor(ctr..(ctr + n - 1)),
         NEW kept \in SUBSET Frontier(w), NEW top \in N,
         SerializeTree(w, n, N, kept, top), TypeOK',
         pc' = [pc EXCEPT ![w] = "putting"],
         UNCHANGED <<blocks, commitVars, leaked, editVars, done, mutVars>>
  PROVE  CommitInv'
<1> USE DEF commitVars, editVars, mutVars
<1>0. /\ TypeOK /\ TreeInv /\ CommittedInv
      /\ \A v \in Writers :
           SnapshotInv(v) /\ WriteInv(v) /\ CreatedInv(v) /\ DeleteInv(v)
      /\ \A u, v \in Writers : u # v => PairInv(u, v)
  BY DEF CommitInv
<1>1. /\ N \subseteq Ids /\ N \cap Issued = {} /\ N # {}
      /\ N \subseteq Issued' /\ Issued \subseteq Issued'
  BY <1>0, ConstantsAssumption DEF TypeOK, SafeEngine, IdsFor, SerializeTree, Issued, Ids
<1>2. \A x \in Issued : kids'[x] = kids[x]
  BY <1>0, <1>1 DEF SerializeTree, Issued, TypeOK
<1>3. ASSUME NEW x \in kept
      PROVE  /\ x \in baseTree[w] \ loaded[w]
             /\ \E y \in loaded[w] : x \in kids[y]
  <2>1. PICK y \in loaded[w] : x \in kids[y]
    BY DEF Frontier
  <2>2. x \notin loaded[w]
    BY DEF Frontier
  <2> QED
    BY <1>0, <2>1, <2>2 DEF TreeInv, IsTree, Closed, SnapshotInv
<1>4. /\ baseTree[w] \ loaded[w] \in SUBSET Ids
      /\ Closed(baseTree[w] \ loaded[w])
  BY <1>0 DEF TreeInv, IsTree, Closed, TypeOK
<1>5. /\ kept \subseteq Reach(kept)
      /\ Closed(Reach(kept))
      /\ Reach(kept) \subseteq baseTree[w] \ loaded[w]
  <2>1. kept \in SUBSET Ids /\ kept \subseteq baseTree[w] \ loaded[w]
    BY <1>3, <1>4
  <2>2. kids \in [Ids -> SUBSET Ids]
    BY <1>0 DEF TypeOK
  <2> QED
    BY <1>4, <2>1, <2>2, ReachClosed, ReachMinimal
<1>6. N \cap Reach(kept) = {} /\ N \cap baseTree[w] = {}
  BY <1>0, <1>1, <1>5 DEF SnapshotInv
<1>7. IsTree(newTree[w], newRoot[w])'
  <2>0. newTree'[w] = N \cup Reach(kept) /\ newRoot'[w] = top
    BY <1>0 DEF SerializeTree, TypeOK
  <2>1. ASSUME NEW x \in Reach(kept)
        PROVE  kids'[x] = kids[x] /\ kids[x] \subseteq Reach(kept) /\ x \in baseTree[w]
    BY <1>0, <1>1, <1>5, <1>6, <2>1 DEF SerializeTree, Closed, TypeOK
  <2>2. ASSUME NEW x \in N, NEW y \in kids'[x]
        PROVE  y \in (N \ {top}) \cup kept
    BY <1>0, <1>1, <2>2 DEF SerializeTree, TypeOK
  <2>3. ASSUME NEW x \in N, NEW y \in N, x # y
        PROVE  kids'[x] \cap kids'[y] = {}
    BY <1>0, <1>1, <2>3 DEF SerializeTree, TypeOK
  <2>4. ASSUME NEW x \in Reach(kept), NEW y \in kept PROVE y \notin kids[x]
    <3>1. PICK z \in loaded[w] : y \in kids[z]
      BY <1>3
    <3>2. x # z /\ x \in baseTree[w] /\ z \in baseTree[w]
      BY <1>0, <1>5, <3>1 DEF SnapshotInv
    <3> QED
      BY <1>0, <3>1, <3>2 DEF TreeInv, IsTree
  <2>5. Closed(newTree[w])'
    BY <1>5, <2>0, <2>1, <2>2 DEF Closed
  <2>6. ASSUME NEW x \in newTree'[w], NEW y \in newTree'[w], x # y
        PROVE  kids'[x] \cap kids'[y] = {}
    <3>1. CASE x \in N /\ y \in N
      BY <2>3, <2>6, <3>1
    <3>2. CASE x \in Reach(kept) /\ y \in Reach(kept)
      BY <1>0, <2>1, <2>6, <3>2 DEF TreeInv, IsTree
    <3>3. ASSUME NEW s \in N, NEW t \in Reach(kept) PROVE kids'[s] \cap kids'[t] = {}
      BY <1>6, <2>1, <2>2, <2>4
    <3> QED
      BY <2>0, <2>6, <3>1, <3>2, <3>3
  <2>7. ASSUME NEW x \in newTree'[w] PROVE top \notin kids'[x]
    BY <1>5, <1>6, <2>0, <2>1, <2>2, <2>7 DEF SerializeTree
  <2> QED
    BY <2>0, <2>5, <2>6, <2>7 DEF IsTree
<1>8. TreeInv'
  <2>1. IsTree(live, root)'
    BY <1>0, <1>2 DEF TreeInv, IsTree, Closed, CommittedInv
  <2>2. ASSUME NEW v \in Writers PROVE IsTree(baseTree[v], base[v])'
    BY <1>0, <1>2 DEF TreeInv, IsTree, Closed, SnapshotInv
  <2>3. ASSUME NEW v \in Writers PROVE IsTree(newTree[v], newRoot[v])'
    <3>1. CASE v = w
      BY <1>7, <3>1
    <3>2. CASE v # w
      <4>1. newTree[v] \subseteq Issued
        BY <1>0 DEF WriteInv, SnapshotInv
      <4>2. newTree'[v] = newTree[v] /\ newRoot'[v] = newRoot[v]
        BY <1>0, <3>2 DEF SerializeTree, TypeOK
      <4> QED
        BY <1>0, <1>2, <4>1, <4>2 DEF TreeInv, IsTree, Closed
    <3> QED BY <3>1, <3>2
  <2>4. ASSUME NEW v \in Writers, NEW x \in baseTree[v] \ loaded[v]
        PROVE  kids'[x] \cap loaded[v] = {}
    BY <1>0, <1>1, <2>4 DEF TreeInv, SnapshotInv, SerializeTree, TypeOK
  <2> QED
    BY <2>1, <2>2, <2>3, <2>4 DEF TreeInv
<1>9. CommittedInv'
  BY <1>0, <1>1 DEF CommittedInv
<1>10. ASSUME NEW v \in Writers PROVE SnapshotInv(v)'
  BY <1>0, <1>1 DEF SnapshotInv, TypeOK
<1>11. ASSUME NEW v \in Writers PROVE WriteInv(v)'
  <2>1. CASE v = w
    BY <1>0, <1>1, <1>5, <1>6, <2>1 DEF SerializeTree, WriteInv, TypeOK
  <2>2. CASE v # w
    <3>1. /\ pages'[v] = pages[v] /\ newTree'[v] = newTree[v]
          /\ newRoot'[v] = newRoot[v] /\ pc'[v] = pc[v]
          /\ baseTree' = baseTree /\ loaded' = loaded
      BY <1>0, <2>2 DEF SerializeTree, TypeOK
    <3> QED
      BY <1>0, <1>1, <3>1 DEF WriteInv
  <2> QED BY <2>1, <2>2
<1>12. ASSUME NEW v \in Writers PROVE CreatedInv(v)'
  BY <1>0 DEF SerializeTree, WriteInv, CreatedInv, TypeOK
<1>13. ASSUME NEW v \in Writers PROVE DeleteInv(v)'
  BY <1>0, <1>1 DEF SerializeTree, CommittedInv, DeleteInv, DeleteList, TypeOK
<1>14. ASSUME NEW u \in Writers, NEW v \in Writers, u # v PROVE PairInv(u, v)'
  BY <1>0, <1>1, <1>14 DEF SerializeTree, SnapshotInv, WriteInv, PairInv, TypeOK
<1> QED
  BY <1>8, <1>9, <1>10, <1>11, <1>12, <1>13, <1>14 DEF CommitInv

\* No step of any session breaks the invariant.
LEMMA CommitInvStep ==
  ASSUME SafeEngine, CommitInv, [Next]_vars, TypeOK'
  PROVE  CommitInv'
<1>1. CASE UNCHANGED vars
  BY <1>1 DEF vars, engineVars, commitVars, editVars, writeVars, mutVars, CommitInv,
     TreeInv, IsTree, Closed, CommittedInv, SnapshotInv, WriteInv, CreatedInv,
     DeleteInv, PairInv, Issued, DeleteList
<1>2. ASSUME NEW w \in Writers, LoadFails(w) \/ Close(w) PROVE CommitInv'
  BY <1>2, ForgetInv DEF LoadFails, Close
<1>3. ASSUME NEW w \in Writers, PutThrows(w) \/ Crash(w) PROVE CommitInv'
  BY <1>3, ForgetInv DEF PutThrows, Crash
<1>4. ASSUME NEW w \in Writers, BeginWrite(w) PROVE CommitInv'
  <2>1. PICK n \in 0..MaxNew : \E N \in SUBSET IdsFor(ctr..(ctr + n - 1)) :
          \E kept \in SUBSET Frontier(w) : \E top \in N :
            Serialize(w, n, N, kept, top)
    BY <1>4, BeginWriteParts DEF CommitInv, SafeEngine
  <2>2. PICK N \in SUBSET IdsFor(ctr..(ctr + n - 1)),
             kept \in SUBSET Frontier(w) :
          \E top \in N : Serialize(w, n, N, kept, top)
    BY <2>1
  <2>3. PICK top \in N : Serialize(w, n, N, kept, top)
    BY <2>2
  <2>4. SerializeTree(w, n, N, kept, top)
    BY <2>3, SerializeOnce DEF SafeEngine
  <2> QED
    BY <1>4, <2>4, SerializeInv DEF BeginWrite
<1>5. ASSUME NEW w \in Writers, FinishThrows(w) PROVE CommitInv'
  BY <1>5, FinishThrowsInv
<1> QED
  BY <1>1, <1>2, <1>3, <1>4, <1>5, OpenInv, LoadInv, PutOneInv, PutFailsInv,
     CollectInv, PublishInv, AbortInv, BeginFinishInv, DelOneInv, DelFailsInv,
     FinishReturnsInv DEF Next

\* The inductive invariant holds in every reachable state.
THEOREM CommitInvariant == ASSUME SafeEngine PROVE Spec => []CommitInv
<1>1. TypeOK /\ TypeOK' /\ CommitInv /\ [Next]_vars => CommitInv'
  BY CommitInvStep
<1> QED
  BY <1>1, CommitInvInit, TypeCorrect, PTL DEF Spec

-----------------------------------------------------------------------------
(* What it implies *)

\* Whatever sessions write, lose, roll back and clean up, every page of the
\* committed tree stays in the engine.
THEOREM AlwaysReadable == ASSUME SafeEngine PROVE Spec => []CommittedReadable
<1>1. CommitInv => CommittedReadable
  <2> SUFFICES ASSUME CommitInv, root # None
               PROVE  Reach({root}) \subseteq blocks
    BY DEF CommittedReadable
  <2>1. live \in SUBSET Ids /\ {root} \subseteq live /\ Closed(live)
    BY DEF CommitInv, TypeOK, CommittedInv, TreeInv, IsTree
  <2>2. Reach({root}) \subseteq live
    BY <2>1, ReachMinimal
  <2> QED
    BY <2>2 DEF CommitInv, CommittedInv
<1> QED
  BY <1>1, CommitInvariant, PTL

\* A session whose root is still the committed one works on exactly the
\* committed tree and can read all of it.
THEOREM AlwaysSnapshot == ASSUME SafeEngine PROVE Spec => []SnapshotStable
<1>1. CommitInv => SnapshotStable
  BY DEF CommitInv, SnapshotStable, SnapshotInv, CommittedInv
<1> QED
  BY <1>1, CommitInvariant, PTL

\* Only the session that opened the committed root replaces it, by a tree of
\* stored pages that shares with the old one all but the session's own pages.
THEOREM CommitsExtend == ASSUME SafeEngine PROVE Spec => CommitExtendsBase
<1>1. CommitInv /\ [Next]_vars =>
        [root' # root =>
           \E w \in Writers : /\ base[w] = root /\ newRoot[w] = root'
                              /\ live' \ live \subseteq pages[w]
                              /\ live' \subseteq blocks]_vars
  <2> SUFFICES ASSUME CommitInv, [Next]_vars, root' # root
               PROVE  \E w \in Writers : /\ base[w] = root /\ newRoot[w] = root'
                                         /\ live' \ live \subseteq pages[w]
                                         /\ live' \subseteq blocks
    OBVIOUS
  <2>1. PICK w \in Writers : Publish(w)
    BY DEF Next, vars, commitVars, engineVars, Open, Load, LoadPage, LoadFails, Close, BeginWrite,
       PutOne, PutFails, PutThrows, Collect, CollectAs, Abort, BeginFinish, DelOne, DelFails,
       FinishReturns, FinishThrows, Crash
  <2>2. /\ SnapshotInv(w) /\ WriteInv(w) /\ CreatedInv(w) /\ DeleteInv(w)
        /\ CommittedInv
    BY DEF CommitInv
  <2> QED
    BY <2>1, <2>2
    DEF Publish, SnapshotInv, WriteInv, CreatedInv, DeleteInv, CommittedInv
<1> QED
  BY <1>1, CommitInvariant, PTL DEF Spec, CommitExtendsBase

-----------------------------------------------------------------------------
(* Commit implements Snapshots *)

\* A step that touches neither the committed tree, the stored blocks, nor what
\* any session has open.
LEMMA QuietStep ==
  ASSUME TypeOK, UNCHANGED <<root, live, blocks>>,
         \A v \in Writers : (pc'[v] = "idle" \/ flag'[v]) = (pc[v] = "idle" \/ flag[v]),
         UNCHANGED <<base, baseTree>>
  PROVE  UNCHANGED Snap!vars
<1>1. ASSUME NEW v \in Writers PROVE Opened(v)' = Opened(v)
  BY <1>1 DEF Opened
<1> QED
  BY <1>1 DEF Snap!vars

\* Destroying a session's objects closes its version, if it still has one.
LEMMA ForgetCloses ==
  ASSUME TypeOK, NEW w \in Writers, pc[w] # "idle", Forget(w),
         UNCHANGED <<root, live, blocks>>
  PROVE  [Snap!Next]_(Snap!vars)
<1>1. Opened(w)' = {}
  BY DEF Opened, Forget, TypeOK
<1>2. ASSUME NEW v \in Writers, v # w PROVE Opened(v)' = Opened(v)
  BY <1>2 DEF Opened, Forget, TypeOK
<1>3. CASE flag[w]
  <2>1. Opened(w) = {}
    BY <1>3 DEF Opened
  <2> QED
    BY <1>1, <1>2, <2>1 DEF Snap!vars
<1>4. CASE ~flag[w]
  <2>1. Opened(w) # {}
    BY <1>4 DEF Opened
  <2>2. [v \in Writers |-> Opened(v)]' =
          [[v \in Writers |-> Opened(v)] EXCEPT ![w] = {}]
    BY <1>1, <1>2
  <2> QED
    BY <2>1, <2>2 DEF Snap!Next, Snap!Close
<1> QED
  BY <1>3, <1>4

\* A committed session had the current version open, and what it replaces it by
\* is stored and nobody else's.
LEMMA PublishCommits ==
  ASSUME CommitInv, NEW w \in Writers, Publish(w), TypeOK'
  PROVE  [Snap!Next]_(Snap!vars)
<1> DEFINE new == [root |-> newRoot[w], pages |-> newTree[w]]
<1>0. /\ TypeOK
      /\ SnapshotInv(w) /\ WriteInv(w) /\ CreatedInv(w) /\ DeleteInv(w)
      /\ CommittedInv
      /\ \A v \in Writers : SnapshotInv(v) /\ DeleteInv(v)
      /\ \A v \in Writers : v # w => PairInv(w, v)
  BY DEF CommitInv
<1>1. ~flag[w] /\ pc[w] = "written" /\ base[w] = root /\ baseTree[w] = live
  BY <1>0 DEF Publish, DeleteInv, SnapshotInv
<1>2. /\ newTree[w] \subseteq blocks
      /\ newTree[w] \ live \subseteq pages[w]
      /\ newRoot[w] \in newTree[w] \ live
  BY <1>0, <1>1 DEF Publish, WriteInv, CreatedInv, CommittedInv
<1>3. new \in Snap!Versions
  BY <1>0 DEF Snap!Versions, TypeOK
<1>4. Opened(w) = {[root |-> root, pages |-> live]}
  BY <1>1 DEF Opened
<1>5. ASSUME NEW v \in Writers, NEW old \in Opened(v)
      PROVE  (newTree[w] \ live) \cap old.pages = {}
  <2>1. old.pages = baseTree[v]
    BY DEF Opened
  <2>2. CASE v = w
    BY <1>1, <2>1, <2>2
  <2>3. CASE v # w
    BY <1>0, <1>1, <1>2, <2>1, <2>3 DEF PairInv
  <2> QED BY <2>2, <2>3
<1>6. [v \in Writers |-> Opened(v)]' =
        [[v \in Writers |-> Opened(v)] EXCEPT ![w] = {}]
  <2>1. Opened(w)' = {}
    BY <1>0 DEF Publish, Opened, TypeOK
  <2>2. ASSUME NEW v \in Writers, v # w PROVE Opened(v)' = Opened(v)
    BY <1>0, <2>2 DEF Publish, Opened, TypeOK, editVars
  <2> QED BY <2>1, <2>2
<1>7. Snap!Commit(w, new)
  <2>1. [root |-> root, pages |-> live]' = new
    BY DEF Publish
  <2> QED
    BY <1>2, <1>4, <1>5, <1>6, <2>1 DEF Snap!Commit, Snap!Fresh, Publish, engineVars
<1> QED
  BY <1>3, <1>7 DEF Snap!Next

\* A put adds a page, or reports a failure and may add it nevertheless.
LEMMA PutPuts ==
  ASSUME TypeOK, NEW w \in Writers, PutOne(w) \/ PutFails(w), TypeOK'
  PROVE  [Snap!Next]_(Snap!vars)
<1>1. [v \in Writers |-> Opened(v)]' = [v \in Writers |-> Opened(v)]
  BY DEF PutOne, PutFails, Opened, editVars, mutVars
<1>2. CASE blocks' = blocks
  BY <1>1, <1>2 DEF PutOne, PutFails, commitVars, Snap!vars
<1>3. CASE blocks' # blocks
  <2>1. PICK b \in Ids : blocks' = blocks \cup {b}
    BY <1>3 DEF PutOne, PutFails, TypeOK
  <2> QED
    BY <1>1, <2>1 DEF PutOne, PutFails, commitVars, Snap!Next, Snap!Put
<1> QED
  BY <1>2, <1>3

\* A delete takes a page away that the current version does not have.
LEMMA DeleteRemoves ==
  ASSUME CommitInv, NEW w \in Writers, DelOne(w), TypeOK'
  PROVE  [Snap!Next]_(Snap!vars)
<1>0. TypeOK /\ DeleteInv(w) /\ CreatedInv(w)
  BY DEF CommitInv
<1>1. [v \in Writers |-> Opened(v)]' = [v \in Writers |-> Opened(v)]
  BY <1>0 DEF DelOne, Opened, editVars, mutVars
<1>2. CASE blocks' = blocks
  BY <1>1, <1>2 DEF DelOne, commitVars, Snap!vars
<1>3. CASE blocks' # blocks
  <2>1. PICK b \in pending[w] : blocks' = blocks \ {b}
    BY <1>3 DEF DelOne
  <2>2. b \in DeleteList(w) /\ b \in Ids
    BY <1>0, <2>1 DEF DelOne, DeleteInv, TypeOK
  <2>3. b \notin live
    BY <1>0, <2>2 DEF DeleteList, DeleteInv, CreatedInv
  <2> QED
    BY <1>1, <2>1, <2>2, <2>3 DEF DelOne, commitVars, Snap!Next, Snap!Remove
<1> QED
  BY <1>2, <1>3

\* The sessions on an engine that does not reuse identifiers, and whose del_all
\* does not throw when a commit is cleaned up, are a store of versions.
THEOREM ImplementsSnapshots == ASSUME SafeEngine PROVE Spec => IsSnapshotStore
<1>1. Init => Snap!Init
  BY DEF Init, Snap!Init, Snap!NoVersion, Opened
<1>2. TypeOK' /\ CommitInv /\ [Next]_vars => [Snap!Next]_(Snap!vars)
  <2> SUFFICES ASSUME TypeOK', CommitInv, [Next]_vars
               PROVE  [Snap!Next]_(Snap!vars)
    OBVIOUS
  <2> USE DEF engineVars, commitVars, editVars, writeVars, mutVars
  <2>0. TypeOK
    BY DEF CommitInv
  <2>1. CASE UNCHANGED vars
    BY <2>0, <2>1, QuietStep DEF vars
  <2>2. ASSUME NEW w \in Writers, Open(w) PROVE [Snap!Next]_(Snap!vars)
    <3>1. Opened(w) = {} /\ Opened(w)' = {[root |-> root, pages |-> live]}
      BY <2>0, <2>2 DEF CommitInv, DeleteInv, Open, Opened, TypeOK
    <3>2. ASSUME NEW v \in Writers, v # w PROVE Opened(v)' = Opened(v)
      BY <2>0, <2>2, <3>2 DEF Open, Opened, TypeOK
    <3>3. [v \in Writers |-> Opened(v)]' =
            [[v \in Writers |-> Opened(v)] EXCEPT ![w] = {[root |-> root, pages |-> live]}]
      BY <3>1, <3>2
    <3> QED
      BY <2>2, <3>1, <3>3 DEF Open, Snap!Next, Snap!Open
  <2>3. ASSUME NEW w \in Writers,
               Load(w) \/ BeginWrite(w) \/ Collect(w) \/ Abort(w) \/ BeginFinish(w)
                 \/ DelFails(w) \/ FinishThrows(w)
        PROVE  [Snap!Next]_(Snap!vars)
    <3>1. UNCHANGED <<root, live, blocks, base, baseTree>>
      BY <2>3 DEF Load, LoadPage, BeginWrite, Collect, CollectAs, Abort, BeginFinish,
         DelFails, FinishThrows
    <3>2. ASSUME NEW v \in Writers
          PROVE  (pc'[v] = "idle" \/ flag'[v]) = (pc[v] = "idle" \/ flag[v])
      <4>1. (pc'[v] = "idle") = (pc[v] = "idle")
        BY <2>0, <2>3 DEF Load, LoadPage, BeginWrite, Collect, CollectAs, Abort,
           BeginFinish, DelFails, FinishThrows, TypeOK
      <4>2. flag'[v] = flag[v]
        BY <2>0, <2>3 DEF Load, LoadPage, BeginWrite, Collect, CollectAs, Abort,
           BeginFinish, DelFails, FinishThrows, TypeOK, CommitInv, DeleteInv
      <4> QED BY <4>1, <4>2
    <3> QED
      BY <2>0, <3>1, <3>2, QuietStep
  <2>4. ASSUME NEW w \in Writers,
               LoadFails(w) \/ Close(w) \/ PutThrows(w) \/ Crash(w)
        PROVE  [Snap!Next]_(Snap!vars)
    BY <2>0, <2>4, ForgetCloses DEF LoadFails, Close, PutThrows, Crash
  <2>5. ASSUME NEW w \in Writers, PutOne(w) \/ PutFails(w)
        PROVE  [Snap!Next]_(Snap!vars)
    BY <2>0, <2>5, PutPuts
  <2>6. ASSUME NEW w \in Writers, Publish(w) PROVE [Snap!Next]_(Snap!vars)
    BY <2>6, PublishCommits
  <2>7. ASSUME NEW w \in Writers, DelOne(w) PROVE [Snap!Next]_(Snap!vars)
    BY <2>7, DeleteRemoves
  <2>8. ASSUME NEW w \in Writers, FinishReturns(w) PROVE [Snap!Next]_(Snap!vars)
    <3>1. CASE DeleteList(w) \subseteq done[w]
      BY <2>0, <2>8, <3>1, ForgetCloses DEF FinishReturns
    <3>2. CASE ~(DeleteList(w) \subseteq done[w])
      <4>1. UNCHANGED <<root, live, blocks, base, baseTree, flag>>
        BY <2>8, <3>2 DEF FinishReturns
      <4>2. \A v \in Writers : (pc'[v] = "idle") = (pc[v] = "idle")
        BY <2>0, <2>8, <3>2 DEF FinishReturns, TypeOK
      <4> QED
        BY <2>0, <4>1, <4>2, QuietStep
    <3> QED BY <3>1, <3>2
  <2> QED
    BY <2>1, <2>2, <2>3, <2>4, <2>5, <2>6, <2>7, <2>8 DEF Next
<1> QED
  BY <1>1, <1>2, CommitInvariant, TypeCorrect, PTL DEF Spec, Snap!Spec, IsSnapshotStore

-----------------------------------------------------------------------------
(* What is left over: every block of the engine is a page of the committed *)
(* tree, or on a list that some session has still to work off, or one that *)
(* a named failure has lost.                                               *)

\* The variables of session v stay as they are.
Untouched(v) ==
  /\ pc'[v] = pc[v] /\ loaded'[v] = loaded[v]
  /\ pages'[v] = pages[v] /\ created'[v] = created[v]
  /\ obsolete'[v] = obsolete[v] /\ done'[v] = done[v]
  /\ success'[v] = success[v] /\ flag'[v] = flag[v]

\* While other sessions step, a session answers for the same blocks.
LEMMA UntouchedOwned ==
  ASSUME NEW v \in Writers, Untouched(v)
  PROVE  Owned(v)' = IF pc[v] \in {"putting", "written"} THEN pages[v] \cap blocks'
                     ELSE IF pc[v] \in {"finishing", "deleting"}
                     THEN DeleteList(v) \cap blocks' ELSE {}
  BY DEF Untouched, Owned, DeleteList

\* What another session puts is on none of the lists of a session.
LEMMA UntouchedList ==
  ASSUME CommitInv, NEW v \in Writers, NEW w \in Writers, v # w, ListInv(v),
         Untouched(v), leaked \subseteq leaked',
         \/ blocks' \subseteq blocks
         \/ blocks' \subseteq blocks \cup pages[w] /\ ~flag[w]
  PROVE  ListInv(v)'
<1>1. DeleteList(v)' = DeleteList(v)
  BY DEF Untouched, DeleteList
<1>2. PairInv(w, v) /\ pages[w] \cap pages[v] = {}
  BY DEF CommitInv, PairInv
<1>3. DeleteList(v) \subseteq pages[v] \cup baseTree[v]
  BY DEF CommitInv, DeleteList, DeleteInv, CreatedInv, SnapshotInv
<1>4. ASSUME pc[v] = "deleting" PROVE done[v] \cap blocks' \subseteq leaked'
  <2>1. done[v] \subseteq pages[v] \cup baseTree[v]
    BY <1>3, <1>4 DEF ListInv
  <2> QED
    BY <1>2, <1>4, <2>1 DEF ListInv, PairInv
<1>5. pc[v] \in {"putting", "written"} =>
        pages[v] \cap blocks' \subseteq created[v] \cup leaked'
  BY <1>2 DEF ListInv
<1> QED
  BY <1>1, <1>4, <1>5 DEF ListInv, Untouched

\* It is enough to look at the blocks and the lists of the session that steps.
LEMMA AccountStep ==
  ASSUME CommitInv, AccountInv, NEW w \in Writers,
         \A v \in Writers : v # w => Untouched(v),
         leaked \subseteq leaked',
         \/ blocks' \subseteq blocks
         \/ blocks' \subseteq blocks \cup pages[w] /\ ~flag[w],
         (blocks' \ blocks) \subseteq live' \cup leaked' \cup Owned(w)',
         (live \cup Owned(w)) \cap blocks' \subseteq live' \cup leaked' \cup Owned(w)',
         ListInv(w)'
  PROVE  AccountInv'
<1>1. ASSUME NEW v \in Writers PROVE ListInv(v)'
  <2>1. CASE v = w
    BY <2>1
  <2>2. CASE v # w
    BY <2>2, UntouchedList DEF AccountInv
  <2> QED BY <2>1, <2>2
<1>2. ASSUME NEW x \in blocks', x \notin live', x \notin leaked'
      PROVE  \E v \in Writers : x \in Owned(v)'
  <2>1. CASE x \notin blocks \/ x \in live \cup Owned(w)
    BY <1>2, <2>1
  <2>2. CASE x \in blocks /\ x \notin live \cup Owned(w)
    <3>1. PICK v \in Writers : x \in Owned(v)
      BY <1>2, <2>2 DEF AccountInv, GarbageAccounted
    <3>2. v # w /\ Untouched(v)
      BY <2>2, <3>1
    <3>3. x \in Owned(v)'
      BY <1>2, <3>1, <3>2, UntouchedOwned DEF Owned
    <3> QED BY <3>3
  <2> QED BY <2>1, <2>2
<1> QED
  BY <1>1, <1>2 DEF AccountInv, GarbageAccounted

-----------------------------------------------------------------------------
(* The steps *)

\* A session that is forgotten owns nothing: what it answered for is lost.
LEMMA ForgetAccount ==
  ASSUME CommitInv, AccountInv, NEW w \in Writers, Forget(w), blocks' = blocks,
         live' = live, leaked \subseteq leaked', Owned(w) \subseteq leaked'
  PROVE  AccountInv'
<1>1. \A v \in Writers : v # w => Untouched(v)
  BY DEF CommitInv, TypeOK, Forget, Untouched
<1>2. ListInv(w)'
  BY DEF CommitInv, TypeOK, Forget, ListInv
<1> QED
  BY <1>1, <1>2, AccountStep

\* Opening and loading change nothing that a session answers for.
LEMMA EditAccount ==
  ASSUME CommitInv, AccountInv, NEW w \in Writers, Open(w) \/ Load(w)
  PROVE  AccountInv'
<1> USE DEF engineVars, commitVars, editVars, writeVars, mutVars
<1>1. /\ \A v \in Writers : v # w => Untouched(v)
      /\ blocks' = blocks /\ live' = live /\ leaked' = leaked
      /\ pc[w] \in {"idle", "editing"} /\ pc'[w] = "editing"
      /\ done' = done
  BY DEF CommitInv, TypeOK, Open, Load, LoadPage, Untouched
<1>2. Owned(w) = {}
  BY <1>1 DEF Owned
<1>3. ListInv(w)'
  BY <1>1 DEF AccountInv, ListInv
<1> QED
  BY <1>1, <1>2, <1>3, AccountStep

\* No block is stored under a new identifier yet.
LEMMA BeginWriteAccount ==
  ASSUME SafeEngine, CommitInv, AccountInv, NEW w \in Writers, BeginWrite(w)
  PROVE  AccountInv'
<1> USE DEF engineVars, commitVars, editVars, writeVars, mutVars
<1>1. PICK n \in 0..MaxNew : \E N \in SUBSET IdsFor(ctr..(ctr + n - 1)) :
        \E kept \in SUBSET Frontier(w) : \E top \in N :
          Serialize(w, n, N, kept, top)
  BY BeginWriteParts DEF CommitInv, SafeEngine
<1>2. PICK N \in SUBSET IdsFor(ctr..(ctr + n - 1)), kept \in SUBSET Frontier(w) :
        \E top \in N : Serialize(w, n, N, kept, top)
  BY <1>1
<1>3. pages' = [pages EXCEPT ![w] = N] /\ N \subseteq ctr..(ctr + n - 1)
  BY <1>2 DEF Serialize, IdsFor, SafeEngine
<1>4. N \cap blocks = {}
  <2>1. \A x \in blocks : x \in Int /\ x < ctr
    BY ConstantsAssumption DEF CommitInv, CommittedInv, Issued, Ids
  <2>2. ctr \in Int /\ n \in Int
    BY ConstantsAssumption DEF CommitInv, TypeOK
  <2>3. \A x \in N : x >= ctr
    BY <1>3, <2>2
  <2> QED
    BY <2>1, <2>2, <2>3
<1>5. /\ \A v \in Writers : v # w => Untouched(v)
      /\ blocks' = blocks /\ live' = live /\ leaked' = leaked
      /\ pc[w] = "editing" /\ pc'[w] = "putting"
      /\ done' = done /\ pages'[w] = N
  BY <1>3 DEF CommitInv, TypeOK, BeginWrite, Untouched
<1>6. Owned(w) = {}
  BY <1>5 DEF Owned
<1>7. ListInv(w)'
  BY <1>4, <1>5 DEF AccountInv, ListInv
<1> QED
  BY <1>5, <1>6, <1>7, AccountStep

\* A block that was put is listed, whatever is said of it, or lost.
LEMMA PutAccount ==
  ASSUME CommitInv, AccountInv, NEW w \in Writers, PutOne(w) \/ PutFails(w)
  PROVE  AccountInv'
<1> USE DEF engineVars, commitVars, editVars, writeVars, mutVars
<1>1. /\ \A v \in Writers : v # w => Untouched(v)
      /\ pc[w] = "putting" /\ pc'[w] = "putting" /\ live' = live
      /\ pages' = pages /\ done' = done /\ leaked \subseteq leaked'
      /\ created[w] \subseteq created'[w]
  BY DEF CommitInv, TypeOK, PutOne, PutFails, Untouched
<1>2. ~flag[w] /\ pending[w] \subseteq pages[w]
  BY <1>1 DEF CommitInv, DeleteInv, CreatedInv
<1>3. /\ blocks \subseteq blocks' /\ blocks' \subseteq blocks \cup pages[w]
      /\ blocks' \ blocks \subseteq created'[w] \cup leaked'
  BY <1>2 DEF CommitInv, TypeOK, PutOne, PutFails
<1>4. Owned(w)' = pages[w] \cap blocks' /\ Owned(w) = pages[w] \cap blocks
  BY <1>1 DEF Owned
<1>5. ListInv(w)'
  BY <1>1, <1>3 DEF AccountInv, ListInv
<1> QED
  BY <1>1, <1>2, <1>3, <1>4, <1>5, AccountStep

\* write() lists the pages that were loaded.
LEMMA CollectAccount ==
  ASSUME CommitInv, AccountInv, NEW w \in Writers, Collect(w)
  PROVE  AccountInv'
<1> USE DEF engineVars, commitVars, editVars, writeVars, mutVars
<1>1. /\ \A v \in Writers : v # w => Untouched(v)
      /\ blocks' = blocks /\ live' = live /\ leaked' = leaked
      /\ pc[w] = "putting" /\ pc'[w] = "written"
      /\ pages' = pages /\ done' = done /\ created' = created
      /\ loaded' = loaded /\ obsolete'[w] = loaded[w]
  BY DEF CommitInv, TypeOK, Collect, CollectAs, Untouched
<1>2. Owned(w)' = Owned(w)
  BY <1>1 DEF Owned
<1>3. ListInv(w)'
  BY <1>1 DEF AccountInv, ListInv
<1> QED
  BY <1>1, <1>2, <1>3, AccountStep

\* A commit keeps what it wrote, and answers for what it loaded; what it dropped
\* without having loaded it is lost.
LEMMA PublishAccount ==
  ASSUME CommitInv, AccountInv, NEW w \in Writers, Publish(w)
  PROVE  AccountInv'
<1> USE DEF engineVars, commitVars, editVars, writeVars, mutVars
<1>1. /\ \A v \in Writers : v # w => Untouched(v)
      /\ blocks' = blocks /\ live' = newTree[w]
      /\ leaked' = leaked \cup ((baseTree[w] \ loaded[w]) \ newTree[w])
      /\ pc[w] = "written" /\ pc'[w] = "finishing"
      /\ flag'[w] = TRUE /\ success[w] /\ success' = success
      /\ done' = done /\ obsolete' = obsolete /\ base[w] = root
  BY DEF CommitInv, TypeOK, Publish, Untouched
<1>2. live = baseTree[w] /\ pages[w] \subseteq newTree[w]
  BY <1>1 DEF CommitInv, SnapshotInv, WriteInv, DeleteInv
<1>3. Owned(w)' = obsolete[w] \cap blocks /\ Owned(w) = pages[w] \cap blocks
  BY <1>1 DEF Owned, DeleteList
<1>4. loaded[w] \subseteq obsolete[w]
  BY <1>1 DEF AccountInv, ListInv
<1>5. ListInv(w)'
  BY <1>1 DEF AccountInv, ListInv
<1> QED
  BY <1>1, <1>2, <1>3, <1>4, <1>5, AccountStep

\* A mutation that is given up answers for what it has put.
LEMMA AbortAccount ==
  ASSUME CommitInv, AccountInv, NEW w \in Writers, Abort(w)
  PROVE  AccountInv'
<1> USE DEF engineVars, commitVars, editVars, writeVars, mutVars
<1>1. /\ \A v \in Writers : v # w => Untouched(v)
      /\ blocks' = blocks /\ live' = live /\ leaked' = leaked
      /\ pc[w] = "written" /\ pc'[w] = "finishing"
      /\ flag'[w] = FALSE /\ done' = done /\ created' = created
  BY DEF CommitInv, TypeOK, Abort, Untouched
<1>2. Owned(w)' = created[w] \cap blocks /\ Owned(w) = pages[w] \cap blocks
  BY <1>1 DEF Owned, DeleteList
<1>3. pages[w] \cap blocks \subseteq created[w] \cup leaked
  BY <1>1 DEF AccountInv, ListInv
<1>4. ListInv(w)'
  BY <1>1 DEF AccountInv, ListInv
<1> QED
  BY <1>1, <1>2, <1>3, <1>4, AccountStep

\* A session that begins to delete answers for the same blocks, and those that
\* it deletes are gone, or lost if they are not.
LEMMA DeleteAccount ==
  ASSUME CommitInv, AccountInv, NEW w \in Writers,
         BeginFinish(w) \/ DelOne(w) \/ DelFails(w)
  PROVE  AccountInv'
<1> USE DEF engineVars, commitVars, editVars, writeVars, mutVars
<1>1. /\ \A v \in Writers : v # w => Untouched(v)
      /\ blocks' \subseteq blocks /\ live' = live /\ leaked \subseteq leaked'
      /\ pc[w] \in {"finishing", "deleting"} /\ pc'[w] = "deleting"
      /\ created' = created /\ obsolete' = obsolete
      /\ flag' = flag /\ success' = success
  BY DEF CommitInv, TypeOK, BeginFinish, DelOne, DelFails, Untouched
<1>2. DeleteList(w)' = DeleteList(w)
  BY <1>1 DEF DeleteList
<1>3. /\ Owned(w)' = DeleteList(w) \cap blocks'
      /\ Owned(w) = DeleteList(w) \cap blocks
  BY <1>1, <1>2 DEF Owned
<1>4. done'[w] \subseteq DeleteList(w) /\ done'[w] \cap blocks' \subseteq leaked'
  <2>1. CASE BeginFinish(w)
    BY <2>1 DEF BeginFinish, AccountInv, ListInv
  <2>2. CASE DelOne(w)
    BY <2>2 DEF DelOne, AccountInv, ListInv, CommitInv, DeleteInv, TypeOK
  <2>3. CASE DelFails(w)
    BY <2>3 DEF DelFails, AccountInv, ListInv
  <2> QED BY <2>1, <2>2, <2>3
<1>5. ListInv(w)'
  BY <1>1, <1>2, <1>4 DEF ListInv
<1> QED
  BY <1>1, <1>3, <1>5, AccountStep

\* Only deleted blocks leave the list, and those that stay are tried again.
LEMMA FinishAccount ==
  ASSUME SafeEngine, CommitInv, AccountInv, NEW w \in Writers,
         FinishReturns(w) \/ FinishThrows(w)
  PROVE  AccountInv'
<1> USE DEF engineVars, commitVars, editVars, writeVars, mutVars
<1>1. /\ blocks' = blocks /\ live' = live /\ leaked' = leaked
      /\ pc[w] = "deleting"
  BY DEF FinishReturns, FinishThrows
<1>2. Owned(w) = DeleteList(w) \cap blocks /\ done[w] \cap blocks \subseteq leaked
  BY <1>1 DEF Owned, AccountInv, ListInv
<1>3. CASE Forget(w)
  <2>1. DeleteList(w) \subseteq done[w]
    BY <1>1, <1>3 DEF FinishReturns, FinishThrows, Forget, CommitInv, TypeOK
  <2> QED
    BY <1>1, <1>2, <1>3, <2>1, ForgetAccount
<1>4. CASE ~Forget(w)
  <2>1. /\ \A v \in Writers : v # w => Untouched(v)
        /\ pc'[w] = "finishing" /\ done'[w] = {}
    BY <1>4 DEF FinishReturns, FinishThrows, CommitInv, TypeOK, Untouched
  <2>2. DeleteList(w) \ done[w] \subseteq DeleteList(w)'
    <3>1. CASE FinishReturns(w)
      BY <1>4, <3>1 DEF FinishReturns, DeleteList, CommitInv, TypeOK
    <3>2. CASE FinishThrows(w)
      BY <3>2 DEF FinishThrows, DeleteList, SafeEngine
    <3> QED BY <3>1, <3>2
  <2>3. ListInv(w)'
    BY <2>1 DEF ListInv
  <2>4. Owned(w)' = DeleteList(w)' \cap blocks
    BY <1>1, <2>1 DEF Owned
  <2> QED
    BY <1>1, <1>2, <2>1, <2>2, <2>3, <2>4, AccountStep
<1> QED BY <1>3, <1>4

\* Blocks and lists stay accounted for in every reachable state.
LEMMA AccountInvariant == ASSUME SafeEngine PROVE Spec => []AccountInv
<1>1. Init => AccountInv
  BY DEF Init, AccountInv, GarbageAccounted, ListInv
<1>2. CommitInv /\ AccountInv /\ [Next]_vars => AccountInv'
  <2> SUFFICES ASSUME CommitInv, AccountInv, [Next]_vars PROVE AccountInv'
    OBVIOUS
  <2>1. CASE UNCHANGED vars
    BY <2>1 DEF vars, engineVars, commitVars, editVars, writeVars, mutVars, AccountInv,
       GarbageAccounted, ListInv, Owned, DeleteList
  <2>2. ASSUME NEW w \in Writers, LoadFails(w) \/ Close(w) PROVE AccountInv'
    BY <2>2, ForgetAccount DEF LoadFails, Close, Owned, engineVars, commitVars
  <2>3. ASSUME NEW w \in Writers, PutThrows(w) \/ Crash(w) PROVE AccountInv'
    BY <2>3, ForgetAccount DEF PutThrows, Crash, engineVars, commitVars
  <2> QED
    BY <2>1, <2>2, <2>3, EditAccount, BeginWriteAccount, PutAccount, CollectAccount,
       PublishAccount, AbortAccount, DeleteAccount, FinishAccount DEF Next
<1>3. Spec => []CommitInv
  BY CommitInvariant
<1> QED
  BY <1>1, <1>2, <1>3, PTL DEF Spec

-----------------------------------------------------------------------------
\* Every block of the engine belongs to the committed tree, or is on the list of
\* a session that has still to delete or to write it, or was lost by a put_all
\* that threw, a lost answer, a dropped branch or a crash, and by nothing else
\* (mutation::m_createdIDs, m_obsoleteIDs).
THEOREM NothingForgotten == ASSUME SafeEngine PROVE Spec => []GarbageAccounted
<1>1. AccountInv => GarbageAccounted
  BY DEF AccountInv
<1> QED
  BY <1>1, AccountInvariant, PTL

-----------------------------------------------------------------------------
(* What a write replaces *)

\* Less-than on the natural numbers, as the set of its pairs.
LessPairs == {p \in Nat \X Nat : p[1] < p[2]}

\* A set of identifiers that is not empty has a largest one.
LEMMA LargestId ==
  ASSUME NEW S \in SUBSET Ids, S # {}
  PROVE  \E m \in S : \A x \in S : x <= m
<1> DEFINE T == {MaxId - x : x \in S}
<1>1. T \subseteq Nat /\ T # {}
  BY ConstantsAssumption DEF Ids
<1>2. IsWellFoundedOn(LessPairs, Nat)
  BY NatLessThanWellFounded, Zenon DEF OpToRel, LessPairs
<1>3. PICK d \in T : \A e \in T : <<e, d>> \notin LessPairs
  BY <1>1, <1>2, WFMin
<1>4. PICK m \in S : d = MaxId - m
  BY <1>3
<1>5. ASSUME NEW x \in S PROVE x <= m
  <2>1. <<MaxId - x, d>> \in (Nat \X Nat) \ LessPairs
    BY <1>1, <1>3
  <2>2. ~(MaxId - x < MaxId - m)
    BY <1>4, <2>1 DEF LessPairs
  <2> QED
    BY <2>2, ConstantsAssumption DEF Ids
<1> QED BY <1>5

\* What is reachable from pages does not change while it keeps its references.
LEMMA ReachSame ==
  ASSUME NEW S \in SUBSET Ids, TypeOK, TypeOK',
         \A x \in Reach(S) : kids'[x] = kids[x]
  PROVE  Reach(S)' = Reach(S)
<1>1. S \subseteq Reach(S) /\ Closed(Reach(S)) /\ Reach(S) \in SUBSET Ids
  BY ReachClosed DEF TypeOK, Reach
<1>2. Reach(S)' \subseteq Reach(S)
  BY <1>1 DEF Reach, Closed
<1>3. ASSUME NEW T \in SUBSET Ids, S \subseteq T, Closed(T)'
      PROVE  Reach(S) \subseteq T
  <2>1. Closed(T \cap Reach(S))
    BY <1>1, <1>3 DEF Closed
  <2> QED
    BY <1>1, <1>3, <2>1 DEF Reach
<1>4. Reach(S) \subseteq Reach(S)'
  BY <1>1, <1>3 DEF Reach
<1> QED
  BY <1>2, <1>4

\* The unloaded part of a snapshot is reachable from the pages that loaded ones
\* refer to, once the root is loaded.
LEMMA UnloadedReachable ==
  ASSUME TypeOK, NEW w \in Writers, baseTree[w] = PagesOf(base[w]),
         base[w] # None => base[w] \in loaded[w]
  PROVE  baseTree[w] \ loaded[w] \subseteq Reach(Frontier(w))
<1>1. CASE base[w] = None
  BY <1>1 DEF PagesOf
<1>2. CASE base[w] # None
  <2> DEFINE F == Frontier(w)
             T == loaded[w] \cup Reach(F)
  <2>1. F \in SUBSET Ids /\ loaded[w] \in SUBSET Ids
    BY DEF TypeOK, Frontier
  <2>2. F \subseteq Reach(F) /\ Closed(Reach(F)) /\ Reach(F) \in SUBSET Ids
    BY <2>1, ReachClosed DEF TypeOK, Reach
  <2>3. \A x \in loaded[w] : kids[x] \subseteq loaded[w] \cup F
    BY DEF Frontier
  <2>4. T \in SUBSET Ids /\ Closed(T) /\ {base[w]} \subseteq T
    BY <1>2, <2>1, <2>2, <2>3 DEF Closed
  <2>5. Reach({base[w]}) \subseteq T
    BY <2>4 DEF Reach
  <2> QED
    BY <1>2, <2>5 DEF PagesOf
<1> QED BY <1>1, <1>2

\* The tree that write() serializes is what can be reached from its top: every
\* new page has a parent with a larger identifier, up to the top.
LEMMA SerializeReach ==
  ASSUME CommitInv, CommitInv', NEW w \in Writers,
         NEW n, NEW N, N \in SUBSET (Ids \ Issued),
         NEW kept, kept \in SUBSET Frontier(w), NEW top, top \in N,
         SerializeTree(w, n, N, kept, top)
  PROVE  PagesOf(top)' = N \cup Reach(kept)
<1>a. newTree'[w] = N \cup Reach(kept)
  BY DEF SerializeTree, CommitInv, TypeOK
<1>1. /\ N \subseteq Ids /\ kept \subseteq Ids
      /\ \A x \in Issued : x \notin N
  BY DEF CommitInv, TypeOK, Frontier
<1>2. top # None
  BY <1>1, NoneAssumption
<1>3. PICK parent \in [(N \ {top}) \cup kept -> N] :
        /\ \A y \in N \ {top} : y < parent[y]
        /\ kids' = [b \in Ids |-> IF b \in N
                     THEN {y \in (N \ {top}) \cup kept : parent[y] = b}
                     ELSE kids[b]]
  BY DEF SerializeTree
<1>4. Reach({top})' \subseteq N \cup Reach(kept)
  <2>1. PICK T \in SUBSET Ids : T = newTree'[w]
    BY DEF CommitInv, TypeOK
  <2>2. Closed(newTree[w])'
    BY DEF CommitInv, TreeInv, IsTree
  <2>3. {top} \subseteq T /\ Closed(T)'
    BY <1>a, <2>1, <2>2 DEF Closed
  <2> QED
    BY <1>a, <2>1, <2>3 DEF Reach
<1>5. ASSUME NEW T \in SUBSET Ids, top \in T, Closed(T)'
      PROVE  N \cup Reach(kept) \subseteq T
  <2>1. N \subseteq T
    <3>1. SUFFICES ASSUME N \ T # {} PROVE FALSE
      OBVIOUS
    <3>2. PICK m \in N \ T : \A x \in N \ T : x <= m
      BY <1>1, <3>1, LargestId
    <3>3. m \in N \ {top} /\ m < parent[m] /\ parent[m] \in N
      BY <1>3, <1>5, <3>2
    <3>4. m \in kids'[parent[m]]
      BY <1>1, <1>3, <3>3
    <3>5. parent[m] \notin T
      BY <1>5, <3>2, <3>4 DEF Closed
    <3>6. parent[m] <= m /\ m \in Int /\ parent[m] \in Int
      <4>1. parent[m] \in N \ T
        BY <3>3, <3>5
      <4>2. parent[m] \in Ids /\ m \in Ids
        BY <1>1, <3>2, <4>1
      <4> QED
        BY <3>2, <4>1, <4>2, ConstantsAssumption DEF Ids
    <3> QED
      BY <3>3, <3>6
  <2>2. kept \subseteq T
    <3> SUFFICES ASSUME NEW y \in kept PROVE y \in T
      OBVIOUS
    <3>1. parent[y] \in N /\ y \in kids'[parent[y]]
      BY <1>1, <1>3
    <3> QED
      BY <1>5, <2>1, <3>1 DEF Closed
  <2>3. Reach(kept) \subseteq baseTree[w] /\ Closed(Reach(kept)) /\ kept \subseteq Reach(kept)
    <3>1. kept \subseteq baseTree[w]
      BY DEF Frontier, CommitInv, TreeInv, IsTree, Closed, SnapshotInv
    <3>2. Closed(baseTree[w]) /\ baseTree[w] \in SUBSET Ids
      BY DEF CommitInv, TreeInv, IsTree, TypeOK
    <3> QED
      BY <1>1, <3>1, <3>2, ReachMinimal, ReachClosed DEF CommitInv, TypeOK
  <2>4. \A x \in Reach(kept) : kids'[x] = kids[x]
    BY <1>1, <1>3, <2>3 DEF CommitInv, SnapshotInv, Reach
  <2>5. Closed(T \cap Reach(kept))
    BY <1>5, <2>3, <2>4 DEF Closed
  <2> QED
    BY <2>1, <2>2, <2>3, <2>5 DEF Reach
<1>6. N \cup Reach(kept) \subseteq Reach({top})'
  BY <1>1, <1>5 DEF Reach
<1> QED
  BY <1>2, <1>4, <1>6 DEF PagesOf

\* Issued identifiers keep their references, and so does every tree of them.
LEMMA BeginWriteReach ==
  ASSUME CommitInv, CommitInv', SafeEngine, ReachInv, NEW w \in Writers,
         BeginWrite(w)
  PROVE  ReachInv'
<1> USE DEF engineVars, commitVars, editVars, mutVars
<1>a. PICK n \in 0..MaxNew : \E N \in SUBSET IdsFor(ctr..(ctr + n - 1)) :
        \E kept \in SUBSET Frontier(w) :
          /\ "dropBranch" \notin Faults => kept = Frontier(w)
          /\ \E top \in N : Serialize(w, n, N, kept, top)
  BY BeginWriteParts DEF CommitInv, SafeEngine
<1>b. PICK N \in SUBSET IdsFor(ctr..(ctr + n - 1)), kept \in SUBSET Frontier(w) :
        /\ "dropBranch" \notin Faults => kept = Frontier(w)
        /\ \E top \in N : Serialize(w, n, N, kept, top)
  BY <1>a
<1>c. PICK top \in N : Serialize(w, n, N, kept, top)
  BY <1>b
<1>1. SerializeTree(w, n, N, kept, top)
  BY <1>c, SerializeOnce DEF SafeEngine
<1>3. /\ newTree' = [newTree EXCEPT ![w] = N \cup Reach(kept)]
      /\ newRoot' = [newRoot EXCEPT ![w] = top]
      /\ pages' = [pages EXCEPT ![w] = N]
      /\ kids' = [b \in Ids |-> IF b \in N THEN kids'[b] ELSE kids[b]]
  BY <1>1 DEF SerializeTree, CommitInv, TypeOK
<1>4. \A x \in Issued : x \in Ids /\ kids'[x] = kids[x]
  BY <1>1, <1>3, ConstantsAssumption
  DEF CommitInv, TypeOK, SafeEngine, IdsFor, SerializeTree, Issued, Ids
<1>5. ASSUME NEW r, PagesOf(r) \subseteq Issued, r \in Ids \cup {None}
      PROVE  PagesOf(r)' = PagesOf(r)
  BY <1>4, <1>5, ReachSame DEF PagesOf, CommitInv
<1>6. live' = PagesOf(root)'
  BY <1>5 DEF BeginWrite, ReachInv, CommitInv, CommittedInv, TypeOK
<1>7. ASSUME NEW v \in Writers
      PROVE  baseTree'[v] = PagesOf(base[v])'
  BY <1>5 DEF BeginWrite, ReachInv, CommitInv, SnapshotInv, TypeOK
<1>8. ASSUME NEW v \in Writers
      PROVE  newTree'[v] = PagesOf(newRoot[v])'
  <2>1. CASE v = w
    <3>1. newTree'[w] = N \cup Reach(kept) /\ newRoot'[w] = top
      BY <1>3 DEF CommitInv, TypeOK
    <3>2. newTree'[w] = PagesOf(top)'
      <4>1. N \in SUBSET (Ids \ Issued)
        BY <1>1, ConstantsAssumption
        DEF CommitInv, TypeOK, SafeEngine, IdsFor, SerializeTree, Issued, Ids
      <4>2. kept \in SUBSET Frontier(w) /\ top \in N
        OBVIOUS
      <4>3. PagesOf(top)' = N \cup Reach(kept)
        BY ONLY CommitInv, CommitInv', <1>1, <4>1, <4>2, SerializeReach
      <4> QED BY <3>1, <4>3
    <3>3. PagesOf(newRoot[w])' = PagesOf(top)'
      BY ONLY <3>1 DEF PagesOf, Reach
    <3>4. newTree'[w] = PagesOf(newRoot[w])'
      BY ONLY <3>2, <3>3 DEF PagesOf, Reach
    <3> QED
      BY ONLY <2>1, <3>4 DEF PagesOf, Reach
  <2>2. CASE v # w
    <3>1. newTree[v] \subseteq Issued /\ newRoot[v] \in Ids \cup {None}
      BY DEF CommitInv, WriteInv, SnapshotInv, TypeOK
    <3>2. newTree'[v] = newTree[v] /\ newRoot'[v] = newRoot[v]
      BY <1>3, <2>2 DEF CommitInv, TypeOK
    <3> QED
      BY <1>5, <3>1, <3>2 DEF ReachInv
  <2> QED BY <2>1, <2>2
<1>9. ASSUME NEW v \in Writers, pages'[v] # {}, "dropBranch" \notin Faults
      PROVE  baseTree[v] \ loaded[v] \subseteq newTree'[v]
  <2>1. CASE v = w
    <3>1. kept = Frontier(w)
      BY <1>b, <1>9
    <3>2. base[w] # None => base[w] \in loaded[w]
      BY DEF BeginWrite, ReachInv
    <3> QED
      BY <1>3, <2>1, <3>1, <3>2, UnloadedReachable DEF ReachInv, CommitInv, TypeOK
  <2>2. CASE v # w
    BY <1>3, <1>9, <2>2 DEF ReachInv, CommitInv, TypeOK
  <2> QED BY <2>1, <2>2
<1> QED
  BY <1>6, <1>7, <1>8, <1>9 DEF ReachInv, BeginWrite

\* What can be reached only depends on the references.
LEMMA PagesOfSame ==
  ASSUME kids' = kids
  PROVE  \A r : PagesOf(r)' = PagesOf(r)
  BY DEF PagesOf, Reach, Closed

\* A session that is forgotten has no tree.
LEMMA ForgetReach ==
  ASSUME CommitInv, ReachInv, NEW w \in Writers, Forget(w), kids' = kids,
         root' = root, live' = live
  PROVE  ReachInv'
<1>1. live' = PagesOf(root)'
  BY PagesOfSame DEF ReachInv
<1>2. ASSUME NEW v \in Writers
      PROVE  /\ baseTree'[v] = PagesOf(base[v])'
             /\ newTree'[v] = PagesOf(newRoot[v])'
  <2>1. CASE v = w
    BY <2>1 DEF Forget, PagesOf, CommitInv, TypeOK
  <2>2. CASE v # w
    BY <2>2, PagesOfSame DEF Forget, ReachInv, CommitInv, TypeOK
  <2> QED BY <2>1, <2>2
<1>3. ASSUME NEW v \in Writers
      PROVE  /\ loaded'[v] # {} => base'[v] \in loaded'[v]
             /\ pages'[v] # {} /\ "dropBranch" \notin Faults =>
                  baseTree'[v] \ loaded'[v] \subseteq newTree'[v]
  BY DEF Forget, ReachInv, CommitInv, TypeOK
<1> QED
  BY <1>1, <1>2, <1>3 DEF ReachInv

\* Puts, deletes, rollbacks and calls of finish touch no tree.
LEMMA SameReach ==
  ASSUME ReachInv,
         UNCHANGED <<kids, root, live, base, baseTree, loaded, pages, newRoot, newTree>>
  PROVE  ReachInv'
  BY PagesOfSame DEF ReachInv

\* The root is loaded before any other page.
LEMMA EditReach ==
  ASSUME CommitInv, ReachInv, NEW w \in Writers, Open(w) \/ Load(w)
  PROVE  ReachInv'
<1> USE DEF engineVars, commitVars, editVars, writeVars, mutVars
<1>1. live' = PagesOf(root)'
  BY PagesOfSame DEF Open, Load, LoadPage, ReachInv
<1>2. ASSUME NEW v \in Writers
      PROVE  /\ baseTree'[v] = PagesOf(base[v])'
             /\ newTree'[v] = PagesOf(newRoot[v])'
  BY PagesOfSame DEF Open, Load, LoadPage, ReachInv, CommitInv, TypeOK
<1>3. ASSUME NEW v \in Writers
      PROVE  /\ loaded'[v] # {} => base'[v] \in loaded'[v]
             /\ pages'[v] # {} /\ "dropBranch" \notin Faults =>
                  baseTree'[v] \ loaded'[v] \subseteq newTree'[v]
  <2>1. CASE Open(w)
    BY <2>1 DEF Open, ReachInv, CommitInv, SnapshotInv, WriteInv, TypeOK
  <2>2. CASE Load(w)
    BY <2>2 DEF Load, LoadPage, Loadable, ReachInv, CommitInv, TypeOK
  <2> QED BY <2>1, <2>2
<1> QED
  BY <1>1, <1>2, <1>3 DEF ReachInv

\* A commit takes the tree of the new root over.
LEMMA PublishReach ==
  ASSUME CommitInv, ReachInv, NEW w \in Writers, Publish(w)
  PROVE  ReachInv'
  BY PagesOfSame
  DEF Publish, ReachInv, CommitInv, TypeOK, engineVars, editVars, writeVars

\* No step of any session breaks it.
LEMMA ReachInvStep ==
  ASSUME SafeEngine, CommitInv, CommitInv', ReachInv, [Next]_vars
  PROVE  ReachInv'
<1> USE DEF engineVars, commitVars, editVars, writeVars, mutVars
<1>1. CASE UNCHANGED vars
  BY <1>1, SameReach DEF vars
<1>2. ASSUME NEW w \in Writers,
             LoadFails(w) \/ Close(w) \/ PutThrows(w) \/ Crash(w)
      PROVE  ReachInv'
  BY <1>2, ForgetReach DEF LoadFails, Close, PutThrows, Crash
<1>3. ASSUME NEW w \in Writers,
             \/ PutOne(w) \/ PutFails(w) \/ Collect(w) \/ Abort(w)
             \/ BeginFinish(w) \/ DelOne(w) \/ DelFails(w) \/ FinishThrows(w)
      PROVE  ReachInv'
  BY <1>3, SameReach
  DEF PutOne, PutFails, Collect, CollectAs, Abort, BeginFinish, DelOne, DelFails,
      FinishThrows
<1>4. ASSUME NEW w \in Writers, FinishReturns(w) PROVE ReachInv'
  BY <1>4, ForgetReach, SameReach DEF FinishReturns
<1> QED
  BY <1>1, <1>2, <1>3, <1>4, EditReach, BeginWriteReach, PublishReach DEF Next

\* It holds in every reachable state.
LEMMA ReachInvariant == ASSUME SafeEngine PROVE Spec => []ReachInv
<1>1. Init => ReachInv
  BY DEF Init, ReachInv, PagesOf
<1>2. CommitInv /\ CommitInv' /\ ReachInv /\ [Next]_vars => ReachInv'
  BY ReachInvStep
<1>3. Spec => []CommitInv
  BY CommitInvariant
<1> QED
  BY <1>1, <1>2, <1>3, PTL DEF Spec

-----------------------------------------------------------------------------
\* If updateBranch erases no branch above unloaded pages, then what write()
\* reports is exact: the tree of the new root is the pages it wrote and the pages
\* of the old tree that it does not list as obsolete, whatever fails
\* (tree_impl::collectBlocksRec, collectMutation).
THEOREM MutationExact ==
  ASSUME SafeEngine, "dropBranch" \notin Faults
  PROVE  Spec => []RewriteExact
<1>1. CommitInv /\ AccountInv /\ ReachInv => RewriteExact
  <2> SUFFICES ASSUME CommitInv, AccountInv, ReachInv, NEW w \in Writers,
                      pc[w] = "written"
               PROVE  /\ newTree[w] = Reach({newRoot[w]})
                      /\ newTree[w] \cap obsolete[w] = {}
                      /\ pages[w] \cup (baseTree[w] \ obsolete[w]) = newTree[w]
    BY DEF RewriteExact
  <2>1. pages[w] # {} /\ newRoot[w] \in pages[w]
    BY DEF CommitInv, WriteInv
  <2>2. newRoot[w] # None
    BY <2>1, NoneAssumption DEF CommitInv, TypeOK
  <2>3. obsolete[w] = loaded[w] /\ loaded[w] \subseteq baseTree[w]
    BY DEF CommitInv, DeleteInv, SnapshotInv, AccountInv, ListInv
  <2>4. /\ newTree[w] \subseteq pages[w] \cup (baseTree[w] \ loaded[w])
        /\ pages[w] \subseteq newTree[w] /\ pages[w] \cap baseTree[w] = {}
    BY DEF CommitInv, WriteInv
  <2>5. baseTree[w] \ loaded[w] \subseteq newTree[w]
    BY <2>1 DEF ReachInv
  <2> QED
    BY <2>2, <2>3, <2>4, <2>5 DEF ReachInv, PagesOf
<1>2. Spec => []CommitInv /\ []AccountInv /\ []ReachInv
  BY CommitInvariant, AccountInvariant, ReachInvariant
<1> QED
  BY <1>1, <1>2, PTL

\* The failures after which a block stays that nobody will delete.
LosingFaults == {"putLost", "putThrows", "delLost", "dropBranch", "crash"}

\* If nothing is lost, then the engine holds the committed tree and nothing else
\* as soon as no session is open, also if puts, deletes and loads failed before:
\* their mutations were finished until everything on their lists was deleted
\* (bruce.h:58-72).
THEOREM NothingLeft ==
  ASSUME SafeEngine, Faults \cap LosingFaults = {}
  PROVE  Spec => []QuiescentClean
<1> USE DEF LosingFaults
<1>1. Init => leaked = {}
  BY DEF Init
<1>2. CommitInv /\ ReachInv /\ leaked = {} /\ [Next]_vars => (leaked = {})'
  <2> SUFFICES ASSUME CommitInv, ReachInv, leaked = {}, [Next]_vars PROVE leaked' = {}
    OBVIOUS
  <2>1. ASSUME NEW w \in Writers, Publish(w) PROVE leaked' = {}
    BY <2>1 DEF Publish, ReachInv, CommitInv, WriteInv
  <2>2. ASSUME NEW w \in Writers, ~Publish(w), 
               \/ Open(w) \/ Load(w) \/ LoadFails(w) \/ Close(w) \/ BeginWrite(w)
               \/ PutOne(w) \/ PutFails(w) \/ PutThrows(w) \/ Collect(w)
               \/ Abort(w) \/ BeginFinish(w) \/ DelOne(w) \/ DelFails(w)
               \/ FinishReturns(w) \/ FinishThrows(w) \/ Crash(w)
        PROVE  leaked' = {}
    BY <2>2 DEF Open, Load, LoadPage, LoadFails, Close, BeginWrite, PutOne, PutFails,
       PutThrows, Collect, CollectAs, Abort, BeginFinish, DelOne, DelFails,
       FinishReturns, FinishThrows, Crash
  <2> QED
    BY <2>1, <2>2 DEF Next, vars
<1>3. CommitInv /\ AccountInv /\ ReachInv /\ leaked = {} => QuiescentClean
  <2> SUFFICES ASSUME CommitInv, AccountInv, ReachInv, leaked = {},
                      \A w \in Writers : pc[w] = "idle"
               PROVE  blocks = PagesOf(root)
    BY DEF QuiescentClean, PagesOf
  <2>1. \A w \in Writers : Owned(w) = {}
    BY DEF Owned
  <2> QED
    BY <2>1 DEF CommitInv, CommittedInv, ReachInv, AccountInv, GarbageAccounted
<1>4. Spec => []CommitInv /\ []AccountInv /\ []ReachInv
  BY CommitInvariant, AccountInvariant, ReachInvariant
<1> QED
  BY <1>1, <1>2, <1>3, <1>4, PTL DEF Spec
=============================================================================
