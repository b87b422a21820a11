--------------------------- MODULE SnapshotsProofs ---------------------------
(***************************************************************************)
(* What follows from Snapshots for every number of sessions and pages: the *)
(* current version is always stored in full, and its root stands for it    *)
(* alone.                                                                  *)
(***************************************************************************)
EXTENDS Snapshots, TLAPS

\* Every variable has its type, and every version its root.
THEOREM SnapshotsType ==
  ASSUME NoRoot \notin PageIds PROVE Spec => []TypeOK
<1>1. Init => TypeOK
  BY DEF Init, TypeOK, Versions, NoVersion, Rooted
<1>2. TypeOK /\ [Next]_vars => TypeOK'
  <2> SUFFICES ASSUME TypeOK, [Next]_vars PROVE TypeOK'
    OBVIOUS
  <2>1. CASE UNCHANGED vars
    BY <2>1 DEF TypeOK, vars, Rooted
  <2>2. ASSUME NEW w \in Sessions, Open(w) \/ Close(w) PROVE TypeOK'
    BY <2>2 DEF TypeOK, Open, Close
  <2>3. ASSUME NEW p \in PageIds, Put(p) \/ Remove(p) PROVE TypeOK'
    BY <2>3 DEF TypeOK, Put, Remove
  <2>4. ASSUME NEW w \in Sessions, NEW new \in Versions, Commit(w, new)
        PROVE  TypeOK'
    <3>1. Rooted(new)
      BY <2>4 DEF Commit, Fresh, Rooted, Versions, TypeOK
    <3> QED
      BY <2>4, <3>1 DEF TypeOK, Commit
  <2> QED
    BY <2>1, <2>2, <2>3, <2>4 DEF Next
<1> QED
  BY <1>1, <1>2, PTL DEF Spec

\* The current version can be read, and no session has another version open
\* under its root: a root that was replaced never comes back.
THEOREM SnapshotsReadable ==
  ASSUME NoRoot \notin PageIds PROVE Spec => []CurrentReadable
<1>1. Init => CurrentReadable
  BY DEF Init, CurrentReadable, NoVersion
<1>2. TypeOK /\ CurrentReadable /\ [Next]_vars => CurrentReadable'
  <2> SUFFICES ASSUME TypeOK, CurrentReadable, [Next]_vars
               PROVE  CurrentReadable'
    OBVIOUS
  <2>1. CASE UNCHANGED vars
    BY <2>1 DEF CurrentReadable, vars
  <2>2. ASSUME NEW w \in Sessions, Open(w) \/ Close(w) PROVE CurrentReadable'
    BY <2>2 DEF CurrentReadable, TypeOK, Open, Close
  <2>3. ASSUME NEW p \in PageIds, Put(p) \/ Remove(p) PROVE CurrentReadable'
    BY <2>3 DEF CurrentReadable, Put, Remove
  <2>4. ASSUME NEW w \in Sessions, NEW new \in Versions, Commit(w, new)
        PROVE  CurrentReadable'
    <3>1. ASSUME NEW v \in Sessions, NEW old \in seen[v] PROVE old.root # new.root
      BY <2>4 DEF Commit, Fresh, TypeOK, Rooted, Versions
    <3> QED
      BY <2>4, <3>1 DEF CurrentReadable, Commit, TypeOK
  <2> QED
    BY <2>1, <2>2, <2>3, <2>4 DEF Next
<1> QED
  BY <1>1, <1>2, SnapshotsType, PTL DEF Spec
=============================================================================
