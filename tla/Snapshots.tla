------------------------------ MODULE Snapshots ------------------------------
(***************************************************************************)
(* What the sessions on one engine are promised: the committed tree goes   *)
(* from version to version, each made by a session that saw exactly the    *)
(* version it replaces, of pages that are stored; and a page of the        *)
(* current version is never removed, whatever else comes and goes.         *)
(***************************************************************************)
CONSTANTS
  Sessions,  \* who opens versions
  PageIds,   \* identifiers of pages
  NoRoot     \* the root of the empty version, not a page

VARIABLES
  version,  \* the current version, its root and its pages
  stored,   \* the pages that can be read
  seen      \* the version that each session has open: a set of at most one

vars == <<version, stored, seen>>

Versions == [root : PageIds \cup {NoRoot}, pages : SUBSET PageIds]

NoVersion == [root |-> NoRoot, pages |-> {}]

Init ==
  /\ version = NoVersion
  /\ stored = {}
  /\ seen = [w \in Sessions |-> {}]

Open(w) ==
  /\ seen[w] = {}
  /\ seen' = [seen EXCEPT ![w] = {version}]
  /\ UNCHANGED <<version, stored>>

Close(w) ==
  /\ seen[w] # {}
  /\ seen' = [seen EXCEPT ![w] = {}]
  /\ UNCHANGED <<version, stored>>

Put(p) ==
  /\ stored' = stored \cup {p}
  /\ UNCHANGED <<version, seen>>

\* Only what the current version does not need goes away.
Remove(p) ==
  /\ p \notin version.pages
  /\ stored' = stored \ {p}
  /\ UNCHANGED <<version, seen>>

\* The pages of the new version that the current one lacks.
Fresh(new) == new.pages \ version.pages

\* A session replaces the version it has open by one of stored pages.  The
\* fresh ones, and the root is one, are in no version that a session has open.
Commit(w, new) ==
  /\ seen[w] = {version}
  /\ new.pages \subseteq stored
  /\ new.root \in Fresh(new)
  /\ \A v \in Sessions : \A old \in seen[v] : Fresh(new) \cap old.pages = {}
  /\ version' = new
  /\ seen' = [seen EXCEPT ![w] = {}]
  /\ UNCHANGED stored

Next ==
  \/ \E w \in Sessions : Open(w) \/ Close(w)
  \/ \E p \in PageIds : Put(p) \/ Remove(p)
  \/ \E w \in Sessions, new \in Versions : Commit(w, new)

Spec == Init /\ [][Next]_vars
-----------------------------------------------------------------------------
(* Properties *)

\* A version is empty or its root is one of its pages.
Rooted(v) == IF v.root = NoRoot THEN v.pages = {} ELSE v.root \in v.pages

\* Every variable has its type, and every version its root.
TypeOK ==
  /\ version \in Versions /\ Rooted(version)
  /\ stored \in SUBSET PageIds
  /\ seen \in [Sessions -> SUBSET Versions]
  /\ \A w \in Sessions : \A v \in seen[w] : Rooted(v)

\* The current version can be read, and a session that has its root open has
\* that very version open: the root alone says which tree is meant.
CurrentReadable ==
  /\ version.pages \subseteq stored
  /\ \A w \in Sessions : \A v \in seen[w] : v.root = version.root => v = version
=============================================================================
