------------------------------- MODULE Commit -------------------------------
(***************************************************************************)
(* How several edit sessions share one block engine: a session opens the   *)
(* committed root, loads some of its pages, writes new pages under new     *)
(* identifiers (tree_impl::write), receives a mutation, tries to make its  *)
(* new root the committed one with a compare-and-swap on a root register   *)
(* outside the library, and calls finish_mutation, which deletes either    *)
(* the pages it replaced or the pages it created.                          *)
(*                                                                         *)
(* What a page holds is abstracted to the set of pages it refers to (the   *)
(* branches of an internal node, the overflow link of a leaf or overflow   *)
(* node).  Nothing else of it matters to which pages must exist.           *)
(*                                                                         *)
(* Page identifiers.  The memory engine numbers pages with a counter; the  *)
(* file and S3 engines take the SHA-1 of the page.  Both are numbered here *)
(* in the order in which an identifier first appears; with                 *)
(* ContentAddressed a page may also get an identifier issued before, if it *)
(* refers to exactly the same pages.                                       *)
(***************************************************************************)
EXTENDS Integers, FiniteSets

CONSTANTS
  Writers,          \* edit (and query) sessions
  MaxId,            \* bound: identifiers are 0..MaxId
  MaxNew,           \* bound: pages one write() serializes
  ContentAddressed, \* TRUE for disk and s3be, FALSE for mem
  Faults,           \* the failures the engine and the application show
  None              \* no root (boost::none)

FaultKinds ==
  { "putFails",   \* a put is reported as failed
    "putLost",    \* a put is reported as failed but the block was stored
    "putThrows",  \* put_all throws: write() returns no mutation
    "delFails",   \* a delete is reported as failed
    "delLost",    \* a delete is reported as done but the block is still there
    "delThrows",  \* del_all throws
    "rollbackThrows",  \* the same, but only for mutations that are rolled back
    "getFails",   \* a get throws although the block exists
    "dropBranch", \* updateBranch erases a branch with unloaded pages below it
    "crash" }     \* the session dies, or its mutation is never finished

ASSUME ConstantsAssumption ==
  /\ MaxId \in Nat
  /\ MaxNew \in Nat \ {0}
  /\ ContentAddressed \in BOOLEAN
  /\ Faults \subseteq FaultKinds

Ids == 0..MaxId

ASSUME NoneAssumption == None \notin Ids

VARIABLES
  blocks,    \* the identifiers the engine holds a block for
  kids,      \* kids[b]: the pages block b refers to, for the issued b
  ctr,       \* identifiers below ctr were issued (mem::m_ctr)
  root,      \* the committed root, kept by the application
  live,      \* ghost: the pages of the committed tree
  leaked,    \* ghost: blocks that no session will delete any more
  pc,        \* where each session is
  base,      \* the root a session opened (tree_impl::m_rootID)
  baseTree,  \* ghost: the pages of the tree it opened
  loaded,    \* tree_impl::m_loadedIDs
  pages,     \* tree_impl::m_putBlocks
  pending,   \* blocks that the running put_all or del_all has not treated yet
  done,      \* blocks the running del_all reports as deleted
  created,   \* mutation::m_createdIDs
  obsolete,  \* mutation::m_obsoleteIDs
  newRoot,   \* mutation::m_newRootID
  newTree,   \* ghost: the pages of the tree below newRoot
  success,   \* mutation::m_success
  flag       \* the success flag the application passes to finish

engineVars  == <<blocks, kids, ctr>>
commitVars  == <<root, live>>
editVars    == <<base, baseTree, loaded>>
writeVars   == <<pages, newRoot, newTree>>
mutVars     == <<created, obsolete, success, flag>>
vars == <<engineVars, commitVars, leaked, pc, editVars, writeVars,
          pending, done, mutVars>>

States == {"idle", "editing", "putting", "written", "finishing", "deleting"}

-----------------------------------------------------------------------------
(* Pages and trees of pages *)

Closed(S) == \A b \in S : kids[b] \subseteq S

\* The pages reachable from the pages in S.
Reach(S) ==
  {b \in Ids : \A T \in SUBSET Ids : S \subseteq T /\ Closed(T) => b \in T}

\* Pages that a loaded page refers to and that are not loaded themselves.
Frontier(w) == (UNION {kids[b] : b \in loaded[w]}) \ loaded[w]

\* The pages that two pages of S refer to, and what is below them: overflow blocks
\* with equal values and equal links, which are one page if hashes name the pages.
Shared(S) ==
  Reach({b \in Ids : \E x, y \in S : x # y /\ b \in kids[x] \cap kids[y]})

\* What the loaded pages leave unloaded.  A shared page that was loaded by way of
\* one page may still be unloaded below another.
Unloaded(w) ==
  IF ContentAddressed
  THEN {Frontier(w) \cup again : again \in SUBSET (loaded[w] \cap Shared(loaded[w]))}
  ELSE {Frontier(w)}

\* What root(), child() and overflowNode() may load next.
Loadable(w) ==
  IF loaded[w] = {} THEN {base[w]} \ {None} ELSE Frontier(w)

\* Mistake: the two lists taken the wrong way round.
DeleteListSwapped(w) == IF flag[w] /\ success[w] THEN created[w] ELSE obsolete[w]

\* The list finish_mutation works on.
DeleteList(w) == IF flag[w] /\ success[w] THEN obsolete[w] ELSE created[w]

\* The blocks session w is responsible for deleting, if it got no further.
Owned(w) ==
  CASE pc[w] \in {"putting", "written"}    -> pages[w] \cap blocks
    [] pc[w] \in {"finishing", "deleting"} -> DeleteList(w) \cap blocks
    [] OTHER                               -> {}

-----------------------------------------------------------------------------
Init ==
  /\ blocks = {} /\ kids = [b \in Ids |-> {}] /\ ctr = 0
  /\ root = None /\ live = {} /\ leaked = {}
  /\ pc = [w \in Writers |-> "idle"]
  /\ base = [w \in Writers |-> None]
  /\ baseTree = [w \in Writers |-> {}]
  /\ loaded = [w \in Writers |-> {}]
  /\ pages = [w \in Writers |-> {}]
  /\ pending = [w \in Writers |-> {}]
  /\ done = [w \in Writers |-> {}]
  /\ created = [w \in Writers |-> {}]
  /\ obsolete = [w \in Writers |-> {}]
  /\ newRoot = [w \in Writers |-> None]
  /\ newTree = [w \in Writers |-> {}]
  /\ success = [w \in Writers |-> TRUE]
  /\ flag = [w \in Writers |-> FALSE]

\* The session's objects are destroyed.
Forget(w) ==
  /\ pc' = [pc EXCEPT ![w] = "idle"]
  /\ base' = [base EXCEPT ![w] = None]
  /\ baseTree' = [baseTree EXCEPT ![w] = {}]
  /\ loaded' = [loaded EXCEPT ![w] = {}]
  /\ pages' = [pages EXCEPT ![w] = {}]
  /\ pending' = [pending EXCEPT ![w] = {}]
  /\ done' = [done EXCEPT ![w] = {}]
  /\ created' = [created EXCEPT ![w] = {}]
  /\ obsolete' = [obsolete EXCEPT ![w] = {}]
  /\ newRoot' = [newRoot EXCEPT ![w] = None]
  /\ newTree' = [newTree EXCEPT ![w] = {}]
  /\ success' = [success EXCEPT ![w] = TRUE]
  /\ flag' = [flag EXCEPT ![w] = FALSE]

-----------------------------------------------------------------------------
(* The session before its write *)

\* bruce::create, edit and query: a tree object over the committed root.
Open(w) ==
  /\ pc[w] = "idle"
  /\ pc' = [pc EXCEPT ![w] = "editing"]
  /\ base' = [base EXCEPT ![w] = root]
  /\ baseTree' = [baseTree EXCEPT ![w] = live]
  /\ UNCHANGED <<engineVars, commitVars, leaked, loaded, writeVars, pending,
                 done, mutVars>>

\* m_loadedIDs gets the identifier b.
LoadPage(w, b) ==
  /\ pc[w] = "editing"
  /\ loaded' = [loaded EXCEPT ![w] = @ \cup {b}]
  /\ UNCHANGED <<engineVars, commitVars, leaked, pc, base, baseTree, writeVars,
                 pending, done, mutVars>>

\* Mistake: root() loads m_rootID without looking whether there is one.
LoadUnchecked(w) ==
  \E b \in IF loaded[w] = {} THEN {base[w]} ELSE Frontier(w) : LoadPage(w, b)

\* tree_impl::load of a page the engine has.
Load(w) == \E b \in Loadable(w) \cap blocks : LoadPage(w, b)

\* The engine's get throws, and the session ends with the exception.
LoadFails(w) ==
  /\ pc[w] = "editing"
  /\ Loadable(w) # {}
  /\ Loadable(w) \subseteq blocks => "getFails" \in Faults
  /\ Forget(w)
  /\ UNCHANGED <<engineVars, commitVars, leaked>>

\* A query ends; or write() finds no root loaded and returns a mutation that
\* creates and replaces nothing.
Close(w) ==
  /\ pc[w] = "editing"
  /\ Forget(w)
  /\ UNCHANGED <<engineVars, commitVars, leaked>>

-----------------------------------------------------------------------------
(* tree_impl::write *)

\* Identifiers that block_engine::id may give to the pages of one write.
IdsFor(fresh) == fresh \cup (IF ContentAddressed THEN 0..(ctr - 1) ELSE {})

\* The pages that may refer to a page: one new page, or with hashes several.
ParentSets(N) == IF ContentAddressed THEN (SUBSET N) \ {{}} ELSE {{x} : x \in N}

\* What each new page refers to: every other new page and every kept one has a
\* parent.  It has several only as the same end of several chains, which are
\* written with it or shared it before.
Layouts(w, N, kept, top) ==
  LET others == (N \ {top}) \cup kept
      below(parents, x) == {y \in others : x \in parents[y]}
      sharedBy(parents, y) ==
        /\ y \in N \cup Shared(loaded[w])
        /\ \A x \in parents[y] : below(parents, x) = {y}
  IN  {[x \in N |-> below(parents, x)] : parents \in
         {ps \in [others -> ParentSets(N)] :
            \A y \in others :
              /\ \A x \in ps[y] : y < x
              /\ Cardinality(ps[y]) = 1 \/ sharedBy(ps, y)}}

\* collectBlocksRec: every loaded node and every new one is serialized, the
\* children before the parent, and gets an identifier.  N are the new pages, n
\* of them with a new identifier, top is the new root, and kept are the
\* unloaded pages that stay; what is below a kept page stays with it.
Serialize(w, n, N, kept, top) ==
  /\ ctr + n - 1 <= MaxId
  /\ Cardinality(N) <= MaxNew
  /\ ctr..(ctr + n - 1) \subseteq N
  /\ ContentAddressed \/ N \cap kept = {}
  /\ \A x \in N : x <= top
  /\ \E below \in Layouts(w, N, kept, top) :
       /\ \A x \in N : x < ctr => below[x] = kids[x]
       /\ kids' = [b \in Ids |-> IF b \in N THEN below[b] ELSE kids[b]]
  /\ ctr' = ctr + n
  /\ pages' = [pages EXCEPT ![w] = N]
  /\ pending' = [pending EXCEPT ![w] = N]
  /\ newRoot' = [newRoot EXCEPT ![w] = top]
  /\ newTree' = [newTree EXCEPT ![w] = N \cup Reach(kept)]

\* write() up to the call of put_all.  The unloaded pages all stay, unless
\* updateBranch erased a branch above some of them.
BeginWrite(w) ==
  /\ pc[w] = "editing"
  /\ loaded[w] # {} \/ base[w] = None
  /\ \E n \in 0..MaxNew :
     \E N \in SUBSET IdsFor(ctr..(ctr + n - 1)) :
     \E unloaded \in Unloaded(w) :
     \E kept \in IF "dropBranch" \in Faults THEN SUBSET unloaded ELSE {unloaded} :
     \E top \in N : Serialize(w, n, N, kept, top)
  /\ pc' = [pc EXCEPT ![w] = "putting"]
  /\ UNCHANGED <<blocks, commitVars, leaked, editVars, done, mutVars>>

\* put_all stores one block and reports success for it.
PutOne(w) ==
  /\ pc[w] = "putting"
  /\ \E b \in pending[w] :
       /\ blocks' = blocks \cup {b}
       /\ pending' = [pending EXCEPT ![w] = @ \ {b}]
       /\ created' = [created EXCEPT ![w] = @ \cup {b}]
  /\ UNCHANGED <<kids, ctr, commitVars, leaked, pc, editVars, writeVars, done,
                 obsolete, success, flag>>

\* put_all reports failure for one block, which may have been stored.
PutFails(w) ==
  /\ pc[w] = "putting"
  /\ \E b \in pending[w] :
       /\ pending' = [pending EXCEPT ![w] = @ \ {b}]
       /\ \/ /\ "putFails" \in Faults
             /\ UNCHANGED <<blocks, leaked>>
          \/ /\ "putLost" \in Faults
             /\ blocks' = blocks \cup {b}
             /\ leaked' = leaked \cup {b}
  /\ UNCHANGED <<kids, ctr, commitVars, pc, editVars, writeVars, done, mutVars>>

\* put_all throws: the blocks it already stored are in no mutation.
PutThrows(w) ==
  /\ "putThrows" \in Faults
  /\ pc[w] = "putting"
  /\ pending[w] # {}
  /\ leaked' = leaked \cup Owned(w)
  /\ Forget(w)
  /\ UNCHANGED <<engineVars, commitVars>>

\* The mutation lists what was put and the pages in gone; ok is its success.
CollectAs(w, gone, ok) ==
  /\ pc[w] = "putting"
  /\ pending[w] = {}
  /\ success' = [success EXCEPT ![w] = ok]
  /\ obsolete' = [obsolete EXCEPT ![w] = gone]
  /\ pc' = [pc EXCEPT ![w] = "written"]
  /\ UNCHANGED <<engineVars, commitVars, leaked, editVars, writeVars, pending,
                 done, created, flag>>

\* Mistakes: a page that was never loaded, and so is still referred to, counts
\* as replaced; the old root does not; blocks that were not put are overlooked.
CollectUnloaded(w) == CollectAs(w, loaded[w] \cup Frontier(w), created[w] = pages[w])
CollectNoRoot(w)   == CollectAs(w, loaded[w] \ {base[w]}, created[w] = pages[w])
CollectPartial(w)  == CollectAs(w, loaded[w], TRUE)

\* collectMutation, and write() returns.
Collect(w) == CollectAs(w, loaded[w], created[w] = pages[w])

-----------------------------------------------------------------------------
(* The application's root register, and finish_mutation *)

\* Compare-and-swap from the root the session opened to the root it wrote.
Publish(w) ==
  /\ pc[w] = "written"
  /\ success[w]
  /\ root = base[w]
  /\ root' = newRoot[w]
  /\ live' = newTree[w]
  /\ leaked' = leaked \cup ((baseTree[w] \ loaded[w]) \ newTree[w])
  /\ flag' = [flag EXCEPT ![w] = TRUE]
  /\ pc' = [pc EXCEPT ![w] = "finishing"]
  /\ UNCHANGED <<engineVars, editVars, writeVars, pending, done, created,
                 obsolete, success>>

\* The swap failed, or the application gives the mutation up.
Abort(w) ==
  /\ pc[w] = "written"
  /\ flag' = [flag EXCEPT ![w] = FALSE]
  /\ pc' = [pc EXCEPT ![w] = "finishing"]
  /\ UNCHANGED <<engineVars, commitVars, leaked, editVars, writeVars, pending,
                 done, created, obsolete, success>>

\* finish_mutation hands the delete list to del_all.
BeginFinish(w) ==
  /\ pc[w] = "finishing"
  /\ pending' = [pending EXCEPT ![w] = DeleteList(w)]
  /\ pc' = [pc EXCEPT ![w] = "deleting"]
  /\ UNCHANGED <<engineVars, commitVars, leaked, editVars, writeVars, done,
                 mutVars>>

\* del_all reports one block as deleted.
DelOne(w) ==
  /\ pc[w] = "deleting"
  /\ \E b \in pending[w] :
       /\ pending' = [pending EXCEPT ![w] = @ \ {b}]
       /\ done' = [done EXCEPT ![w] = @ \cup {b}]
       /\ \/ /\ blocks' = blocks \ {b}
             /\ UNCHANGED leaked
          \/ /\ "delLost" \in Faults
             /\ leaked' = leaked \cup {b}
             /\ UNCHANGED blocks
  /\ UNCHANGED <<kids, ctr, commitVars, pc, editVars, writeVars, mutVars>>

\* del_all does not report success for one block; mem also does so for a
\* block that it does not have.
DelFails(w) ==
  /\ pc[w] = "deleting"
  /\ \E b \in pending[w] :
       /\ b \in blocks => "delFails" \in Faults
       /\ pending' = [pending EXCEPT ![w] = @ \ {b}]
  /\ UNCHANGED <<engineVars, commitVars, leaked, pc, editVars, writeVars, done,
                 mutVars>>

\* Mistake: what could not be deleted leaves the list as well.
FinishOnce(w) ==
  /\ pc[w] = "deleting"
  /\ pending[w] = {}
  /\ Forget(w)
  /\ UNCHANGED <<engineVars, commitVars, leaked>>

\* finish_mutation returns: the deleted blocks leave the list.  It is called
\* again for what is left of it.
FinishReturns(w) ==
  /\ pc[w] = "deleting"
  /\ pending[w] = {}
  /\ IF DeleteList(w) \subseteq done[w]
     THEN Forget(w)
     ELSE /\ pc' = [pc EXCEPT ![w] = "finishing"]
          /\ done' = [done EXCEPT ![w] = {}]
          /\ IF flag[w] /\ success[w]
             THEN /\ obsolete' = [obsolete EXCEPT ![w] = @ \ done[w]]
                  /\ UNCHANGED created
             ELSE /\ created' = [created EXCEPT ![w] = @ \ done[w]]
                  /\ UNCHANGED obsolete
          /\ UNCHANGED <<editVars, writeVars, pending, success, flag>>
  /\ UNCHANGED <<engineVars, commitVars, leaked>>

\* del_all throws: finish_mutation marks the mutation as failed.
FinishThrows(w) ==
  /\ pc[w] = "deleting"
  /\ \/ "delThrows" \in Faults
     \/ "rollbackThrows" \in Faults /\ ~flag[w]
  /\ success' = [success EXCEPT ![w] = FALSE]
  /\ pending' = [pending EXCEPT ![w] = {}]
  /\ done' = [done EXCEPT ![w] = {}]
  /\ pc' = [pc EXCEPT ![w] = "finishing"]
  /\ UNCHANGED <<engineVars, commitVars, leaked, editVars, writeVars, created,
                 obsolete, flag>>

\* The session's process dies, or the application drops the mutation.
Crash(w) ==
  /\ "crash" \in Faults
  /\ pc[w] # "idle"
  /\ leaked' = leaked \cup Owned(w)
  /\ Forget(w)
  /\ UNCHANGED <<engineVars, commitVars>>

-----------------------------------------------------------------------------
\* What runs to its end once write() has begun.
Proceed(w) ==
  \/ PutOne(w) \/ PutFails(w) \/ PutThrows(w) \/ Collect(w)
  \/ Publish(w) \/ Abort(w)
  \/ BeginFinish(w) \/ DelOne(w) \/ DelFails(w) \/ FinishReturns(w)
  \/ FinishThrows(w)

Next ==
  \E w \in Writers :
    \/ Open(w) \/ Load(w) \/ LoadFails(w) \/ Close(w)
    \/ BeginWrite(w)
    \/ PutOne(w) \/ PutFails(w) \/ PutThrows(w) \/ Collect(w)
    \/ Publish(w) \/ Abort(w)
    \/ BeginFinish(w) \/ DelOne(w) \/ DelFails(w) \/ FinishReturns(w)
    \/ FinishThrows(w)
    \/ Crash(w)

Spec == Init /\ [][Next]_vars

\* write() and finish() are single calls on one thread, and the application
\* always finishes a mutation (bruce.h:58).
Fairness == \A w \in Writers : WF_vars(Proceed(w))

FairSpec == Spec /\ Fairness
-----------------------------------------------------------------------------
(* Properties *)

\* Every variable has its type.
TypeOK ==
  /\ blocks \subseteq Ids
  /\ kids \in [Ids -> SUBSET Ids]
  /\ ctr \in 0..(MaxId + 1)
  /\ root \in Ids \cup {None}
  /\ live \subseteq Ids
  /\ leaked \subseteq Ids
  /\ pc \in [Writers -> States]
  /\ base \in [Writers -> Ids \cup {None}]
  /\ baseTree \in [Writers -> SUBSET Ids]
  /\ loaded \in [Writers -> SUBSET Ids]
  /\ pages \in [Writers -> SUBSET Ids]
  /\ pending \in [Writers -> SUBSET Ids]
  /\ done \in [Writers -> SUBSET Ids]
  /\ created \in [Writers -> SUBSET Ids]
  /\ obsolete \in [Writers -> SUBSET Ids]
  /\ newRoot \in [Writers -> Ids \cup {None}]
  /\ newTree \in [Writers -> SUBSET Ids]
  /\ success \in [Writers -> BOOLEAN]
  /\ flag \in [Writers -> BOOLEAN]

\* Every page of the committed tree is in the engine, whatever sessions other
\* than the committing ones have written, rolled back or cleaned up
\* (README.md:72-79).
CommittedReadable == root # None => Reach({root}) \subseteq blocks

\* A session whose root is still the committed one sees that very tree, and
\* can load all of it: it never meets a missing block, and no other tree was
\* ever committed under the same root identifier (README.md:72-79).
SnapshotStable ==
  \A w \in Writers :
    pc[w] # "idle" /\ base[w] = root /\ ~flag[w] =>
      baseTree[w] = live /\ baseTree[w] \subseteq blocks

\* What write() reports is exactly what was written: the new root's tree is
\* the new pages and the unloaded pages of the old tree, so the replaced pages
\* and the tree that replaces them have no page in common, and committing
\* loses no page (tree_impl::collectBlocksRec, collectMutation).
RewriteExact ==
  \A w \in Writers :
    pc[w] = "written" =>
      /\ newTree[w] = Reach({newRoot[w]})
      /\ newTree[w] \cap obsolete[w] = {}
      /\ pages[w] \cup (baseTree[w] \ obsolete[w]) = newTree[w]

\* Every block in the engine is a page of the committed tree, or some session
\* has still to delete it or finish writing, or it was lost in one of the ways
\* the failures allow (mutation::m_createdIDs, m_obsoleteIDs).
GarbageAccounted ==
  blocks \subseteq live \cup leaked \cup (UNION {Owned(w) : w \in Writers})

\* With an engine that never fails, once no session is open the engine holds
\* the committed tree and nothing else (bruce.h:58-72).
QuiescentClean ==
  (\A w \in Writers : pc[w] = "idle") =>
    blocks = IF root = None THEN {} ELSE Reach({root})

\* A committed root only ever replaces the root its session opened, and a
\* block of the new tree that the old one lacks is a page of that session: no
\* commit revives a page that another session wrote or deleted.
CommitExtendsBase ==
  [][root' # root =>
       \E w \in Writers : /\ base[w] = root /\ newRoot[w] = root'
                          /\ live' \ live \subseteq pages[w]
                          /\ live' \subseteq blocks]_vars

\* A block that is in no committed tree is deleted in the end, if it was not
\* lost: every session finishes its mutation (bruce.h:58).
Reclaimed ==
  \A b \in Ids : (b \in blocks /\ b \notin live) ~>
                   (b \notin blocks \/ b \in live)
\* The version that session w has open; a session whose mutation was committed
\* has given its version up.
Opened(w) ==
  IF pc[w] = "idle" \/ flag[w] THEN {}
  ELSE {[root |-> base[w], pages |-> baseTree[w]]}

Snap == INSTANCE Snapshots WITH
          Sessions <- Writers, PageIds <- Ids, NoRoot <- None,
          version <- [root |-> root, pages |-> live],
          stored <- blocks,
          seen <- [w \in Writers |-> Opened(w)]

\* All sessions and failures together are a store of versions: every commit is
\* made by a session that saw the version it replaces, of pages that are stored
\* and that nobody else has, and no put, rollback or clean-up that fails half
\* way takes a page of the current version away (README.md:72-79).
IsSnapshotStore == Snap!Spec
-----------------------------------------------------------------------------
(* The inductive strengthening behind CommittedReadable, SnapshotStable and *)
(* CommitExtendsBase, for identifiers that are never reused and a del_all   *)
(* that does not throw while a committed mutation is finished.              *)

Issued == {b \in Ids : b < ctr}

\* T contains every page its pages refer to, each page of it is referred to by
\* at most one other, and r by none.
IsTree(T, r) ==
  /\ Closed(T)
  /\ \A x, y \in T : x # y => kids[x] \cap kids[y] = {}
  /\ \A x \in T : r \notin kids[x]

\* The committed trees, those that sessions opened and those that they write are
\* trees, and a session loads a page only after the one that refers to it.
TreeInv ==
  /\ IsTree(live, root)
  /\ \A w \in Writers :
       /\ IsTree(baseTree[w], base[w])
       /\ IsTree(newTree[w], newRoot[w])
       /\ \A x \in baseTree[w] \ loaded[w] : kids[x] \cap loaded[w] = {}

\* The committed tree: all of it stored, its root among its pages.
CommittedInv ==
  /\ blocks \subseteq Issued
  /\ live \subseteq blocks
  /\ IF root = None THEN live = {} ELSE root \in live

\* The snapshot a session works on.
SnapshotInv(w) ==
  /\ baseTree[w] \subseteq Issued
  /\ base[w] # None => base[w] \in baseTree[w]
  /\ loaded[w] \subseteq baseTree[w]
  /\ pc[w] = "idle" => loaded[w] = {}
  /\ pc[w] # "idle" /\ base[w] = root /\ ~flag[w] => baseTree[w] = live

\* The pages a session writes are its own, and its tree is made of them and of
\* unloaded pages of its snapshot.
WriteInv(w) ==
  /\ pages[w] \subseteq Issued
  /\ pages[w] \cap baseTree[w] = {}
  /\ newTree[w] \subseteq pages[w] \cup (baseTree[w] \ loaded[w])
  /\ pages[w] \subseteq newTree[w]
  /\ IF pages[w] = {} THEN newRoot[w] = None ELSE newRoot[w] \in pages[w]
  /\ pages[w] = {} => newTree[w] = {}
  /\ pages[w] = {} <=> pc[w] \in {"idle", "editing"}

\* The pages a mutation lists as created are stored until it is finished, and
\* all pages are if it succeeded.
CreatedInv(w) ==
  /\ created[w] \subseteq pages[w]
  /\ pc[w] = "putting" => pending[w] \subseteq pages[w]
  /\ pc[w] \in {"putting", "written"} => created[w] \subseteq blocks
  /\ pc[w] = "written" /\ success[w] => pages[w] = created[w]

\* What a session may delete is not in the committed tree.
DeleteInv(w) ==
  /\ obsolete[w] \subseteq loaded[w]
  /\ flag[w] => pc[w] \in {"finishing", "deleting"} /\ success[w]
  /\ pc[w] = "deleting" => pending[w] \subseteq DeleteList(w)
  /\ flag[w] => obsolete[w] \cap live = {}
  /\ ~flag[w] => pages[w] \cap live = {}

\* Two sessions never write the same page, and what one has not committed is
\* in no snapshot of another.
PairInv(v, w) ==
  /\ pages[v] \cap pages[w] = {}
  /\ ~flag[v] => pages[v] \cap baseTree[w] = {}

\* The whole of it: why no delete list ever reaches the committed tree.
CommitInv ==
  /\ TypeOK
  /\ TreeInv
  /\ CommittedInv
  /\ \A w \in Writers :
       SnapshotInv(w) /\ WriteInv(w) /\ CreatedInv(w) /\ DeleteInv(w)
  /\ \A v, w \in Writers : v # w => PairInv(v, w)

\* Behind GarbageAccounted: what a session put is on its list of created pages
\* or was lost, the pages it loaded are on the list of obsolete ones, and only
\* what was deleted, or lost, leaves the list that it works on.
ListInv(w) ==
  /\ pc[w] \in {"putting", "written"} =>
       pages[w] \cap blocks \subseteq created[w] \cup leaked
  /\ pc[w] = "written" => loaded[w] \subseteq obsolete[w]
  /\ IF pc[w] = "deleting"
     THEN done[w] \subseteq DeleteList(w) /\ done[w] \cap blocks \subseteq leaked
     ELSE done[w] = {}

AccountInv == GarbageAccounted /\ \A w \in Writers : ListInv(w)

\* The pages of the tree with root r.
PagesOf(r) == IF r = None THEN {} ELSE Reach({r})

\* Behind RewriteExact: every tree of a session and the committed one are what
\* can be reached from their roots, a session loads from the root down, and
\* what it has not loaded stays in the tree that it writes, if no branch above
\* it was erased.
ReachInv ==
  /\ live = PagesOf(root)
  /\ \A w \in Writers :
       /\ baseTree[w] = PagesOf(base[w])
       /\ newTree[w] = PagesOf(newRoot[w])
       /\ loaded[w] # {} => base[w] \in loaded[w]
       /\ pages[w] # {} /\ "dropBranch" \notin Faults =>
            baseTree[w] \ loaded[w] \subseteq newTree[w]
=============================================================================
