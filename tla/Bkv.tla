--------------------------------- MODULE Bkv ---------------------------------
(***************************************************************************)
(* The command bkv as a client of the commit protocol.  Its root register  *)
(* is its user, who starts each command with the root that the last put    *)
(* printed.  There is no compare-and-swap, and a put finishes its mutation *)
(* before it prints the new root, once, whatever that call leaves over.    *)
(*                                                                         *)
(* Writers are the commands that run at the same time.  The engines that   *)
(* keep blocks between commands, disk and s3, name pages by their hashes,  *)
(* so that a put may write a page that is there, as it was or at the end   *)
(* of another chain, and then deletes a page that a tree still needs.  The *)
(* ghost risked says which these are.  del_all does not throw: s3 reports  *)
(* failures one by one, and disk throws in put_all before.                 *)
(***************************************************************************)
EXTENDS Commit

VARIABLE risked  \* ghost: pages that the tree the user has may lack

bkvVars == <<vars, risked>>

\* Pages of the opened tree that the put writes once more, or has loaded at the
\* end of one chain while another ends in them too.
Twins(w) == (pages[w] \cap baseTree[w]) \cup (loaded[w] \cap Shared(baseTree[w]))

BkvInit == Init /\ risked = {}

\* putKeyValue goes on to b.finish(mut, true), also if the mutation failed.
Finish(w) ==
  /\ pc[w] = "written"
  /\ flag' = [flag EXCEPT ![w] = TRUE]
  /\ pc' = [pc EXCEPT ![w] = "finishing"]
  /\ risked' = (risked \ created[w]) \cup Twins(w)
  /\ UNCHANGED <<engineVars, commitVars, leaked, editVars, writeVars, pending,
                 done, created, obsolete, success>>

\* finish has returned, and nobody looks at what it left on its list.
Finished(w) ==
  /\ pc[w] = "deleting"
  /\ pending[w] = {}
  /\ Forget(w)
  /\ UNCHANGED engineVars

\* The new root is printed, and with it becomes the user's.
PrintRoot(w) ==
  /\ Finished(w)
  /\ root' = newRoot[w]
  /\ live' = newTree[w]
  /\ leaked' = ((leaked \cup DeleteList(w) \cup (baseTree[w] \ loaded[w])) \cap blocks)
               \ newTree[w]
  /\ risked' = risked \cap newTree[w]

\* Mistake: the root is printed without a look at mut.success().
ShowUnchecked(w) == PrintRoot(w)

\* putKeyValue prints the new root.
Show(w) == success[w] /\ PrintRoot(w)

\* putKeyValue prints "Error!", and the user keeps the old root.
Complain(w) ==
  /\ Finished(w)
  /\ ~success[w]
  /\ leaked' = ((leaked \cup DeleteList(w)) \cap blocks) \ live
  /\ UNCHANGED <<commitVars, risked>>

\* What a put has begun to take from the tree of its user, who does not know the
\* new root yet.
Taken(w) == IF pc[w] = "deleting" /\ success[w] THEN obsolete[w] ELSE {}

\* The command is killed, or ends with what put_all throws.  What it has put and
\* not deleted stays, and its user keeps the old root.
Kill(w) ==
  /\ pc[w] # "idle"
  /\ leaked' = ((leaked \cup pages[w]) \cap blocks) \ live
  /\ risked' = risked \cup Taken(w)
  /\ Forget(w)
  /\ UNCHANGED <<engineVars, commitVars>>

\* queryKey and fullScan open, load and close; putKeyValue does the rest.
BkvNext ==
  \E w \in Writers :
    \/ /\ \/ Open(w) \/ Load(w) \/ LoadFails(w) \/ Close(w)
          \/ BeginWrite(w)
          \/ PutOne(w) \/ PutFails(w) \/ Collect(w)
          \/ BeginFinish(w) \/ DelOne(w) \/ DelFails(w)
       /\ UNCHANGED risked
    \/ Finish(w)
    \/ Show(w) \/ Complain(w)
    \/ Kill(w)

BkvSpec == BkvInit /\ [][BkvNext]_bkvVars
-----------------------------------------------------------------------------
(* Properties *)

Idle == \A w \in Writers : pc[w] = "idle"

\* Between commands the root that was printed last can be read in full, but for
\* the pages that hashing or a kill among the deletes has put at risk: a put that
\* fails at any block, of its puts or of its deletes, takes no other page from the
\* tree it started from, and no root is printed before all of its tree is stored
\* (bkv.cpp:118-141).
ShownReadable == Idle => PagesOf(root) \subseteq blocks \cup risked

\* From the first delete on, which comes before the new root is printed, one of the
\* two trees is complete, again but for the pages at risk: the new one if all of it
\* was put, and the old one otherwise.  So a put that is killed then may leave its
\* user with a root that is gone, but not the engine without the data
\* (bkv.cpp:129).
OneTreeStored ==
  \A w \in Writers :
    pc[w] \in {"finishing", "deleting"} =>
      PagesOf(IF success[w] THEN newRoot[w] ELSE root) \subseteq blocks \cup risked

\* Between commands every block is of the tree that was printed last, or is one
\* that a failing put or delete or a kill left over: a put that is refused takes
\* back what it had put, whatever pages it shares (bkv.cpp:129).
LeftoversExplained == Idle => blocks \subseteq live \cup leaked
-----------------------------------------------------------------------------
(* The inductive strengthening behind them, for one command at a time *)

\* T is what r and the pages below it refer to, and r is above all of it.
Topped(T, r) ==
  /\ Closed(T)
  /\ IF r = None THEN T = {} ELSE r \in T /\ \A x \in T : x <= r

\* The user's tree.
ShownInv ==
  /\ \A b \in Ids : \A y \in kids[b] : y < b
  /\ blocks \cup live \subseteq Issued
  /\ Topped(live, root)

\* What a command has open is the user's tree, loaded from the root down.
SessionInv(w) ==
  /\ loaded[w] \subseteq live
  /\ \A b \in loaded[w] : b = root \/ \E p \in loaded[w] : b \in kids[p]
  /\ pc[w] # "idle" => base[w] = root /\ baseTree[w] = live

\* What it has written: a page that it loaded is in the new tree only as a twin.
PutInv(w) ==
  /\ created[w] \subseteq pages[w]
  /\ IF pc[w] \in {"idle", "editing"}
     THEN created[w] = {}
     ELSE /\ pages[w] \subseteq newTree[w] /\ newTree[w] \subseteq pages[w] \cup live
          /\ newTree[w] \subseteq Issued
          /\ loaded[w] \cap newTree[w] \subseteq Twins(w)
          /\ newRoot[w] # None /\ Topped(newTree[w], newRoot[w])
  /\ pc[w] \in {"putting", "written", "finishing"} => created[w] \subseteq blocks
  /\ pc[w] \in {"written", "finishing", "deleting"} =>
       obsolete[w] = loaded[w] /\ (success[w] => created[w] = pages[w])
  /\ pc[w] = "putting" => pending[w] \subseteq pages[w]

\* What it may delete: nothing that is needed but what is at risk.
TakeInv(w) ==
  /\ live \subseteq blocks \cup risked \cup Taken(w)
  /\ blocks \subseteq live \cup leaked \cup created[w]
  /\ pc[w] = "deleting" => pending[w] \subseteq DeleteList(w)
  /\ IF pc[w] \in {"finishing", "deleting"}
     THEN /\ flag[w] /\ Twins(w) \subseteq risked
          /\ success[w] => newTree[w] \subseteq blocks \cup risked
     ELSE ~flag[w]

BkvInv ==
  /\ TypeOK /\ risked \subseteq live
  /\ ShownInv
  /\ \A w \in Writers : SessionInv(w) /\ PutInv(w) /\ TakeInv(w)
=============================================================================
