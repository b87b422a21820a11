-------------------------------- MODULE Tree --------------------------------
(***************************************************************************)
(* Trees of nodes as tree_impl edits, queries, flushes, splits and writes  *)
(* them.                                                                   *)
(*                                                                         *)
(* An internal node has branches, each with the least key of its child     *)
(* (Empty for the first branch, see parseInternalNode), the number of      *)
(* items that the node believes to be below it, the child, and a flag that *)
(* says if the child is in memory.  A child that is not is a page of the   *)
(* block engine; here both are the same nested value.  An internal node    *)
(* also has a queue of edits, sorted by key and, for one key, by age.      *)
(*                                                                         *)
(* Queries change the tree too: they push queued edits down the path they  *)
(* take.  So they return the tree next to their answer.                    *)
(***************************************************************************)
EXTENDS Leaf

\* The result of a write() that throws.
Refused == [kind |-> "refused"]

Internal(branches, queue) ==
  [kind |-> "internal", branches |-> branches, queue |-> queue]

IsInternal(node) == node.kind = "internal"

\* Mistake: the edits in the queue of a node do not count.
ItemCountBelow(node) ==
  CASE node.kind = "leaf" -> LeafItems(node)
    [] IsInternal(node) -> FoldLeft(LAMBDA n, b : n + b.count, 0, node.branches)
    [] OTHER -> 1

\* itemCount(): of the edits in the queue only the guaranteed ones count.
ItemCount(node) ==
  CASE node.kind = "leaf" -> LeafItems(node)
    [] IsInternal(node) ->
         FoldLeft(LAMBDA n, b : n + b.count, 0, node.branches) +
         FoldLeft(LAMBDA n, e : IF e.sure THEN n + Delta(e) ELSE n, 0, node.queue)
    [] OTHER -> 1

\* node_branch, and what child() and setBranch() make of it.
Branch(min, node) ==
  [min |-> min, count |-> ItemCount(node), child |-> node, loaded |-> TRUE]

Recounted(branch, node) == Branch(branch.min, node)

\* tree_impl::child
Fetched(branch) == [branch EXCEPT !.loaded = TRUE]

-----------------------------------------------------------------------------
(* Keys and ranges of keys; a bound that is Empty bounds nothing *)

\* FindInternalKey: the branch for key k, 0 if there are no branches.
FindInternalKey(branches, k) ==
  LET less == {i \in DOMAIN branches :
                 branches[i].min = Empty \/ branches[i].min < k}
      n == Cardinality(less)
  IN  IF n < Len(branches) /\ (n = 0 \/ branches[n + 1].min = k)
      THEN n + 1 ELSE n

InRange(k, lo, hi) == (lo = Empty \/ lo <= k) /\ (hi = Empty \/ k < hi)

EditsIn(queue, lo, hi) == SelectSeq(queue, LAMBDA e : InRange(e.key, lo, hi))
EditsOut(queue, lo, hi) == SelectSeq(queue, LAMBDA e : ~InRange(e.key, lo, hi))

\* The bounds of branch i in a node with the bounds lo and hi (travelDown).
LowOf(branches, i, lo) == IF branches[i].min # Empty THEN branches[i].min ELSE lo
HighOf(branches, i, hi) == IF i < Len(branches) THEN branches[i + 1].min ELSE hi

\* The bounds that applyEditsToBranch and maybeSplitInternal use.
EditLow(branches, i) == IF i = 1 THEN Empty ELSE branches[i].min
EditHigh(branches, i) == HighOf(branches, i, Empty)

-----------------------------------------------------------------------------
(* tree_impl::apply *)

\* Mistake: an edit goes in front of the edits of the same key.
EnqueueFirst(queue, edit) ==
  InsertAt(queue, Cardinality({i \in DOMAIN queue : queue[i].key < edit.key}) + 1, edit)

\* Behind the edits of the same key.
Enqueue(queue, edit) ==
  InsertAt(queue, Cardinality({i \in DOMAIN queue : queue[i].key <= edit.key}) + 1, edit)

RECURSIVE Apply(_, _, _)
Apply(node, edit, deep) ==
  CASE node.kind = "leaf" -> ApplyToLeaf(node, edit)
    [] IsInternal(node) /\ ~deep -> [node EXCEPT !.queue = Enqueue(@, edit)]
    [] IsInternal(node) /\ deep ->
         LET i == FindInternalKey(node.branches, edit.key)
         IN  IF i = 0 THEN Undefined
             ELSE [node EXCEPT !.branches[i] =
                    Recounted(@, Apply(@.child, edit, TRUE))]
    [] OTHER -> node

ApplyEach(node, edits, deep) ==
  FoldLeft(LAMBDA n, e : Apply(n, e, deep), node, edits)

-----------------------------------------------------------------------------
(* Flushing: the queue of a node goes to its children when it is too long *)

QueueBytes(queue) ==
  FoldLeft(LAMBDA n, e :
             n + 1 + KeySize + (IF e.op = "removeKey" THEN 0 ELSE ValueSize),
           0, queue)

\* applyEditsToBranch; the branch keeps its count, updateBranch sets it.
ApplyEditsToBranch(branch, edits) ==
  CASE edits = <<>> -> branch
    [] edits # <<>> /\ branch.child.kind = "leaf" ->
         [Fetched(branch) EXCEPT !.child = ApplyAll(@, edits)]
    [] OTHER ->
         [Fetched(branch) EXCEPT !.child =
            FoldLeft(LAMBDA n, e : Apply(n, e, ~e.sure), @, edits)]

\* Mistake: the queue is not cleared.
MaybeApplyEditsKept(node) ==
  IF QueueBytes(node.queue) <= QueueSize THEN node
  ELSE [node EXCEPT !.branches =
          [i \in DOMAIN @ |->
             ApplyEditsToBranch(@[i], EditsIn(node.queue, EditLow(@, i), EditHigh(@, i)))]]

\* maybeApplyEdits, loadBlocksToEdit
MaybeApplyEdits(node) ==
  CASE QueueBytes(node.queue) <= QueueSize -> node
    [] QueueBytes(node.queue) > QueueSize /\ node.branches = <<>> -> Undefined
    [] OTHER ->
         Internal([i \in DOMAIN node.branches |->
                     ApplyEditsToBranch(node.branches[i],
                       EditsIn(node.queue, EditLow(node.branches, i),
                               EditHigh(node.branches, i)))],
                  <<>>)

\* Mistake: the header of the page is not counted.
MaxBranchesBare == (BlockSize - QueueSize + KeySize) \div (24 + KeySize)

\* The branches that fit in an internal node beside the area for the queue:
\* 10 bytes of header, an identifier and a count of each branch, and the least
\* keys of all but the first.  No limit if there is no space beside the queue.
MaxBranches ==
  IF BlockSize <= QueueSize THEN 0
  ELSE (BlockSize - QueueSize - 10 + KeySize) \div (24 + KeySize)

\* Mistake: the last node gets the whole queue.
SplitInternalQueueLast(node) ==
  LET bs == node.branches
      n == Len(bs)
      alone == IF MaxBranches = 0 \/ n <= MaxBranches THEN 0 ELSE n - MaxBranches
      part(i) == IF i <= alone THEN Internal(<<bs[i]>>, <<>>)
                 ELSE Internal(SubSeq(bs, i, n), node.queue)
  IN  [i \in 1..(alone + 1) |-> Branch(EditLow(bs, i), part(i))]

\* maybeSplitInternal.  InternalNodeSize compares the size of the whole node
\* with half of it before it adds anything, so every cut is behind the first
\* branch: the nodes that come off have one branch, the rest stays together.
SplitInternal(node) ==
  LET bs == node.branches
      n == Len(bs)
      alone == IF MaxBranches = 0 \/ n <= MaxBranches THEN 0 ELSE n - MaxBranches
      part(i) ==
        IF i <= alone
        THEN Internal(<<bs[i]>>,
                      EditsIn(node.queue, EditLow(bs, i), EditHigh(bs, i)))
        ELSE Internal(SubSeq(bs, i, n), EditsIn(node.queue, EditLow(bs, i), Empty))
  IN  IF alone = 0 THEN <<Branch(Empty, node)>>
      ELSE [i \in 1..(alone + 1) |-> Branch(EditLow(bs, i), part(i))]

\* Mistake: the branch keeps its old count.
UpdateBranchStale(branch, split) ==
  IF Len(split) = 1 /\ split[1].count = 0 THEN <<>>
  ELSE <<[branch EXCEPT !.child = split[1].child]>> \o Tail(split)

\* updateBranch: a branch gives way to the nodes its child was split into, and
\* goes if the child has no items.
UpdateBranch(branch, split) ==
  IF Len(split) = 1 /\ split[1].count = 0 THEN <<>>
  ELSE <<[split[1] EXCEPT !.min = branch.min]>> \o Tail(split)

\* flushAndSplitRec: the branches for the nodes that a node becomes.
RECURSIVE Flush(_)
Flush(node) ==
  CASE node.kind = "leaf" ->
         LET leaves == FlushLeaf(node)
         IN  [i \in DOMAIN leaves |->
                Branch(IF i = 1 \/ leaves[i].kind # "leaf" THEN Empty
                       ELSE leaves[i].pairs[1].key, leaves[i])]
    [] IsInternal(node) ->
         LET new == MaybeApplyEdits(node)
             updated(b) == IF b.loaded THEN UpdateBranch(b, Flush(b.child))
                                       ELSE <<b>>
         IN  IF new = Undefined THEN <<Branch(Empty, Undefined)>>
             ELSE SplitInternal([new EXCEPT !.branches =
                    FlattenSeq([i \in DOMAIN @ |-> updated(@[i])])])
    [] OTHER -> <<Branch(Empty, node)>>
-----------------------------------------------------------------------------
(* Writing and opening *)

\* Flags, branch and edit count; the key of the first branch is not kept.  The
\* queue has its own count.
InternalBytes(node) ==
  10 + 24 * Len(node.branches) + KeySize * (Len(node.branches) - 1)

\* A page that the block engine takes: put_all throws for a larger one.
PageFits(node) ==
  \/ BlockSize = 0
  \/ node.kind = "leaf" /\ LeafBytes(Len(node.pairs)) <= BlockSize
  \/ IsInternal(node) /\ InternalBytes(node) + QueueBytes(node.queue) <= BlockSize

RECURSIVE Nodes(_)
Nodes(node) ==
  IF IsInternal(node)
  THEN {node} \cup UNION {Nodes(node.branches[i].child) : i \in DOMAIN node.branches}
  ELSE {node}

RECURSIVE Defined(_)
Defined(node) ==
  /\ node # Undefined
  /\ IsInternal(node) =>
       \A i \in DOMAIN node.branches : Defined(node.branches[i].child)

\* A new root on top of the nodes that the old one was split into.
Grow(parts) ==
  IF Len(parts) = 1 THEN parts ELSE SplitInternal(Internal(parts, <<>>))

\* The tree that is written if these are its roots, or none.
Written(parts) ==
  LET new == parts[1].child
  IN  CASE Len(parts) > 1 -> Refused
        [] Len(parts) = 1 /\ ~Defined(new) -> Undefined
        [] OTHER -> IF \A node \in Nodes(new) : PageFits(node) THEN new ELSE Refused

\* write(): flush, then put new roots on top, at most four times.  For a tree
\* that was only opened this changes nothing, as the early return says.
WriteTree(root) == Written(Grow(Grow(Grow(Grow(Flush(root))))))

\* The tree that opens at a written page.  A page keeps neither the least key
\* of the first branch nor which edits were guaranteed, and has a branch also
\* if the node had none (parseInternalNode).
RECURSIVE Opened(_)
Opened(node) ==
  CASE node.kind = "leaf" ->
         [node EXCEPT !.over = [i \in DOMAIN @ |-> Block(@[i].vals, FALSE)]]
    [] IsInternal(node) /\ node.branches = <<>> -> Undefined
    [] IsInternal(node) /\ node.branches # <<>> ->
         Internal([i \in DOMAIN node.branches |->
                     [node.branches[i] EXCEPT
                        !.min = IF i = 1 THEN Empty ELSE @,
                        !.child = Opened(@), !.loaded = FALSE]],
                  [i \in DOMAIN node.queue |-> [node.queue[i] EXCEPT !.sure = FALSE]])
    [] OTHER -> node
-----------------------------------------------------------------------------
(* Queries.  lo and hi bound the keys of a node, as fork::minKey and maxKey. *)

\* Mistake: a query only loads the child.
ApplyPendingNot(node, i, lo, hi, deep) ==
  [node EXCEPT !.branches[i] = Fetched(@)]

\* applyPendingEdits for branch i of a node.
ApplyPending(node, i, lo, hi, deep) ==
  LET low == LowOf(node.branches, i, lo)
      high == HighOf(node.branches, i, hi)
      branch == node.branches[i]
      child == ApplyEach(branch.child, EditsIn(node.queue, low, high), deep)
  IN  Internal([node.branches EXCEPT ![i] = Recounted(@, child)],
               EditsOut(node.queue, low, high))

\* A query has gone down branch i of a node and found what it looked for.
Ascend(node, i, found) ==
  [found EXCEPT !.node = [node EXCEPT !.branches[i].child = found.node]]

\* findRec: the first value of key k, or NoValue.
RECURSIVE FindRec(_, _, _, _)
FindRec(node, k, lo, hi) ==
  CASE node.kind = "leaf" ->
         LET at == At(node.pairs, k)
         IN  [node |-> node,
              val |-> IF at = {} THEN NoValue ELSE node.pairs[Min(at)].val]
    [] IsInternal(node) /\ node.branches # <<>> ->
         LET i == FindInternalKey(node.branches, k)
             descend(new) ==
               Ascend(new, i, FindRec(new.branches[i].child, k,
                                      LowOf(new.branches, i, lo),
                                      HighOf(new.branches, i, hi)))
         IN  descend(ApplyPending(node, i, lo, hi, FALSE))
    [] OTHER -> [node |-> Undefined, val |-> NoValue]

\* tree_impl::find
Find(root, k) == FindRec(root, k, Empty, Empty)

\* Mistake: guaranteed or not, the edits are counted and not applied.
PendingRankDeltaTrusting(node, i, lo, hi) ==
  LET queued == EditsIn(node.queue, LowOf(node.branches, i, lo),
                        HighOf(node.branches, i, hi))
  IN  [node  |-> [node EXCEPT !.branches[i] = Fetched(@)],
       delta |-> FoldLeft(LAMBDA d, e : d + Delta(e), 0, queued)]

\* What pendingRankDelta adds to a branch's count, and the node it leaves: all
\* edits guaranteed, or else all of them applied as deep as they go.
PendingRankDelta(node, i, lo, hi) ==
  LET queued == EditsIn(node.queue, LowOf(node.branches, i, lo),
                        HighOf(node.branches, i, hi))
  IN  IF \A j \in DOMAIN queued : queued[j].sure
      THEN [node  |-> [node EXCEPT !.branches[i] = Fetched(@)],
            delta |-> FoldLeft(LAMBDA d, e : d + Delta(e), 0, queued)]
      ELSE [node |-> ApplyPending(node, i, lo, hi, TRUE), delta |-> 0]

Nothing == [key |-> Empty, val |-> NoValue]

\* seekRec on a leaf and its overflow blocks, with n items still to skip.  At
\* the end of the last block the code goes on in that block, over and over.
SeekLeaf(leaf, n) ==
  LET pairs == leaf.pairs
      over == leaf.over
      more == OverflowValues(over)
      behind(v) == [key |-> OverflowKey(leaf), val |-> v]
      skipped == {i \in DOMAIN over :
                    Len(OverflowValues(SubSeq(over, 1, i))) <= n - Len(pairs)}
  IN  CASE n < Len(pairs) -> [node |-> leaf, item |-> pairs[n + 1]]
        [] n >= Len(pairs) /\ over = <<>> -> [node |-> leaf, item |-> Nothing]
        [] n >= LeafItems(leaf) /\ over # <<>> ->
             LET vals == Last(over).vals
             IN  [node |-> [leaf EXCEPT !.over = Loaded(over, Len(over))],
                  item |-> behind(vals[((n - LeafItems(leaf)) % Len(vals)) + 1])]
        [] OTHER ->
             [node |-> [leaf EXCEPT !.over = Loaded(over, Cardinality(skipped) + 1)],
              item |-> behind(more[n - Len(pairs) + 1])]

\* seekRec from branch i on.  Counts are unsigned, so that one below zero is
\* above everything.
RECURSIVE SeekRec(_, _, _, _, _)
SeekRec(node, i, n, lo, hi) ==
  CASE node.kind = "leaf" -> SeekLeaf(node, n)
    [] IsInternal(node) /\ i > Len(node.branches) -> [node |-> node, item |-> Nothing]
    [] IsInternal(node) /\ i <= Len(node.branches) ->
         LET descend(new) ==
               Ascend(new, i, SeekRec(new.branches[i].child, 1, n,
                                      LowOf(new.branches, i, lo),
                                      HighOf(new.branches, i, hi)))
             step(new, count) ==
               IF count < 0 \/ n < count
               THEN descend(ApplyPending(new, i, lo, hi, FALSE))
               ELSE SeekRec(new, i + 1, n - count, lo, hi)
             counted(pending) ==
               step(pending.node, pending.node.branches[i].count + pending.delta)
         IN  counted(PendingRankDelta(node, i, lo, hi))
    [] OTHER -> [node |-> Undefined, item |-> Nothing]

\* tree_impl::seek
Seek(root, n) == SeekRec(root, 1, n, Empty, Empty)

\* rank() at the internal nodes: the counts of the branches before branch i.
RECURSIVE RankBefore(_, _, _, _, _, _)
RankBefore(node, j, i, acc, lo, hi) ==
  IF j = i THEN [node |-> node, rank |-> acc]
  ELSE LET pending == PendingRankDelta(node, j, lo, hi)
       IN  RankBefore(pending.node, j + 1, i,
                      acc + node.branches[j].count + pending.delta, lo, hi)

\* tree_impl::rank for the iterator that find(k) returned; the path of find is
\* the path to k.
RECURSIVE RankRec(_, _, _, _)
RankRec(node, k, lo, hi) ==
  IF node.kind = "leaf" THEN [node |-> node, rank |-> Min(At(node.pairs, k)) - 1]
  ELSE LET i == FindInternalKey(node.branches, k)
           descend(new) ==
             Ascend(new, i, RankRec(new.branches[i].child, k,
                                    LowOf(new.branches, i, lo),
                                    HighOf(new.branches, i, hi)))
           add(before) == [descend(before.node) EXCEPT !.rank = @ + before.rank]
       IN  add(RankBefore(node, 1, i, 0, lo, hi))

Rank(root, k) == RankRec(Find(root, k).node, k, Empty, Empty)
=============================================================================
