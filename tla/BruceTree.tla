------------------------------ MODULE BruceTree ------------------------------
(***************************************************************************)
(* One tree used by one program: edits, queries, and write() followed by   *)
(* opening the new root, for write() freezes a tree object (tree_impl.h).  *)
(*                                                                         *)
(* An edit may wait in any queue on its way down to a leaf, and queries    *)
(* and write() move it on.  None of this must show: the contents of the    *)
(* tree, the edits in its queues counted as made, are those of a Multimap. *)
(***************************************************************************)
EXTENDS Iterator, Stats, PairBags

CONSTANTS
  Calls,       \* the kinds of calls the program makes
  Promises,    \* the guarantees it gives: "none", "true", "false"
  Distinct,    \* TRUE if it never inserts a key that is there
  Pinned,      \* keys that are there from the start and never removed
  Skips,       \* how far it skips at once
  MaxItems,    \* bound: pairs in the tree, if keys are not distinct
  MaxPending,  \* bound: edits in the queues
  MaxHeight    \* bound: levels of the tree

ASSUME BruceTreeAssumption ==
  /\ Keys \subseteq Nat \ {Empty} /\ Values \subseteq Nat \ {NoValue}
  /\ Pinned \subseteq Keys
  /\ Skips \subseteq Int
  /\ Promises \subseteq {"none", "true", "false"}
  /\ Calls \subseteq {"insert", "upsert", "removeKey", "removeKV",
                      "find", "seek", "rank", "scan", "skip"}

VARIABLES
  root,  \* tree_impl::m_root and all that is below it
  bag,   \* ghost: the contents of root, see Contents
  call   \* ghost: the last edit, or Query

vars == <<root, bag, call>>

-----------------------------------------------------------------------------
(* Measures of a tree *)

Children(node) ==
  IF IsInternal(node) THEN {node.branches[i].child : i \in DOMAIN node.branches}
                      ELSE {}

RECURSIVE Height(_)
Height(node) == 1 + Max({0} \cup {Height(c) : c \in Children(node)})

RECURSIVE Pending(_)
Pending(node) ==
  IF IsInternal(node)
  THEN Len(node.queue) +
       FoldLeft(LAMBDA n, b : n + Pending(b.child), 0, node.branches)
  ELSE 0

Items(b) == FoldFunction(+, 0, b)

\* The pairs with a lesser key.
ItemsBelow(k) ==
  Items([p \in Pairs |-> IF p[1] < k THEN bag[p] ELSE 0])

AfterEdit(before, edit) == CHOOSE after \in Results(before, edit) : TRUE

\* What is in the leaves, with the edits in the queues made, deepest first.
RECURSIVE Contents(_)
Contents(node) ==
  CASE node.kind = "leaf" -> BagOf(LeafPairs(node))
    [] IsInternal(node) ->
         LET bags == [i \in DOMAIN node.branches |-> Contents(node.branches[i].child)]
             below == [p \in Pairs |->
                         FoldLeft(LAMBDA n, b : n + b[p], 0, bags)]
         IN  FoldLeft(AfterEdit, below, node.queue)
    [] OTHER -> NoPairs

MM == INSTANCE Multimap

-----------------------------------------------------------------------------
(* What the program does *)

Init ==
  /\ root = LeafNode([i \in 1..Cardinality(Pinned) |->
                        [key |-> SetToSortSeq(Pinned, <)[i], val |-> Min(Values)]],
                     <<>>)
  /\ bag = Contents(root)
  /\ call = MM!Query

\* The tree becomes node.
Becomes(node) == root' = node /\ bag' = Contents(node)

\* What a guaranteed edit claims: that it changes the number of pairs as
\* delta() says (README.md:39-47).
Exact(edit) == edit.op = "insert" \/ Targets(bag, edit) # {}

\* The edits that the program makes, and the guarantees it gives with them.
Allowed(edit) ==
  LET removes == edit.op \in {"removeKey", "removeKV"}
  IN  /\ edit.op \in Calls
      /\ CASE edit.op = "insert"       -> Distinct => ~HasKey(bag, edit.key)
           [] edit.op # "insert" /\ ~edit.sure -> "none" \in Promises
           [] edit.op # "insert" /\ edit.sure  ->
                (IF Exact(edit) THEN "true" ELSE "false") \in Promises
      /\ removes => edit.key \notin Pinned
      /\ removes \/ Distinct \/ Items(bag) < MaxItems

\* tree_impl::apply at the root.
MakeEdit(edit) ==
  /\ Allowed(edit)
  /\ Becomes(Apply(root, edit, FALSE))
  /\ call' = [op |-> edit.op, key |-> edit.key, val |-> edit.val]

Insert(k, v) == MakeEdit(Edit("insert", k, v, TRUE))
Upsert(k, v, sure) == MakeEdit(Edit("upsert", k, v, sure))
RemoveKey(k, sure) == MakeEdit(Edit("removeKey", k, NoValue, sure))
RemoveKV(k, v, sure) == MakeEdit(Edit("removeKV", k, v, sure))

\* A query leaves the tree as node.
Asked(op, node) ==
  /\ op \in Calls
  /\ Becomes(node)
  /\ call' = MM!Query

FindKey(k) == Asked("find", Find(root, k).node)

SeekItem(n) == Asked("seek", Seek(root, n).node)

\* tree_iterator::rank, of what find returned.
RankKey(k) == HasKey(bag, k) /\ Asked("rank", Rank(root, k).node)

\* A scan from begin() on that stops after n items.
ScanItems(n) == Asked("scan", Scan(root, n).node)

\* find(k) and skip(n), within the tree.
SkipItems(k, n) ==
  /\ HasKey(bag, k)
  /\ ItemsBelow(k) + n \in 0..(Items(bag) - 1)
  /\ Asked("skip", Skip(root, k, n).node)

\* write(), and a new tree object for the new root.
Write ==
  \E new \in {WriteTree(root)} :
     /\ Height(new) <= MaxHeight
     /\ Becomes(Opened(new))
     /\ call' = MM!Query

\* The program goes on as long as the tree is one.
Usable == root # Refused /\ Defined(root)

Editing ==
  \/ \E k \in Keys, v \in Values : Insert(k, v)
  \/ \E k \in Keys, v \in Values, sure \in BOOLEAN : Upsert(k, v, sure)
  \/ \E k \in Keys, sure \in BOOLEAN : RemoveKey(k, sure)
  \/ \E k \in Keys, v \in Values, sure \in BOOLEAN : RemoveKV(k, v, sure)

Querying ==
  \/ \E k \in Keys : FindKey(k)
  \/ \E n \in 0..MaxItems : SeekItem(n)
  \/ \E k \in Keys : RankKey(k)
  \/ \E n \in 1..MaxItems : ScanItems(n)
  \/ \E k \in Keys, n \in Skips : SkipItems(k, n)

Next ==
  /\ Usable
  /\ \/ Pending(root) < MaxPending /\ Editing
     \/ Querying
     \/ Write

Spec == Init /\ [][Next]_vars
-----------------------------------------------------------------------------
(* Properties *)

\* The tree is a multimap: an edit changes its contents as its name says, and
\* neither a query nor write() changes them, however far edits have got on
\* their way down (README.md:33-67, tree.h).
IsMultimap == MM!Spec

\* Writing the tree now would keep its contents.
WriteExact ==
  Usable => \A new \in {WriteTree(root)} : new = Refused \/ Contents(new) = bag

\* find() sees every edit that was made before, wherever it is queued: it
\* returns a value of the key, and nothing if the key has none.
FindExact ==
  \A k \in Keys :
    LET val == Find(root, k).val
    IN  IF val = NoValue THEN ~HasKey(bag, k)
        ELSE bag[<<k, val>>] > 0

\* seek(n) finds a pair that has n pairs before it in the order of the keys,
\* whichever edits are still queued above it (README.md:35-47).
SeekExact ==
  \A n \in 0..(Items(bag) - 1) :
    LET item == Seek(root, n).item
    IN  /\ item # Nothing
        /\ ItemsBelow(item.key) <= n /\ n < ItemsBelow(item.key + 1)

\* rank() of what find() returns is the number of pairs with a lesser key.
RankExact ==
  \A k \in Keys :
    Find(root, k).val # NoValue => Rank(root, k).rank = ItemsBelow(k)

\* A scan meets every pair once, in the order of the keys, in leaves and overflow
\* blocks, with the edits that wait on its way made, and leaves the contents as
\* they were.  Only a leaf that edits have emptied stops it early.
ScanExact ==
  Usable =>
  \A scan \in {Scan(root, Items(bag) + 1)} :
    LET met == BagOf(scan.items)
    IN  /\ \A i \in 2..Len(scan.items) : scan.items[i - 1].key <= scan.items[i].key
        /\ Contents(scan.node) = bag
        /\ IF scan.it = Past THEN met = bag
           ELSE /\ \A p \in Pairs : met[p] <= bag[p]
                /\ LeafAt(scan.node, scan.it.path).pairs = <<>>

\* The pairs before the first one behind the leaf that find(k) ends in.
LeafEnd(k) == ItemsBelow(Last(LeafFor(Find(root, k).node, k).pairs).key + 1)

\* skip(n) comes to the pair n further on or back in the order of the keys, be it
\* in the leaf or by rank and seek, with one exception: if that pair is the first
\* of the next leaf, it always stops at the end of its leaf and is no longer valid
\* (tree_iterator_impl.cpp:101-106, against the comment at :121).
SkipExact ==
  \A k \in Keys, n \in Skips :
    LET target == ItemsBelow(k) + n
    IN  HasKey(bag, k) /\ target \in 0..(Items(bag) - 1) =>
          LET item == Skip(root, k, n).item
          IN  IF item = Nothing THEN n > 0 /\ target = LeafEnd(k)
              ELSE /\ n < 0 \/ target # LeafEnd(k)
                   /\ ItemsBelow(item.key) <= target
                   /\ target < ItemsBelow(item.key + 1)

\* What bstat says of a tree that was written: its depth is that of the leaves,
\* its longest chain that of a leaf, it counts a pair for each pair but what
\* queued edits bring or take, and every size is that of a block.  A tree whose
\* pages are not loaded is one that was written, or edited at the root since.
StatsExact ==
  Usable /\ root = Opened(root) =>
  \A new \in {WriteTree(root)} \ {Refused, Undefined} :
    LET stats == Collected(Opened(new))
        leaves == {node \in Nodes(new) : node.kind = "leaf"}
        found == stats.leafValues + stats.overflowValues
    IN  /\ stats.leafDepth = Height(new)
        /\ stats.depth = stats.leafDepth + stats.longestChain
        /\ stats.longestChain = Max({Len(leaf.over) : leaf \in leaves})
        /\ Items(bag) - found \in (-stats.queuedEdits)..stats.queuedEdits
        /\ \A sizes \in {stats.leafSizes, stats.overflowSizes, stats.internalSizes} :
             \A i \in DOMAIN sizes : BlockSize = 0 \/ sizes[i] \in 1..BlockSize

\* Every key is where FindInternalKey looks for it, and every leaf at the same
\* level: what is in a node is between the least keys of its branch and of the
\* next, branches, pairs and queues are in order, and no internal node is empty.
RECURSIVE InOrder(_, _, _, _)
InOrder(node, level, lo, hi) ==
  CASE node.kind = "leaf" ->
         /\ level = 1
         /\ \A i \in DOMAIN node.pairs :
              /\ InRange(node.pairs[i].key, lo, hi)
              /\ i > 1 => node.pairs[i - 1].key <= node.pairs[i].key
    [] IsInternal(node) ->
         /\ node.branches # <<>>
         /\ \A i \in DOMAIN node.branches :
              /\ i > 1 => /\ InRange(node.branches[i].min, lo, hi)
                          /\ node.branches[i - 1].min < node.branches[i].min
              /\ InOrder(node.branches[i].child, level - 1,
                         LowOf(node.branches, i, lo), HighOf(node.branches, i, hi))
         /\ \A i \in DOMAIN node.queue :
              /\ InRange(node.queue[i].key, lo, hi)
              /\ i > 1 => node.queue[i - 1].key <= node.queue[i].key
    [] OTHER -> FALSE

TreeInOrder == root # Refused => InOrder(root, Height(root), Empty, Empty)

\* The count of a branch that leads to a leaf is the number of pairs and values
\* in the leaf and its overflow blocks, whatever was promised.
LeafCountsExact ==
  \A node \in Nodes(root) :
    IsInternal(node) =>
      \A i \in DOMAIN node.branches :
        LET branch == node.branches[i]
        IN  branch.child.kind = "leaf" => branch.count = LeafItems(branch.child)

\* write() gets its pages into blocks: it does not throw because of the size of
\* a page or because the tree grows by more levels than it tries.
WriteAccepted == root # Refused

\* No call reaches undefined behaviour or a failing assert.
NothingUndefined == root # Refused => Defined(root)
=============================================================================
