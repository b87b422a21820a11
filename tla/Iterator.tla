------------------------------ MODULE Iterator ------------------------------
(***************************************************************************)
(* Iterators over a tree: begin() goes down the first branches, next()     *)
(* goes through a leaf, its overflow blocks and on to the next leaf, and   *)
(* skip() goes further in a leaf or else seeks again.  On their way they   *)
(* push queued edits down, like all queries.                               *)
(*                                                                         *)
(* An iterator is the branches it took, from the root, the overflow block  *)
(* it is in, 0 for the leaf, and its position there.  An edit makes it     *)
(* invalid, so a scan is one call here, of as many steps as it takes.      *)
(***************************************************************************)
EXTENDS Tree

\* An iterator whose path is empty: it went past the last leaf.
Past == [path |-> <<>>, block |-> 0, pos |-> 0]

\* The start of a leaf (fork::fork).
LeafStart == [path |-> <<>>, block |-> 0, pos |-> 1]

\* What an iterator found below branch i of a node.
Below(i, it) == [it EXCEPT !.path = <<i>> \o @]

RECURSIVE LeafAt(_, _)
LeafAt(node, path) ==
  IF path = <<>> THEN node ELSE LeafAt(node.branches[Head(path)].child, Tail(path))

RECURSIVE WithLeaf(_, _, _)
WithLeaf(node, path, leaf) ==
  IF path = <<>> THEN leaf
  ELSE [node EXCEPT !.branches[Head(path)].child = WithLeaf(@, Tail(path), leaf)]

\* tree_iterator_impl::valid, for an iterator in this leaf.
InLeaf(leaf, it) ==
  IF it.block = 0 THEN it.pos \in DOMAIN leaf.pairs
                  ELSE it.pos \in DOMAIN leaf.over[it.block].vals

Valid(node, it) == it # Past /\ InLeaf(LeafAt(node, it.path), it)

\* value(), and the key that belongs to it; key() itself takes an overflow
\* block for a leaf, which is undefined.
ItemAt(leaf, it) ==
  IF it.block = 0 THEN leaf.pairs[it.pos]
  ELSE [key |-> OverflowKey(leaf), val |-> leaf.over[it.block].vals[it.pos]]

-----------------------------------------------------------------------------
(* From leaf to leaf *)

\* Mistake: the edits that wait for the child are not made.
ApplyPendingAheadNot(node, i, lo, hi) == [node EXCEPT !.branches[i] = Fetched(@)]

\* The call of applyPendingEdits in travelToNextLeaf for branch i.  It takes the
\* index of the fork that was just pushed, which is that of the child, for the
\* index of the branch, so the first branch gets the count of the child.
ApplyPendingAhead(node, i, lo, hi) ==
  LET low == LowOf(node.branches, i, lo)
      high == HighOf(node.branches, i, hi)
      down(child) ==
        [node.branches EXCEPT ![i] = [Fetched(@) EXCEPT !.child = child],
                              ![1].count = ItemCount(child)]
  IN  Internal(down(ApplyEach(node.branches[i].child,
                              EditsIn(node.queue, low, high), FALSE)),
               EditsOut(node.queue, low, high))

RECURSIVE Travel(_, _, _, _), Onward(_, _, _, _, _)

\* travelToNextLeaf from branch i of a node on.
Travel(node, i, lo, hi) ==
  CASE ~IsInternal(node) -> [node |-> node, it |-> LeafStart]
    [] IsInternal(node) /\ i > Len(node.branches) -> [node |-> node, it |-> Past]
    [] OTHER ->
         LET down(new) ==
               Onward(new, i, Travel(new.branches[i].child, 1,
                                     LowOf(new.branches, i, lo),
                                     HighOf(new.branches, i, hi)), lo, hi)
         IN  down(ApplyPendingAhead(node, i, lo, hi))

\* What was looked for was found below branch i, or is below a later one.
Onward(node, i, found, lo, hi) ==
  LET new == [node EXCEPT !.branches[i].child = found.node]
  IN  IF found.it = Past THEN Travel(new, i + 1, lo, hi)
      ELSE [node |-> new, it |-> Below(i, found.it)]

\* popCurrentNode and travelToNextLeaf, from the leaf at the end of a path.
RECURSIVE NextLeaf(_, _, _, _)
NextLeaf(node, path, lo, hi) ==
  IF path = <<>> THEN [node |-> node, it |-> Past]
  ELSE LET i == Head(path)
       IN  Onward(node, i, NextLeaf(node.branches[i].child, Tail(path),
                                    LowOf(node.branches, i, lo),
                                    HighOf(node.branches, i, hi)), lo, hi)

-----------------------------------------------------------------------------
(* begin, next and skip *)

\* findRec without a key.
RECURSIVE BeginRec(_, _, _)
BeginRec(node, lo, hi) ==
  CASE node.kind = "leaf" -> [node |-> node, it |-> LeafStart]
    [] IsInternal(node) /\ node.branches # <<>> ->
         LET descend(new, found) ==
               [node |-> [new EXCEPT !.branches[1].child = found.node],
                it   |-> Below(1, found.it)]
             down(new) ==
               descend(new, BeginRec(new.branches[1].child,
                                     LowOf(new.branches, 1, lo),
                                     HighOf(new.branches, 1, hi)))
         IN  down(ApplyPending(node, 1, lo, hi, FALSE))
    [] OTHER -> [node |-> Undefined, it |-> Past]

\* tree_impl::begin
Begin(root) == BeginRec(root, Empty, Empty)

\* Mistake: the end of a block is the end of the chain.
AdvanceShort(root, leaf, it) ==
  IF it.block = 0 /\ leaf.over # <<>>
  THEN [node |-> WithLeaf(root, it.path, [leaf EXCEPT !.over = Loaded(@, 1)]),
        it   |-> [it EXCEPT !.block = 1, !.pos = 1]]
  ELSE NextLeaf(root, it.path, Empty, Empty)

\* advanceCurrent: on to the next overflow block of the leaf, or the next leaf.
Advance(root, leaf, it) ==
  IF it.block < Len(leaf.over)
  THEN [node |-> WithLeaf(root, it.path,
                          [leaf EXCEPT !.over = Loaded(@, it.block + 1)]),
        it   |-> [it EXCEPT !.block = @ + 1, !.pos = 1]]
  ELSE NextLeaf(root, it.path, Empty, Empty)

\* tree_iterator_impl::next
Next1(root, it) ==
  LET leaf == LeafAt(root, it.path)
      ahead == [it EXCEPT !.pos = @ + 1]
  IN  IF InLeaf(leaf, ahead) THEN [node |-> root, it |-> ahead]
                             ELSE Advance(root, leaf, it)

\* Up to n steps of an iterator, as long as it is valid: the items it met.
RECURSIVE Visit(_, _, _)
Visit(at, n, items) ==
  IF n = 0 \/ ~Valid(at.node, at.it)
  THEN [node |-> at.node, it |-> at.it, items |-> items]
  ELSE Visit(Next1(at.node, at.it), n - 1,
             Append(items, ItemAt(LeafAt(at.node, at.it.path), at.it)))

\* for (it = begin(); it && n > 0; ++it, --n)
Scan(root, n) == Visit(Begin(root), n, <<>>)

\* Mistake: the seek takes n for a rank.
SkipInFromStart(leaf, root, k, n) ==
  LET at == Min(At(leaf.pairs, k)) + n
  IN  IF n >= 0 /\ at <= Len(leaf.pairs) + 1
      THEN [node |-> root,
            item |-> IF at <= Len(leaf.pairs) THEN leaf.pairs[at] ELSE Nothing]
      ELSE Seek(root, IF n < 0 THEN 0 ELSE n)

\* find(k) and skip(n).  It goes as far as the end of the leaf, and if that is
\* not enough or n is negative, it asks for rank() + n, from where it then is.
SkipIn(leaf, root, k, n) ==
  LET from == Min(At(leaf.pairs, k))
      end == Len(leaf.pairs) + 1
      seek(ranked) ==
        Seek(ranked.node, ranked.rank + n + (IF n < 0 THEN 0 ELSE end - from))
  IN  IF n >= 0 /\ from + n <= end
      THEN [node |-> root,
            item |-> IF from + n < end THEN leaf.pairs[from + n] ELSE Nothing]
      ELSE seek(RankRec(root, k, Empty, Empty))

RECURSIVE LeafFor(_, _)
LeafFor(node, k) ==
  IF IsInternal(node)
  THEN LeafFor(node.branches[FindInternalKey(node.branches, k)].child, k)
  ELSE node

Skip(root, k, n) ==
  LET skip(node) == SkipIn(LeafFor(node, k), node, k, n)
  IN  skip(Find(root, k).node)
=============================================================================
