-------------------------------- MODULE Stats --------------------------------
(***************************************************************************)
(* bstat: a walk over the pages of a tree, depth first, and the collector  *)
(* that counts what it visits.  The walk knows no tree, just the node at   *)
(* hand and its depth; how long a chain of overflow blocks is the          *)
(* collector tells from the depth of the leaf it saw last.                 *)
(***************************************************************************)
EXTENDS Tree

\* A collector that has seen nothing.  The constructor leaves the depth of the
\* last leaf as it is in memory; no walk from the root of a tree reads it then.
NewCollector ==
  [leafSizes |-> <<>>, overflowSizes |-> <<>>, internalSizes |-> <<>>,
   queueSizes |-> <<>>, leafValues |-> 0, overflowValues |-> 0, branches |-> 0,
   queuedEdits |-> 0, leafDepth |-> 0, depth |-> 0, longestChain |-> 0,
   lastLeafDepth |-> 0]

\* Mistake: the depth of the leaf is not kept for the chain behind it.
VisitLeafUnmarked(seen, leaf, depth) ==
  [seen EXCEPT !.depth = Max({depth, @}), !.leafDepth = Max({depth, @}),
               !.leafSizes = Append(@, LeafBytes(Len(leaf.pairs))),
               !.leafValues = @ + Len(leaf.pairs)]

VisitLeaf(seen, leaf, depth) ==
  [seen EXCEPT !.depth = Max({depth, @}), !.leafDepth = Max({depth, @}),
               !.leafSizes = Append(@, LeafBytes(Len(leaf.pairs))),
               !.leafValues = @ + Len(leaf.pairs), !.lastLeafDepth = depth]

VisitOverflow(seen, block, depth) ==
  [seen EXCEPT !.depth = Max({depth, @}),
               !.longestChain = Max({depth - seen.lastLeafDepth, @}),
               !.overflowSizes = Append(@, LeafHeader + ValueSize * Len(block.vals)),
               !.overflowValues = @ + Len(block.vals)]

VisitInternal(seen, node, depth) ==
  [seen EXCEPT !.depth = Max({depth, @}),
               !.internalSizes = Append(@, InternalBytes(node)),
               !.queueSizes = Append(@, QueueBytes(node.queue)),
               !.branches = @ + Len(node.branches),
               !.queuedEdits = @ + Len(node.queue)]

\* doWalk of the blocks of a chain, the first of them depth levels down.
WalkChain(over, seen, depth) ==
  FoldLeftDomain(LAMBDA s, i : VisitOverflow(s, over[i], depth + i - 1), seen, over)

\* doWalk
RECURSIVE Walk(_, _, _)
Walk(node, seen, depth) ==
  IF IsInternal(node)
  THEN FoldLeft(LAMBDA s, b : Walk(b.child, s, depth + 1),
                VisitInternal(seen, node, depth), node.branches)
  ELSE WalkChain(node.over, VisitLeaf(seen, node, depth), depth + 1)

Collected(root) == Walk(root, NewCollector, 1)
=============================================================================
