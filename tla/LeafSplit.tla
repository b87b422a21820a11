------------------------------ MODULE LeafSplit ------------------------------
(***************************************************************************)
(* How a leaf that has grown too large is divided, for keys and values of  *)
(* any size: LeafNodeSize chooses where, maybeSplitLeaf cuts off a left    *)
(* leaf and the overflow block behind it and goes on with the rest, and    *)
(* pushDownOverflowNodeSize divides the block as OverflowNodeSize says.    *)
(* (Module Leaf does the same in one step, with one size for all keys and  *)
(* one for all values.)                                                    *)
(*                                                                         *)
(* A pair is its key and the size of its value.  Overflow blocks keep      *)
(* pairs here; the code drops the keys, which are all the same.            *)
(***************************************************************************)
EXTENDS Naturals, SequencesExt

CONSTANTS
  KeySizeOf,   \* the size of each key; its domain is the keys
  ValueSizes,  \* the sizes that values have
  BlockSize,   \* be::maxBlockSize
  MaxPairs     \* bound: pairs of the leaf

ASSUME LeafSplitAssumption ==
  /\ DOMAIN KeySizeOf \subseteq Nat
  /\ KeySizeOf \in [DOMAIN KeySizeOf -> Nat] /\ ValueSizes \subseteq Nat
  /\ BlockSize \in Nat /\ MaxPairs \in Nat

VARIABLES
  all,     \* ghost: the pairs of the leaf before the split
  chained, \* whether it has an overflow chain already
  rest,    \* the leaf that maybeSplitLeaf is called with
  leaves,  \* the leaves it has cut off, each with its overflow blocks
  phase    \* "leaf", "overflow" or "done"; "assert" if an assertion fails, and
           \* "endless" if a function calls itself for ever

vars == <<all, chained, rest, leaves, phase>>

-----------------------------------------------------------------------------
(* Sizes *)

\* flags_t, keycount_t, itemcount_t and nodeid_t of the chained block.
Header == 2 + 4 + 4 + 20

SizeOf(pair) == KeySizeOf[pair.key] + pair.val

\* The size of a page with the first i of these sizes behind its header.
UpTo(sizes) ==
  LET upTo[i \in 0..Len(sizes)] ==
        IF i = 0 THEN Header ELSE upTo[i - 1] + sizes[i]
  IN  upTo

LeafSizes(pairs)  == UpTo([i \in DOMAIN pairs |-> SizeOf(pairs[i])])
BlockSizes(block) == UpTo([i \in DOMAIN block |-> block[i].val])

LeafSize(pairs)   == LeafSizes(pairs)[Len(pairs)]
BlockBytes(block) == BlockSizes(block)[Len(block)]

\* The first i for which the page is larger than a limit.
FirstOver(upTo, limit) ==
  Min({i \in DOMAIN upTo : i > 0 /\ upTo[i] > limit})

\* NodeSize::shouldSplit
ShouldSplit(size) == BlockSize # 0 /\ BlockSize < size

\* Mistake: a leaf is filled, and not half filled.
PieceSizeFull == BlockSize

\* Half a block, rounded up.
PieceSize == (BlockSize + 1) \div 2

\* The first pair that does not fit into half a block.
Here(pairs) == FirstOver(LeafSizes(pairs), PieceSize)

SameKey(pairs, i) == {j \in DOMAIN pairs : pairs[j].key = pairs[i].key}

\* Mistake: the right leaf begins behind that pair.
SplitStartHere(pairs) == Here(pairs) + 1

\* The right leaf begins behind the key of that pair.
SplitStart(pairs) == Max(SameKey(pairs, Here(pairs))) + 1

\* Mistake: all pairs of that key go to the overflow block.
OverflowStartAll(pairs) == Min(SameKey(pairs, Here(pairs)))

\* One pair of that key stays in the left leaf.
OverflowStart(pairs) == Min(SameKey(pairs, Here(pairs))) + 1

\* Mistake: overflow blocks are half filled, like leaves.
SplitIndexHalf(block) == FirstOver(BlockSizes(block), PieceSize)

\* The first value that does not fit into an overflow block.
SplitIndex(block) == FirstOver(BlockSizes(block), BlockSize)

-----------------------------------------------------------------------------
\* tree_impl::validateKVSize, for each pair when it was inserted.
Validated(pair) == SizeOf(pair) <= BlockSize

Pairs == {p \in [key : DOMAIN KeySizeOf, val : ValueSizes] : Validated(p)}

\* A leaf in order.  If it has an overflow chain, it has one pair of its last
\* key: insertions of that key go to the chain.
Init ==
  /\ \E n \in 1..MaxPairs : all \in [1..n -> Pairs]
  /\ \A i \in 2..Len(all) : all[i - 1].key <= all[i].key
  /\ chained \in BOOLEAN
  /\ chained => Cardinality(SameKey(all, Len(all))) = 1
  /\ rest = all
  /\ leaves = <<>>
  /\ phase = "leaf"

Cut(pairs, block) == [pairs |-> pairs, chain |-> IF block = <<>> THEN <<>> ELSE <<block>>]

\* maybeSplitLeaf: the leaf is small enough.
KeepLeaf ==
  /\ phase = "leaf"
  /\ ~ShouldSplit(LeafSize(rest))
  /\ leaves' = Append(leaves, Cut(rest, <<>>))
  /\ rest' = <<>>
  /\ phase' = "done"
  /\ UNCHANGED <<all, chained>>

\* maybeSplitLeaf: a left leaf, an overflow block, and what goes on to the right.
SplitLeaf ==
  /\ phase = "leaf"
  /\ ShouldSplit(LeafSize(rest))
  /\ LET over == OverflowStart(rest)
         right == SplitStart(rest)
         block == SubSeq(rest, over, right - 1)
     IN  /\ leaves' = Append(leaves, Cut(SubSeq(rest, 1, over - 1), block))
         /\ rest' = SubSeq(rest, right, Len(rest))
         /\ phase' = IF chained /\ rest' = <<>> THEN "assert"
                     ELSE IF block # <<>> THEN "overflow"
                     ELSE IF rest' = <<>> THEN "done" ELSE "leaf"
  /\ UNCHANGED <<all, chained>>

\* The block that pushDownOverflowNodeSize is at.
LastBlock == Last(Last(leaves).chain)

\* pushDownOverflowNodeSize: the block is small enough.
KeepBlock ==
  /\ phase = "overflow"
  /\ ~ShouldSplit(BlockBytes(LastBlock))
  /\ phase' = IF rest = <<>> THEN "done" ELSE "leaf"
  /\ UNCHANGED <<all, chained, rest, leaves>>

\* The values that do not fit go to the next block.  If none fits, all of them
\* do, and the next block is what this one was.
PushDown ==
  /\ phase = "overflow"
  /\ ShouldSplit(BlockBytes(LastBlock))
  /\ LET i == SplitIndex(LastBlock)
         kept == SubSeq(LastBlock, 1, i - 1)
         next == SubSeq(LastBlock, i, Len(LastBlock))
     IN  /\ leaves' = [leaves EXCEPT ![Len(leaves)].chain = Front(@) \o <<kept, next>>]
         /\ phase' = IF kept = <<>> THEN "endless" ELSE phase
  /\ UNCHANGED <<all, chained, rest>>

\* write() has its pieces, or it has failed.
Written == phase \in {"done", "assert", "endless"} /\ UNCHANGED vars

Next == KeepLeaf \/ SplitLeaf \/ KeepBlock \/ PushDown \/ Written

Spec == Init /\ [][Next]_vars
-----------------------------------------------------------------------------
(* Properties *)

\* No larger than half a block, and it fits into a block behind the header.
AtMostHalf(pair) ==
  2 * SizeOf(pair) <= BlockSize /\ Header + SizeOf(pair) <= BlockSize

\* The pairs for which the arithmetic of the cuts is right; validateKVSize lets
\* larger ones through.
Moderate == \A p \in Range(all) : AtMostHalf(p)

\* Every leaf and every overflow block of moderate pairs fits into a block of the
\* engine, which throws if one does not (mem.cpp:45-56).
PiecesFit ==
  phase = "done" /\ Moderate =>
    \A n \in DOMAIN leaves :
      /\ LeafSize(leaves[n].pairs) <= BlockSize
      /\ \A i \in DOMAIN leaves[n].chain :
           BlockBytes(leaves[n].chain[i]) <= BlockSize

\* No pair is lost, doubled or moved before another, and a leaf that is cut off
\* is not empty.
PairsKept ==
  phase # "assert" =>
    /\ all = FlattenSeq([n \in DOMAIN leaves |->
                           leaves[n].pairs \o FlattenSeq(leaves[n].chain)]) \o rest
    /\ \A n \in DOMAIN leaves : leaves[n].pairs # <<>>

\* The same key is never in more than one leaf, and an overflow chain holds only
\* values of the last key of its leaf (DESIGN.md:62-67, serializing.h:21-23).
KeysTogether ==
  \A n \in DOMAIN leaves :
    LET own == leaves[n].pairs
        later == FlattenSeq([m \in 1..(Len(leaves) - n) |-> leaves[n + m].pairs])
    IN  /\ \A p \in Range(FlattenSeq(leaves[n].chain)) : p.key = Last(own).key
        /\ \A p \in Range(later \o rest) : Last(own).key < p.key

\* An overflow chain that the leaf had finds a leaf to go to: among moderate pairs
\* the assertion of maybeSplitLeaf (tree_impl.cpp:401-404) never fails.
ChainHasLeaf == phase = "assert" => ~Moderate

\* Pushing values down a chain comes to an end unless one of them fits into no
\* block behind the header, which validateKVSize does not count
\* (tree_impl.cpp:305): a large value never keeps others from being pushed, and
\* any that fits is kept by the block it comes to (serializing.cpp:318-327).
PushDownEnds ==
  phase = "endless" => \E p \in Range(all) : Header + p.val > BlockSize

-----------------------------------------------------------------------------
(* What is true of every state, and makes these properties so *)

Ordered(pairs) ==
  \A i, j \in DOMAIN pairs : i <= j => pairs[i].key <= pairs[j].key

Leaves == [pairs : Seq(Pairs), chain : Seq(Seq(Pairs))]

\* There is a leaf to divide, or a block.
Working ==
  /\ all \in Seq(Pairs) /\ rest \in Seq(Pairs) /\ leaves \in Seq(Leaves)
  /\ phase = "leaf" => rest # <<>>
  /\ phase = "overflow" =>
       /\ leaves # <<>>
       /\ leaves[Len(leaves)].chain # <<>>
       /\ LastBlock # <<>>

ChainOfLastKey(leaf) ==
  /\ leaf.pairs # <<>>
  /\ \A i \in DOMAIN leaf.chain :
       \A p \in Range(leaf.chain[i]) : p.key = Last(leaf.pairs).key

Before(leaf, pairs) == \A p \in Range(pairs) : Last(leaf.pairs).key < p.key

\* All that follows a leaf is behind its last key.
KeysInOrder ==
  /\ Ordered(rest)
  /\ \A n \in DOMAIN leaves :
       /\ ChainOfLastKey(leaves[n])
       /\ Before(leaves[n], rest)
       /\ \A m \in DOMAIN leaves : n < m => Before(leaves[n], leaves[m].pairs)

SplitInv == Working /\ KeysInOrder

\* What a leaf is with its chain.
Piece(leaf) == leaf.pairs \o FlattenSeq(leaf.chain)

\* The pieces so far, and what is left, are the leaf that there was.
Pieces(cut) == [n \in DOMAIN cut |-> Piece(cut[n])]

NothingLost == all = FlattenSeq(Pieces(leaves)) \o rest

\* All pieces fit but the block that is still to be pushed down, and the last key
\* of a leaf with a chain is there once.
FitInv ==
  /\ phase \notin {"assert", "endless"}
  /\ \A n \in DOMAIN leaves :
       /\ LeafSize(leaves[n].pairs) <= BlockSize
       /\ \A i \in DOMAIN leaves[n].chain :
            \/ BlockBytes(leaves[n].chain[i]) <= BlockSize
            \/ /\ phase = "overflow"
               /\ n = Len(leaves) /\ i = Len(leaves[n].chain)
  /\ chained => \A i \in DOMAIN rest :
                  i < Len(rest) => rest[i].key # rest[Len(rest)].key
=============================================================================
