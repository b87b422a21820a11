-------------------------------- MODULE Leaf --------------------------------
(***************************************************************************)
(* Leaf nodes and the overflow blocks behind them, as tree_impl edits,     *)
(* flushes and splits them.                                                *)
(*                                                                         *)
(* A leaf holds pairs sorted by key, of which several may have the same    *)
(* key, and a chain of overflow blocks with more values of its last key.   *)
(* Keys are 1, 2, ... and Empty stands for the empty memslice.  All keys   *)
(* have one size and all values have one size, in bytes.                   *)
(*                                                                         *)
(* The count that overflow_t keeps of everything below a link is always    *)
(* the number of values there, so the chain is just the sequence of its    *)
(* blocks, each with a flag that says if it is in memory.  A link whose    *)
(* count is zero is "empty" to the code, whatever it points at: the chain  *)
(* ends before the first block with nothing in or behind it.               *)
(*                                                                         *)
(* The node Undefined stands for undefined behaviour, a failed assert, or  *)
(* a page that reads back as another node than the one written.            *)
(***************************************************************************)
EXTENDS PairLists

CONSTANTS
  BlockSize,  \* block_engine::maxBlockSize, 0 for no limit
  QueueSize,  \* block_engine::editQueueSize
  KeySize,    \* bytes of a key
  ValueSize   \* bytes of a value

ASSUME SizesAssumption ==
  /\ BlockSize \in Nat /\ QueueSize \in Nat
  /\ KeySize \in Nat /\ ValueSize \in Nat \ {0}

Empty == 0    \* the empty key: no bound
NoValue == 0  \* no value: a null pointer

Undefined == [kind |-> "undefined"]

LeafNode(pairs, over) == [kind |-> "leaf", pairs |-> pairs, over |-> over]

Edit(op, k, v, sure) == [op |-> op, key |-> k, val |-> v, sure |-> sure]

\* pending_edit::delta, what the edit adds to the number of pairs.
Delta(edit) == CASE edit.op = "insert" -> 1
                 [] edit.op = "upsert" -> 0
                 [] OTHER              -> -1

-----------------------------------------------------------------------------
(* Sizes in bytes *)

LeafHeader == 30  \* flags, pair count, overflow count and identifier

LeafBytes(n) == LeafHeader + n * (KeySize + ValueSize)

\* A block takes at least one pair (validateKVSize forgets the header).
ASSUME BlockAssumption == BlockSize = 0 \/ BlockSize >= LeafBytes(1)

\* NodeSize::shouldSplit
Overfull(bytes) == BlockSize # 0 /\ BlockSize < bytes

PieceSize == (BlockSize + 1) \div 2

\* The values that fit in one overflow block.
BlockValues == (BlockSize - LeafHeader) \div ValueSize

-----------------------------------------------------------------------------
(* Overflow chains *)

Block(vals, loaded) == [vals |-> vals, loaded |-> loaded]

OverflowValues(over) == FlattenSeq([i \in DOMAIN over |-> over[i].vals])

\* The key of the values in the overflow blocks.
OverflowKey(leaf) ==
  IF leaf.pairs = <<>> THEN Empty ELSE Last(leaf.pairs).key

\* All that a leaf and its overflow blocks hold.
LeafPairs(leaf) ==
  LET more == OverflowValues(leaf.over)
  IN  leaf.pairs \o [i \in DOMAIN more |->
                       [key |-> OverflowKey(leaf), val |-> more[i]]]

LeafItems(leaf) == Len(leaf.pairs) + Len(OverflowValues(leaf.over))

\* The chain up to its last value.
Live(over) ==
  SubSeq(over, 1, Max({0} \cup {i \in DOMAIN over : over[i].vals # <<>>}))

\* The chain once its first n blocks were loaded.
Loaded(over, n) ==
  [i \in DOMAIN over |-> Block(over[i].vals, over[i].loaded \/ i <= n)]

\* The chain once the first n blocks were loaded and the last of them changed.
Refilled(over, n, vals) ==
  [i \in DOMAIN over |->
     IF i = n THEN Block(vals, TRUE) ELSE Loaded(over, n)[i]]

\* overflowPull: the last value of the last block leaves the chain.
Pulled(over) == Live(Refilled(over, Len(over), Front(Last(over).vals)))

\* overflowInsert: the first block gets the value, whatever its size.
OverflowInsert(over, v) == Refilled(over, 1, Append(over[1].vals, v))

\* The loop of overflowRemove: after erasing an element it moves on to the one
\* after the next.  Position 0 is only there to start from.
Erased(vals, v) ==
  LET erased[i \in 0..Len(vals)] ==
        i > 0 /\ vals[i] = v /\ ~erased[i - 1]
  IN  erased

\* overflowRemove: in the first block that has the value.  The loop runs past
\* the end of the block when it erases the last value, so no block gets empty.
OverflowRemove(leaf, v) ==
  LET over == leaf.over
      having == {i \in DOMAIN over : Contains(over[i].vals, v)}
      b == Min(having)
      erased == Erased(over[b].vals, v)
      kept == {i \in DOMAIN over[b].vals : ~erased[i]}
  IN  CASE having = {} -> [leaf EXCEPT !.over = Loaded(over, Len(over))]
        [] having # {} /\ erased[Len(over[b].vals)] -> Undefined
        [] OTHER ->
             LET index == SetToSortSeq(kept, <)
             IN  [leaf EXCEPT !.over =
                    Refilled(over, b, [i \in DOMAIN index |-> over[b].vals[index[i]]])]

-----------------------------------------------------------------------------
(* tree_impl::leafInsert and leafRemove *)

\* Mistake: the first overflow block gets the value also if its key is new.
LeafInsertBehind(leaf, k, v, upsert) ==
  IF leaf.over # <<>> /\ At(leaf.pairs, k) = {}
  THEN [leaf EXCEPT !.over = OverflowInsert(@, v)]
  ELSE [leaf EXCEPT !.pairs = InsertPair(@, k, v)]

LeafInsert(leaf, k, v, upsert) ==
  LET pairs == leaf.pairs
      over == leaf.over
      at == At(pairs, k)
      pulled == Reverse(OverflowValues(over))
  IN  CASE upsert /\ at # {} -> [leaf EXCEPT !.pairs[Min(at)].val = v]
        [] at = {} /\ over # <<>> /\ pairs = <<>> -> Undefined
        [] at = {} /\ over # <<>> /\ pairs # <<>> ->
             LET all == pairs \o [i \in DOMAIN pulled |->
                          [key |-> OverflowKey(leaf), val |-> pulled[i]]]
             IN  LeafNode(InsertPair(all, k, v), <<>>)
        [] ~upsert /\ at = {Len(pairs)} /\ over # <<>> ->
             [leaf EXCEPT !.over = OverflowInsert(@, v)]
        [] OTHER -> [leaf EXCEPT !.pairs = InsertPair(@, k, v)]

\* Mistake: the place of the last pair is not filled from the overflow chain.
LeafRemoveShort(leaf, k, v) ==
  LET hits == {i \in At(leaf.pairs, k) : v \in {NoValue, leaf.pairs[i].val}}
  IN  IF hits = {} THEN leaf
      ELSE [leaf EXCEPT !.pairs = RemoveAt(@, Min(hits))]

\* v is NoValue when every value of the key will do.
LeafRemove(leaf, k, v) ==
  LET pairs == leaf.pairs
      over == leaf.over
      hits == {i \in At(pairs, k) : v \in {NoValue, pairs[i].val}}
      last == Len(pairs)
  IN  CASE hits # {} /\ Min(hits) = last /\ over # <<>> ->
             LeafNode([pairs EXCEPT ![last].val = Last(OverflowValues(over))],
                      Pulled(over))
        [] hits # {} /\ ~(Min(hits) = last /\ over # <<>>) ->
             [leaf EXCEPT !.pairs = RemoveAt(@, Min(hits))]
        [] hits = {} /\ over # <<>> /\ last \in At(pairs, k) ->
             OverflowRemove(leaf, v)
        [] OTHER -> leaf

\* tree_impl::apply on a leaf.
ApplyToLeaf(leaf, edit) ==
  CASE edit.op = "insert" -> LeafInsert(leaf, edit.key, edit.val, FALSE)
    [] edit.op = "upsert" -> LeafInsert(leaf, edit.key, edit.val, TRUE)
    [] OTHER              -> LeafRemove(leaf, edit.key, edit.val)

-----------------------------------------------------------------------------
\* LeafNode::applyAll: a flush applies the edits of a queue at once.
ApplyAll(leaf, edits) ==
  LET merged == FoldLeft(MergeEdit, [rest |-> leaf.pairs, out |-> <<>>], edits)
  IN  [leaf EXCEPT !.pairs = merged.out \o merged.rest]

-----------------------------------------------------------------------------
(* Splitting *)

\* Values that no existing block takes, in new blocks.
Blocks(vals) ==
  [j \in 1..((Len(vals) + BlockValues - 1) \div BlockValues) |->
     Block(SubSeq(vals, (j - 1) * BlockValues + 1,
                  Min({j * BlockValues, Len(vals)})), TRUE)]

\* Values that do not fit in a block move to the end of the next one.  sound is
\* false if one of the blocks is not in memory, which the code dereferences.
PushBlock(acc, block) ==
  IF acc.carry = <<>> /\ acc.over # <<>>
  THEN [acc EXCEPT !.over = Append(@, block)]
  ELSE LET vals == block.vals \o acc.carry
           n == IF Overfull(LeafHeader + Len(vals) * ValueSize)
                THEN BlockValues ELSE Len(vals)
       IN  [over  |-> Append(acc.over, Block(SubSeq(vals, 1, n), TRUE)),
            carry |-> SubSeq(vals, n + 1, Len(vals)),
            sound |-> acc.sound /\ block.loaded]

\* pushDownOverflowNodeSize, from the first block of the chain on.
PushDown(over) ==
  LET pushed == FoldLeft(PushBlock,
                         [over |-> <<>>, carry |-> <<>>, sound |-> TRUE], over)
  IN  [over  |-> IF pushed.carry = <<>> THEN pushed.over
                 ELSE pushed.over \o Blocks(pushed.carry),
       sound |-> pushed.sound]

\* maybeSplitLeaf: cut behind the pairs of the key that reaches the piece size;
\* all of these but the first go to overflow blocks.  What is right of the cut
\* keeps the old overflow chain and may be cut again.
SplitLeaf(leaf) ==
  LET pairs == leaf.pairs
      n == Len(pairs)
      here(s) == Min({i \in s..n : LeafBytes(i - s + 1) > PieceSize})
      cut[s \in 1..(n + 1)] ==
        IF ~Overfull(LeafBytes(n - s + 1))
        THEN <<LeafNode(SubSeq(pairs, s, n), leaf.over)>>
        ELSE LET same == {i \in s..n : pairs[i].key = pairs[here(s)].key}
                 next == Max(same) + 1
                 spill == [i \in 1..(Cardinality(same) - 1) |->
                             pairs[Min(same) + i].val]
                 left == LeafNode(SubSeq(pairs, s, Min(same)),
                           IF spill = <<>> THEN <<>>
                           ELSE PushDown(<<Block(spill, TRUE)>>).over)
             IN  CASE next <= n -> <<left>> \o cut[next]
                   [] next > n /\ leaf.over = <<>> -> <<left>>
                   [] OTHER -> <<Undefined>>
  IN  cut[1]

\* tree_impl::flushAndSplitRec on a leaf.
FlushLeaf(leaf) ==
  IF leaf.over # <<>> /\ leaf.over[1].loaded
  THEN LET pushed == PushDown(leaf.over)
       IN  IF pushed.sound THEN SplitLeaf([leaf EXCEPT !.over = pushed.over])
                           ELSE <<Undefined>>
  ELSE SplitLeaf(leaf)
=============================================================================
