------------------------------ MODULE PairLists ------------------------------
(***************************************************************************)
(* The pairs of a leaf, as a sequence sorted by key in which several pairs *)
(* may have the same key, and how leaf_node inserts a pair into them and   *)
(* merges a sorted list of edits with them.                                *)
(***************************************************************************)
EXTENDS Integers, SequencesExt

At(pairs, k) == {i \in DOMAIN pairs : pairs[i].key = k}

\* LeafNode::insert: behind the pairs with the same key.
InsertPair(pairs, k, v) ==
  LET before == {i \in DOMAIN pairs : pairs[i].key <= k}
  IN  InsertAt(pairs, Cardinality(before) + 1, [key |-> k, val |-> v])

-----------------------------------------------------------------------------
(* LeafNode::applyAll: merge a sorted list of edits with the pairs. *)

\* The pairs that move to the updated ones before an edit is applied.
Passed(rest, edit) ==
  {i \in DOMAIN rest :
     \/ rest[i].key < edit.key
     \/ rest[i].key = edit.key /\ edit.op # "insert"}

\* The pairs that an upsert or a removal may meet; it takes the last of them.
Hits(pairs, edit) ==
  {i \in At(pairs, edit.key) : edit.op = "removeKV" => pairs[i].val = edit.val}

\* The edit meets the updated pairs.
Updated(out, edit) ==
  LET hits == Hits(out, edit)
      new == [key |-> edit.key, val |-> edit.val]
  IN  CASE edit.op = "insert" \/ (edit.op = "upsert" /\ hits = {}) -> Append(out, new)
        [] edit.op = "upsert" /\ hits # {} -> [out EXCEPT ![Max(hits)].val = edit.val]
        [] edit.op \in {"removeKey", "removeKV"} /\ hits # {} ->
             RemoveAt(out, Max(hits))
        [] OTHER -> out

\* One edit, with the pairs before it moved from rest to out.
MergeEdit(acc, edit) ==
  LET n == Cardinality(Passed(acc.rest, edit))
  IN  [rest |-> SubSeq(acc.rest, n + 1, Len(acc.rest)),
       out  |-> Updated(acc.out \o SubSeq(acc.rest, 1, n), edit)]
=============================================================================
