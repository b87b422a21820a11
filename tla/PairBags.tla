------------------------------ MODULE PairBags ------------------------------
(***************************************************************************)
(* Bags of pairs, and what an edit of a tree may make of one, as the API   *)
(* names the edits (tree.h).  With several pairs of one key it is open     *)
(* which of them an upsert or a removal meets.                             *)
(***************************************************************************)
EXTENDS Integers, FiniteSets

CONSTANTS
  Keys,    \* keys, 1, 2, ...
  Values   \* values, 1, 2, ...

Pairs == Keys \X Values

NoPairs == [p \in Pairs |-> 0]

\* How often each pair is in a sequence of items.
BagOf(items) ==
  [p \in Pairs |->
     Cardinality({i \in DOMAIN items : <<items[i].key, items[i].val>> = p})]

HasKey(bag, k) == \E v \in Values : bag[<<k, v>>] > 0

Without(bag, k, v) == [bag EXCEPT ![<<k, v>>] = @ - 1]
With(bag, k, v) == [bag EXCEPT ![<<k, v>>] = @ + 1]

\* The values that the edit may replace or remove.
Targets(bag, edit) ==
  {v \in Values : /\ bag[<<edit.key, v>>] > 0
                  /\ edit.op = "removeKV" => v = edit.val}

\* The bags that an edit may make of a bag.
Results(bag, edit) ==
  CASE edit.op = "insert" -> {With(bag, edit.key, edit.val)}
    [] edit.op = "upsert" ->
         IF HasKey(bag, edit.key)
         THEN {With(Without(bag, edit.key, v), edit.key, edit.val) :
                 v \in Targets(bag, edit)}
         ELSE {With(bag, edit.key, edit.val)}
    [] OTHER ->
         IF Targets(bag, edit) = {} THEN {bag}
         ELSE {Without(bag, edit.key, v) : v \in Targets(bag, edit)}
=============================================================================
