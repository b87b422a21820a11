------------------------------ MODULE Multimap ------------------------------
(***************************************************************************)
(* What a tree promises the program that uses it: a bag of pairs, which an *)
(* edit changes at once, as Results says, and nothing else changes.        *)
(***************************************************************************)
EXTENDS PairBags

VARIABLES
  bag,   \* how often each pair is in the tree
  call   \* the last edit, or Query if the last call edited nothing

Query == [op |-> "query", key |-> 0, val |-> 0]

Edits ==
  {edit \in [op  : {"insert", "upsert", "removeKey", "removeKV"},
             key : Keys,
             val : Values \cup {0}] : edit.val = 0 <=> edit.op = "removeKey"}

Init == bag \in [Pairs -> 0..1] /\ call = Query

EditCall == call' \in Edits /\ bag' \in Results(bag, call')

QueryCall == bag' = bag /\ call' = Query

Next == EditCall \/ QueryCall

Spec == Init /\ [][Next]_<<bag, call>>
=============================================================================
