---------------------------- MODULE MCLeafSplit ----------------------------
(* LeafSplit for TLC: three keys, one of them long, and blocks whose half is *)
(* the largest pair that always leaves a leaf behind.  One size of value is   *)
(* accepted by validateKVSize and fits into no block behind the header.       *)
EXTENDS LeafSplit, TLC

KeySizes == 1 :> 4 @@ 2 :> 4 @@ 3 :> 14
=============================================================================
