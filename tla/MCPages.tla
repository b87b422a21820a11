------------------------------ MODULE MCPages ------------------------------
(* Pages for TLC: two keys and two values, one of each shorter than the       *)
(* fields of fixed size around it.                                            *)
EXTENDS Pages

KeySizes   == 1 :> 1 @@ 2 :> 5
ValueSizes == 1 :> 1 @@ 2 :> 3
=============================================================================
