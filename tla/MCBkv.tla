------------------------------- MODULE MCBkv -------------------------------
(* Bkv for TLC: what goes wrong with the file and S3 engines.  bkv inserts and *)
(* never removes, so that no branch is ever erased (dropBranch).               *)
EXTENDS Bkv

EngineFaults == {"putFails", "putLost", "delFails", "delLost", "getFails"}
=============================================================================
