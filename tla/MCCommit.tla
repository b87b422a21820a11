------------------------------ MODULE MCCommit ------------------------------
(* Commit for TLC: the symmetry of the sessions, and the failures that the  *)
(* engines can show.                                                        *)
EXTENDS Commit, TLC

Sessions == Permutations(Writers)

NoFaults    == {}
MemFaults   == {"putThrows", "getFails", "delLost", "dropBranch", "crash"}
S3Faults    == {"putFails", "putLost", "delFails", "rollbackThrows", "getFails", "crash"}
ThrowFaults == {"delThrows"}
AllFaults   == MemFaults \cup S3Faults
=============================================================================
