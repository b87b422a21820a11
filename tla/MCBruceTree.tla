----------------------------- MODULE MCBruceTree -----------------------------
(* BruceTree for TLC: how far its programs skip at once.                     *)
EXTENDS BruceTree

OneStep  == {-1, 1}
TwoSteps == {2}
=============================================================================
