-------------------------------- MODULE Sums --------------------------------
(* What several things take together, as the block cache and the pages add *)
(* it up.                                                                  *)
EXTENDS Integers, SequencesExt

Total(sizes) == FoldLeft(+, 0, sizes)
=============================================================================
