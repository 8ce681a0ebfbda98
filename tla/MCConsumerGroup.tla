--------------------------- MODULE MCConsumerGroup ---------------------------
(* ConsumerGroup for TLC: consumers are interchangeable model values when   *)
(* all of them, or none, run recovery.                                      *)
EXTENDS ConsumerGroup, TLC

Symmetry == Permutations(Consumers)
=============================================================================
