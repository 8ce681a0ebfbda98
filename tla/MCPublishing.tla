----------------------------- MODULE MCPublishing -----------------------------
(* Publishing for TLC: publishers, goroutines and keys are interchangeable   *)
(* model values.                                                             *)
EXTENDS Publishing, TLC

Symmetry ==
  Permutations(Publishers) \cup Permutations(Goroutines) \cup Permutations(Keys)
=============================================================================
