------------------------------ MODULE MCStore ------------------------------
(* Store on a small instance.  Writers and files are interchangeable.      *)
EXTENDS Store, TLC

Symmetry == Permutations(Writers) \cup Permutations(Files)
=============================================================================
