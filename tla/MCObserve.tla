----------------------------- MODULE MCObserve -----------------------------
(* Observe on a small instance.  Attempts are interchangeable. *)
EXTENDS Observe, TLC

Symmetry == Permutations(Attempts)
=============================================================================
