----------------------------- MODULE MCService -----------------------------
(* Service on a small instance.  Commands and attempts are interchangeable. *)
EXTENDS Service, TLC

Symmetry == Permutations(Commands) \cup Permutations(Attempts)
=============================================================================
