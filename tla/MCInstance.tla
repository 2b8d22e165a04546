----------------------------- MODULE MCInstance -----------------------------
(* Instance on a small instance.  Commands and attempts are interchangeable. *)
EXTENDS Instance, TLC

Symmetry == Permutations(Commands) \cup Permutations(Attempts)
=============================================================================
