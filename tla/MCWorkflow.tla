----------------------------- MODULE MCWorkflow -----------------------------
(* Workflow on a small instance.  Drafts are interchangeable.              *)
EXTENDS Workflow, TLC

Symmetry == Permutations(Drafts)
=============================================================================
