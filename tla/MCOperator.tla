----------------------------- MODULE MCOperator -----------------------------
EXTENDS Operator, TLC

MCClash == {<<3, 1>>}
Symmetry == Permutations(Procs)
=============================================================================
