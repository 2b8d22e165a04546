---------------------------- MODULE MCManagement ----------------------------
(* Management with two processes and six supplies: three releases of one     *)
(* signer and one of a development revision, two unsigned builds under the   *)
(* identity of the first.                                                    *)
EXTENDS Management, TLC

CONSTANTS p1, p2, k1, k2

MCProcs == {p1, p2}
MCOffers == {k1, k2, Dev, NoTrust}
Supply(i, sum, by, dev) == [id |-> i, sum |-> sum, by |-> by, dev |-> dev]
MCBundles == {Supply(1, 1, k1, FALSE), Supply(2, 2, k1, FALSE), Supply(3, 3, k1, FALSE),
              Supply(1, 4, Dev, FALSE), Supply(1, 5, Dev, FALSE), Supply(4, 6, k1, TRUE)}
Symmetry == Permutations(MCProcs)
=============================================================================
