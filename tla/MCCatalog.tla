----------------------------- MODULE MCCatalog ------------------------------
(* A small instance of Catalog for TLC.                                    *)
EXTENDS Catalog, TLC

CONSTANTS r1, r2

MCRequests == {r1, r2}
Alike      == Permutations(MCRequests)
=============================================================================
