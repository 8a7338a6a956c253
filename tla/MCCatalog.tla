----------------------------- MODULE MCCatalog -----------------------------
(* Catalog for TLC.                                                        *)
EXTENDS Catalog, TLC

Symmetry == Permutations(Threads) \cup Permutations(Layouts)

=============================================================================
