-------------------------- MODULE MCCatalogWriter --------------------------
(* CatalogWriter on a few threads.                                         *)
EXTENDS CatalogWriterQueue, TLC

Symmetry == Permutations(Threads)

=============================================================================
