------------------------- MODULE MCPreviewScheduler -------------------------
(* PreviewScheduler on a few keys and identities.                          *)
EXTENDS PreviewScheduler, TLC

Symmetry == Permutations(Keys)

=============================================================================
