--------------------------- MODULE MCPhotoExports ---------------------------
(* Instances of PhotoExports for TLC. *)
EXTENDS PhotoExports, TLC

\* Open catalogs are interchangeable.
HandleSymmetry == Permutations(Handles)
=============================================================================
