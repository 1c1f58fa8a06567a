--------------------------- MODULE MCPreviewStore ---------------------------
(* PreviewStore on two places, two generations and two directories.        *)
EXTENDS PreviewStore
=============================================================================
