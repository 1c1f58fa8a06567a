-------------------------- MODULE MCPreviewService --------------------------
(* PreviewService on one import key and one plain key.                     *)
EXTENDS PreviewService

=============================================================================
