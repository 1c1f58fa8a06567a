--------------------------- MODULE MCExportService ---------------------------
(* The instance of ExportService for TLC. *)
EXTENDS ExportService
==============================================================================
