--------------------------- MODULE MCExportRelease ---------------------------
(* ExportRelease for TLC. *)
EXTENDS ExportRelease

RunSet == 1..3
=============================================================================
