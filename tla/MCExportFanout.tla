--------------------------- MODULE MCExportFanout ---------------------------
(* ExportFanout on a small instance, as it is.                             *)
EXTENDS ExportFanout
=============================================================================
