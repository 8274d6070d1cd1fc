---------------------------- MODULE MCExportTask ----------------------------
(* One database export, run twice: the answer of the first run may be late.  *)
EXTENDS ExportTask
=============================================================================
