-------------------------- MODULE MCExportWatermark --------------------------
(* TLC instance of ExportWatermark: the constants are set in the .cfg files. *)
EXTENDS ExportWatermark
=============================================================================
