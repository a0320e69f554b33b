--------------------------- MODULE MCGenericSyncer ---------------------------
(* Small instances of GenericSyncer for TLC. *)
EXTENDS GenericSyncer

=============================================================================
