------------------------- MODULE MCDatabricksTracking -------------------------
(* TLC instance of DatabricksTracking: the wrapper reports through a       *)
(* composite that serves exactly its two calls.                            *)
EXTENDS DatabricksTracking

MCCallNames == {"save_external_links", "set_task_run_state"}
=============================================================================
