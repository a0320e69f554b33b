-------------------------- MODULE MCCompositeStore --------------------------
(* Small instances of CompositeStore for TLC. *)
EXTENDS CompositeStore

\* One state call and one ordinary call of the handlers of the composite.
MCCallNames == {"set_task_run_state", "log_metrics"}

=============================================================================
