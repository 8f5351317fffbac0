-------------------------- MODULE MCExecSupervisor --------------------------
(* TLC instances of ExecSupervisor: every operation, two jobs, two sessions. *)
EXTENDS ExecSupervisor

=============================================================================
