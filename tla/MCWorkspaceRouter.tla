------------------------- MODULE MCWorkspaceRouter -------------------------
(* TLC instance of WorkspaceRouter. *)
EXTENDS WorkspaceRouter
=============================================================================
