----------------------------- MODULE MCGateway -----------------------------
(* TLC instance of Gateway: a process_start that races the DELETE of its   *)
(* session, an eviction, and the other methods, each together with the     *)
(* revocation of the server.                                               *)
EXTENDS Gateway

MCWorkloads ==
    {<<"initialize", "start", "DELETE">>}
    \cup {<<"initialize", m, "unsent">> : m \in {"initialize", "list", "commit", "cancelled"}}
=============================================================================
