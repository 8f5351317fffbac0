---------------------------- MODULE ExecService ----------------------------
(***************************************************************************)
(* What the Exec supervisor promises to the Gateway, without its jobs,     *)
(* locks, tables and timers: children are launched and end, a revoke of a  *)
(* session is confirmed at a moment when the session has no background     *)
(* child, and none is launched for it afterwards.  Gateway builds on this; *)
(* ExecSupervisor implements it.                                           *)
(***************************************************************************)

CONSTANTS
    Processes, \* ids of the children
    Sessions   \* principal/session pairs

VARIABLES
    owner,     \* the session of each child
    child,     \* "absent", "run" (synchronous), "background" or "gone"
    confirmed, \* sessions whose revoke has been answered with success
    exited     \* the supervisor process has gone

serviceVars == <<owner, child, confirmed, exited>>

Alive(p) == child[p] \in {"run", "background"}

Init ==
    /\ owner \in [Processes -> Sessions]
    /\ child = [p \in Processes |-> "absent"]
    /\ confirmed = {}
    /\ exited = FALSE

\* A child is started at most once.
Launch(p, kind) ==
    /\ ~exited /\ child[p] = "absent"
    /\ kind = "background" => owner[p] \notin confirmed
    /\ child' = [child EXCEPT ![p] = kind]
    /\ UNCHANGED <<owner, confirmed, exited>>

End(p) ==
    /\ ~exited /\ Alive(p)
    /\ child' = [child EXCEPT ![p] = "gone"]
    /\ UNCHANGED <<owner, confirmed, exited>>

Confirm(s) ==
    /\ ~exited /\ \A p \in Processes : owner[p] = s => child[p] # "background"
    /\ confirmed' = confirmed \cup {s}
    /\ UNCHANGED <<owner, child, exited>>

\* The children do not outlive the supervisor.
Exit ==
    /\ ~exited /\ exited' = TRUE
    /\ child' = [p \in Processes |-> IF Alive(p) THEN "gone" ELSE child[p]]
    /\ UNCHANGED <<owner, confirmed>>

Next ==
    \/ \E p \in Processes : End(p) \/ \E kind \in {"run", "background"} : Launch(p, kind)
    \/ \E s \in Sessions : Confirm(s)
    \/ Exit

Spec == Init /\ [][Next]_serviceVars
=============================================================================
