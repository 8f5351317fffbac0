------------------------ MODULE ExecSupervisorProofs ------------------------
(***************************************************************************)
(* TLAPS proofs about ExecSupervisor, for any number of jobs and sessions. *)
(*                                                                         *)
(* None of the safety invariants is inductive.  IInv adds what they rest   *)
(* on: a launching process_start owns executionMu and belongs to a session *)
(* without a tombstone, a live child is either unpublished or in the       *)
(* table, and whoever collected records collected every live one.          *)
(***************************************************************************)
EXTENDS ExecSupervisor, TLAPS

Launching == {"executing", "spawned", "published"}

\* Where a job can be, given what it has done so far.
Progress ==
    \A j \in Jobs :
        /\ pc[j] \in {"idle", "authorized", "executing"} => os[j] = "none"
        /\ pc[j] \in {"idle", "authorized", "executing", "spawned"} => rec[j] = "none"
        /\ pc[j] \in {"spawned", "published"} => op[j] \in LaunchOps
        /\ pc[j] = "spawned" => os[j] # "none"
        /\ pc[j] \in {"revoking", "killing", "joining"} => op[j] = "session_revoke"
        /\ resp[j] = "ok" => pc[j] = "done"
        /\ op[j] = "exec_run" => target[j] = j

\* executionMu is held throughout a background launch, and never by a session
\* that has been revoked.
StartHoldsLock ==
    \A j \in Jobs : op[j] = "process_start" /\ pc[j] \in Launching =>
        execMu = j /\ owner[j] \notin revoked

\* A revoke past its first critical section has left a tombstone.
TombstoneStays ==
    \A r \in Jobs :
        \/ pc[r] \in {"revoking", "killing", "joining"}
        \/ op[r] = "session_revoke" /\ resp[r] = "ok"
        => owner[r] \in revoked

\* A live child is being launched or is in the table, and a closed record
\* belongs to a reaped child without a cgroup.
LiveIsKnown ==
    \A p \in Jobs :
        /\ Live(p) => pc[p] = "spawned" \/ (rec[p] = "running" /\ p \in items)
        /\ rec[p] = "running" /\ SameIdentity(p) => p \in items
        /\ rec[p] = "exited" => os[p] = "reaped" /\ p \notin cgroup
        /\ Live(p) /\ op[p] = "process_start" =>
              pc[p] \in {"spawned", "published", "done"}

\* Every live background child of the session is in the collected set, and
\* none is left alive once the killing loop is over.
RevokeCollects ==
    \A r, p \in Jobs : owner[p] = owner[r] /\ op[p] = "process_start" /\ Live(p) =>
        /\ pc[r] = "killing" => p \in snap[r]
        /\ pc[r] # "joining"
        /\ ~(op[r] = "session_revoke" /\ resp[r] = "ok")

\* The same for linuxBackend.close.
CloseCollects ==
    \A p \in Jobs :
        /\ p \in closeSnap => rec[p] # "none"
        /\ closePc # "open" /\ Live(p) => pc[p] = "spawned" \/ p \in closeSnap
        /\ closePc \in {"joining", "closed"} /\ Live(p) => p \notin closeSnap

\* An answered process_stop or exec_run has seen record.done.
SuccessSawDone ==
    \A j \in Jobs : resp[j] = "ok" /\ op[j] \in {"process_stop", "exec_run"} =>
        rec[target[j]] = "exited"

IInv ==
    /\ TypeOK
    /\ Progress
    /\ StartHoldsLock
    /\ TombstoneStays
    /\ LiveIsKnown
    /\ RevokeCollects
    /\ CloseCollects
    /\ SuccessSawDone

----------------------------------------------------------------------------
\* The variable tuples, the sets of operations and the two predicates on the
\* state of a child are expanded everywhere below.
USE DEF vars, jobVars, lockVars, procVars, closeVars, LaunchOps, LiveOps, RecordOps,
        Operations, PCs, Launching, Live, SameIdentity

\* Every initial state satisfies the inductive invariant.
LEMMA InitEstablishes == Init => IInv
  BY NoJobAssumption DEF Init, IInv, TypeOK, Progress, StartHoldsLock, TombstoneStays,
     LiveIsKnown, RevokeCollects, CloseCollects, SuccessSawDone

\* Every step of the supervisor preserves the types of its variables.
LEMMA TypePreserved == TypeOK /\ [Next]_vars => TypeOK'
  <1> SUFFICES ASSUME TypeOK, [Next]_vars PROVE TypeOK'
    OBVIOUS
  <1> USE NoJobAssumption, AdmittedAssumption DEF TypeOK
  <1>1. ASSUME NEW j \in Jobs, Receive(j) PROVE TypeOK'
    <2>1. UNCHANGED <<owner, snap, lockVars, procVars, closeVars>>
      BY <1>1 DEF Receive
    <2>2. CASE Reply(j, "error") /\ UNCHANGED <<op, target>>
      BY <2>1, <2>2 DEF Reply
    <2>3. CASE \E o \in Admitted, t \in Jobs :
                  /\ op' = [op EXCEPT ![j] = o]
                  /\ target' = [target EXCEPT ![j] = t]
                  /\ Goto(j, "authorized")
                  /\ UNCHANGED resp
      BY <2>1, <2>3 DEF Goto
    <2> QED BY <1>1, <2>2, <2>3 DEF Receive
  <1>2. ASSUME NEW j \in Jobs, RecordTombstone(j) PROVE TypeOK'
    BY <1>2 DEF RecordTombstone, Goto
  <1>3. ASSUME NEW j \in Jobs, EnterProcessStart(j) PROVE TypeOK'
    <2>1. CASE owner[j] \in revoked
      BY <1>3, <2>1 DEF EnterProcessStart, Goto, Reply
    <2>2. CASE owner[j] \notin revoked
      BY <1>3, <2>2 DEF EnterProcessStart, Goto, Reply
    <2> QED BY <2>1, <2>2
  <1>4. ASSUME NEW j \in Jobs, CheckTombstone(j) PROVE TypeOK'
    BY <1>4 DEF CheckTombstone, Goto, Reply
  <1>5. ASSUME NEW j \in Jobs, Spawn(j) PROVE TypeOK'
    <2>1. CASE LaunchFails(j) /\ UNCHANGED <<os, cgroup>>
      BY <1>5, <2>1 DEF Spawn, LaunchFails, Reply
    <2>2. CASE ~(LaunchFails(j) /\ UNCHANGED <<os, cgroup>>)
      BY <1>5, <2>2 DEF Spawn, Goto
    <2> QED BY <2>1, <2>2
  <1>6. ASSUME NEW j \in Jobs, AbortLaunch(j) PROVE TypeOK'
    BY <1>6 DEF AbortLaunch, LaunchFails, Reply
  <1>7. ASSUME NEW j \in Jobs, Publish(j) PROVE TypeOK'
    BY <1>7 DEF Publish, Goto, BackendClosed
  <1>8. ASSUME NEW j \in Jobs, FinishLaunch(j) PROVE TypeOK'
    BY <1>8 DEF FinishLaunch, Goto, Reply
  <1>9. ASSUME NEW j \in Jobs, FinishExecRun(j) PROVE TypeOK'
    BY <1>9 DEF FinishExecRun, Reply
  <1>10. ASSUME NEW j \in Jobs, ReadRecord(j) PROVE TypeOK'
    <2>1. Reply(j, "ok") \/ Reply(j, "error")
      BY <1>10 DEF ReadRecord
    <2>2. UNCHANGED <<op, owner, target, snap, lockVars, procVars, closeVars>>
      BY <1>10 DEF ReadRecord
    <2> QED BY <2>1, <2>2 DEF Reply
  <1>11. ASSUME NEW j \in Jobs, LookupLive(j) PROVE TypeOK'
    BY <1>11 DEF LookupLive, Goto, Reply
  <1>12. ASSUME NEW j \in Jobs, StopProcess(j) PROVE TypeOK'
    BY <1>12 DEF StopProcess, Goto, Killed
  <1>13. ASSUME NEW j \in Jobs, FinishStop(j) PROVE TypeOK'
    BY <1>13 DEF FinishStop, Reply
  <1>14. ASSUME NEW j \in Jobs, SignalProcess(j) PROVE TypeOK'
    <2>1. Reply(j, "ok") \/ Reply(j, "error")
      BY <1>14 DEF SignalProcess
    <2>2. os' \in [Jobs -> {"none", "running", "stopped", "dead", "reaped"}]
      BY <1>14 DEF SignalProcess
    <2>3. UNCHANGED <<op, owner, target, snap, lockVars, items, rec, timedOut, timer,
                      cgroup, closeVars>>
      BY <1>14 DEF SignalProcess
    <2> QED BY <2>1, <2>2, <2>3, SMTT(20) DEF Reply
  <1>15. ASSUME NEW j \in Jobs, ScanMemory(j) PROVE TypeOK'
    BY <1>15 DEF ScanMemory, Reply
  <1>16. ASSUME NEW j \in Jobs, CollectOwned(j) PROVE TypeOK'
    BY <1>16 DEF CollectOwned, Goto
  <1>17. ASSUME NEW j \in Jobs, KillOwned(j) PROVE TypeOK'
    BY <1>17 DEF KillOwned, Goto, Killed
  <1>18. ASSUME NEW j \in Jobs, FinishRevoke(j) PROVE TypeOK'
    BY <1>18 DEF FinishRevoke, Reply
  <1>19. ASSUME NEW p \in Jobs, ProcessExits(p) PROVE TypeOK'
    BY <1>19 DEF ProcessExits
  <1>20. ASSUME NEW p \in Jobs, Reap(p) PROVE TypeOK'
    BY <1>20 DEF Reap
  <1>21. ASSUME NEW p \in Jobs, MarkExited(p) PROVE TypeOK'
    BY <1>21 DEF MarkExited
  <1>22. ASSUME NEW p \in Jobs, TimerFires(p) PROVE TypeOK'
    BY <1>22 DEF TimerFires
  <1>23. ASSUME NEW p \in Jobs, TimerKills(p) PROVE TypeOK'
    BY <1>23 DEF TimerKills, Killed
  <1>24. ASSUME BeginClose PROVE TypeOK'
    BY <1>24 DEF BeginClose
  <1>25. ASSUME CloseKills PROVE TypeOK'
    BY <1>25 DEF CloseKills, Killed
  <1>26. ASSUME CloseReturns PROVE TypeOK'
    BY <1>26 DEF CloseReturns
  <1>27. ASSUME MainExits PROVE TypeOK'
    BY <1>27 DEF MainExits
  <1>28. CASE UNCHANGED vars
    BY <1>28
  <1> QED
    BY <1>1, <1>2, <1>3, <1>4, <1>5, <1>6, <1>7, <1>8, <1>9, <1>10, <1>11,
        <1>12, <1>13, <1>14, <1>15, <1>16, <1>17, <1>18, <1>19, <1>20, <1>21,
        <1>22, <1>23, <1>24, <1>25, <1>26, <1>27, <1>28 DEF Next, JobStep,
        WaitStep, TimerStep, CloseStep

\* Every step of the supervisor preserves the inductive invariant.
LEMMA StepPreserves == IInv /\ [Next]_vars => IInv'
  <1> SUFFICES ASSUME IInv, [Next]_vars PROVE IInv'
    OBVIOUS
  <1> USE DEF TypeOK
  <1>0. TypeOK /\ TypeOK'
    BY TypePreserved DEF IInv
  <1>1. ASSUME NEW j \in Jobs, Receive(j) PROVE IInv'
    <2>1. Progress'
      BY <1>0, <1>1 DEF IInv, Progress, Receive, Goto, Reply
    <2>2. StartHoldsLock'
      BY <1>0, <1>1, NoJobAssumption DEF IInv, Progress, StartHoldsLock,
          Receive, Goto, Reply
    <2>3. TombstoneStays'
      BY <1>0, <1>1 DEF IInv, Progress, TombstoneStays, Receive, Goto, Reply
    <2>4. LiveIsKnown'
      BY <1>0, <1>1 DEF IInv, Progress, LiveIsKnown, Receive, Goto, Reply
    <2>5. RevokeCollects'
      BY <1>0, <1>1 DEF IInv, Progress, StartHoldsLock, TombstoneStays,
          LiveIsKnown, RevokeCollects, Receive, Goto, Reply
    <2>6. CloseCollects'
      BY <1>0, <1>1 DEF IInv, Progress, LiveIsKnown, CloseCollects, Receive,
          Goto, Reply
    <2>7. SuccessSawDone'
      BY <1>0, <1>1 DEF IInv, Progress, SuccessSawDone, Receive, Goto, Reply
    <2> QED BY <1>0, <2>1, <2>2, <2>3, <2>4, <2>5, <2>6, <2>7 DEF IInv
  <1>2. ASSUME NEW j \in Jobs, RecordTombstone(j) PROVE IInv'
    <2>1. Progress'
      BY <1>0, <1>2 DEF IInv, Progress, RecordTombstone, Goto
    <2>2. StartHoldsLock'
      BY <1>0, <1>2, NoJobAssumption DEF IInv, Progress, StartHoldsLock,
          RecordTombstone, Goto
    <2>3. TombstoneStays'
      BY <1>0, <1>2 DEF IInv, Progress, TombstoneStays, RecordTombstone, Goto
    <2>4. LiveIsKnown'
      BY <1>0, <1>2 DEF IInv, Progress, LiveIsKnown, RecordTombstone, Goto
    <2>5. RevokeCollects'
      BY <1>0, <1>2, NoJobAssumption DEF IInv, Progress, StartHoldsLock,
          TombstoneStays, LiveIsKnown, RevokeCollects, RecordTombstone, Goto
    <2>6. CloseCollects'
      BY <1>0, <1>2 DEF IInv, Progress, LiveIsKnown, CloseCollects,
          RecordTombstone, Goto
    <2>7. SuccessSawDone'
      BY <1>2 DEF IInv, SuccessSawDone, RecordTombstone
    <2> QED BY <1>0, <2>1, <2>2, <2>3, <2>4, <2>5, <2>6, <2>7 DEF IInv
  <1>3. ASSUME NEW j \in Jobs, EnterProcessStart(j) PROVE IInv'
    <2>1. Progress'
      BY <1>0, <1>3 DEF IInv, Progress, EnterProcessStart, Goto, Reply
    <2>2. StartHoldsLock'
      BY <1>0, <1>3, NoJobAssumption DEF IInv, Progress, StartHoldsLock,
          EnterProcessStart, Goto, Reply
    <2>3. TombstoneStays'
      BY <1>0, <1>3 DEF IInv, Progress, TombstoneStays, EnterProcessStart,
          Goto, Reply
    <2>4. LiveIsKnown'
      BY <1>0, <1>3 DEF IInv, Progress, LiveIsKnown, EnterProcessStart, Goto,
          Reply
    <2>5. RevokeCollects'
      BY <1>0, <1>3, NoJobAssumption DEF IInv, Progress, StartHoldsLock,
          TombstoneStays, LiveIsKnown, RevokeCollects, EnterProcessStart, Goto,
          Reply
    <2>6. CloseCollects'
      BY <1>0, <1>3 DEF IInv, Progress, LiveIsKnown, CloseCollects,
          EnterProcessStart, Goto, Reply
    <2>7. SuccessSawDone'
      BY <1>0, <1>3 DEF IInv, Progress, SuccessSawDone, EnterProcessStart,
          Goto, Reply
    <2> QED BY <1>0, <2>1, <2>2, <2>3, <2>4, <2>5, <2>6, <2>7 DEF IInv
  <1>4. ASSUME NEW j \in Jobs, CheckTombstone(j) PROVE IInv'
    <2>1. Progress'
      BY <1>0, <1>4 DEF IInv, Progress, CheckTombstone, Goto, Reply
    <2>2. StartHoldsLock'
      BY <1>0, <1>4, NoJobAssumption DEF IInv, Progress, StartHoldsLock,
          CheckTombstone, Goto, Reply
    <2>3. TombstoneStays'
      BY <1>0, <1>4 DEF IInv, Progress, TombstoneStays, CheckTombstone, Goto,
          Reply
    <2>4. LiveIsKnown'
      BY <1>0, <1>4 DEF IInv, Progress, LiveIsKnown, CheckTombstone, Goto,
          Reply
    <2>5. RevokeCollects'
      BY <1>0, <1>4 DEF IInv, Progress, StartHoldsLock, TombstoneStays,
          LiveIsKnown, RevokeCollects, CheckTombstone, Goto, Reply
    <2>6. CloseCollects'
      BY <1>0, <1>4 DEF IInv, Progress, LiveIsKnown, CloseCollects,
          CheckTombstone, Goto, Reply
    <2>7. SuccessSawDone'
      BY <1>0, <1>4 DEF IInv, Progress, SuccessSawDone, CheckTombstone, Goto,
          Reply
    <2> QED BY <1>0, <2>1, <2>2, <2>3, <2>4, <2>5, <2>6, <2>7 DEF IInv
  <1>5. ASSUME NEW j \in Jobs, Spawn(j) PROVE IInv'
    <2>1. Progress'
      BY <1>0, <1>5 DEF IInv, Progress, Spawn, Goto, LaunchFails, Reply
    <2>2. StartHoldsLock'
      BY <1>0, <1>5, NoJobAssumption DEF IInv, Progress, StartHoldsLock, Spawn,
          Goto, LaunchFails, Reply
    <2>3. TombstoneStays'
      BY <1>0, <1>5 DEF IInv, Progress, TombstoneStays, Spawn, Goto,
          LaunchFails, Reply
    <2>4. LiveIsKnown'
      BY <1>0, <1>5 DEF IInv, Progress, LiveIsKnown, Spawn, Goto, LaunchFails,
          Reply
    <2>5. RevokeCollects'
      BY <1>0, <1>5, NoJobAssumption DEF IInv, Progress, StartHoldsLock,
          TombstoneStays, LiveIsKnown, RevokeCollects, Spawn, Goto, LaunchFails,
          Reply
    <2>6. CloseCollects'
      BY <1>0, <1>5 DEF IInv, Progress, LiveIsKnown, CloseCollects, Spawn,
          Goto, LaunchFails, Reply
    <2>7. SuccessSawDone'
      BY <1>0, <1>5 DEF IInv, Progress, SuccessSawDone, Spawn, Goto,
          LaunchFails, Reply
    <2> QED BY <1>0, <2>1, <2>2, <2>3, <2>4, <2>5, <2>6, <2>7 DEF IInv
  <1>6. ASSUME NEW j \in Jobs, AbortLaunch(j) PROVE IInv'
    <2>1. Progress'
      BY <1>0, <1>6 DEF IInv, Progress, AbortLaunch, LaunchFails, Reply
    <2>2. StartHoldsLock'
      BY <1>0, <1>6, NoJobAssumption DEF IInv, Progress, StartHoldsLock,
          AbortLaunch, LaunchFails, Reply
    <2>3. TombstoneStays'
      BY <1>0, <1>6 DEF IInv, Progress, TombstoneStays, AbortLaunch,
          LaunchFails, Reply
    <2>4. LiveIsKnown'
      BY <1>0, <1>6 DEF IInv, Progress, LiveIsKnown, AbortLaunch, LaunchFails,
          Reply
    <2>5. RevokeCollects'
      BY <1>0, <1>6, NoJobAssumption DEF IInv, Progress, StartHoldsLock,
          TombstoneStays, LiveIsKnown, RevokeCollects, AbortLaunch, LaunchFails,
          Reply
    <2>6. CloseCollects'
      BY <1>0, <1>6 DEF IInv, Progress, LiveIsKnown, CloseCollects,
          AbortLaunch, LaunchFails, Reply
    <2>7. SuccessSawDone'
      BY <1>0, <1>6 DEF IInv, Progress, SuccessSawDone, AbortLaunch,
          LaunchFails, Reply
    <2> QED BY <1>0, <2>1, <2>2, <2>3, <2>4, <2>5, <2>6, <2>7 DEF IInv
  <1>7. ASSUME NEW j \in Jobs, Publish(j) PROVE IInv'
    <2>1. Progress'
      BY <1>0, <1>7 DEF IInv, Progress, Publish, Goto, BackendClosed
    <2>2. StartHoldsLock'
      BY <1>0, <1>7, NoJobAssumption DEF IInv, Progress, StartHoldsLock,
          Publish, Goto, BackendClosed
    <2>3. TombstoneStays'
      BY <1>0, <1>7 DEF IInv, Progress, TombstoneStays, Publish, Goto,
          BackendClosed
    <2>4. LiveIsKnown'
      BY <1>0, <1>7 DEF IInv, Progress, LiveIsKnown, Publish, Goto,
          BackendClosed
    <2>5. RevokeCollects'
      BY <1>0, <1>7 DEF IInv, Progress, StartHoldsLock, TombstoneStays,
          LiveIsKnown, RevokeCollects, Publish, Goto, BackendClosed
    <2>6. CloseCollects'
      BY <1>0, <1>7 DEF IInv, Progress, LiveIsKnown, CloseCollects, Publish,
          Goto, BackendClosed
    <2>7. SuccessSawDone'
      BY <1>0, <1>7 DEF IInv, Progress, SuccessSawDone, Publish, Goto,
          BackendClosed
    <2> QED BY <1>0, <2>1, <2>2, <2>3, <2>4, <2>5, <2>6, <2>7 DEF IInv
  <1>8. ASSUME NEW j \in Jobs, FinishLaunch(j) PROVE IInv'
    <2>1. Progress'
      BY <1>0, <1>8 DEF IInv, Progress, FinishLaunch, Goto, Reply
    <2>2. StartHoldsLock'
      BY <1>0, <1>8, NoJobAssumption DEF IInv, Progress, StartHoldsLock,
          FinishLaunch, Goto, Reply
    <2>3. TombstoneStays'
      BY <1>0, <1>8 DEF IInv, Progress, TombstoneStays, FinishLaunch, Goto,
          Reply
    <2>4. LiveIsKnown'
      BY <1>0, <1>8 DEF IInv, Progress, LiveIsKnown, FinishLaunch, Goto, Reply
    <2>5. RevokeCollects'
      BY <1>0, <1>8 DEF IInv, Progress, StartHoldsLock, TombstoneStays,
          LiveIsKnown, RevokeCollects, FinishLaunch, Goto, Reply
    <2>6. CloseCollects'
      BY <1>0, <1>8 DEF IInv, Progress, LiveIsKnown, CloseCollects,
          FinishLaunch, Goto, Reply
    <2>7. SuccessSawDone'
      BY <1>0, <1>8 DEF IInv, Progress, SuccessSawDone, FinishLaunch, Goto,
          Reply
    <2> QED BY <1>0, <2>1, <2>2, <2>3, <2>4, <2>5, <2>6, <2>7 DEF IInv
  <1>9. ASSUME NEW j \in Jobs, FinishExecRun(j) PROVE IInv'
    <2>1. Progress'
      BY <1>0, <1>9 DEF IInv, Progress, FinishExecRun, Reply
    <2>2. StartHoldsLock'
      BY <1>0, <1>9, NoJobAssumption DEF IInv, Progress, StartHoldsLock,
          FinishExecRun, Reply
    <2>3. TombstoneStays'
      BY <1>0, <1>9 DEF IInv, Progress, TombstoneStays, FinishExecRun, Reply
    <2>4. LiveIsKnown'
      BY <1>0, <1>9 DEF IInv, Progress, LiveIsKnown, FinishExecRun, Reply
    <2>5. RevokeCollects'
      BY <1>0, <1>9 DEF IInv, Progress, StartHoldsLock, TombstoneStays,
          LiveIsKnown, RevokeCollects, FinishExecRun, Reply
    <2>6. CloseCollects'
      BY <1>0, <1>9 DEF IInv, Progress, LiveIsKnown, CloseCollects,
          FinishExecRun, Reply
    <2>7. SuccessSawDone'
      BY <1>0, <1>9 DEF IInv, Progress, SuccessSawDone, FinishExecRun, Reply
    <2> QED BY <1>0, <2>1, <2>2, <2>3, <2>4, <2>5, <2>6, <2>7 DEF IInv
  <1>10. ASSUME NEW j \in Jobs, ReadRecord(j) PROVE IInv'
    <2>1. Progress'
      BY <1>0, <1>10 DEF IInv, Progress, ReadRecord, Reply
    <2>2. StartHoldsLock'
      BY <1>0, <1>10, NoJobAssumption DEF IInv, Progress, StartHoldsLock,
          ReadRecord, Reply
    <2>3. TombstoneStays'
      BY <1>0, <1>10 DEF IInv, Progress, TombstoneStays, ReadRecord, Reply
    <2>4. LiveIsKnown'
      BY <1>0, <1>10 DEF IInv, Progress, LiveIsKnown, ReadRecord, Reply
    <2>5. RevokeCollects'
      BY <1>0, <1>10 DEF IInv, Progress, StartHoldsLock, TombstoneStays,
          LiveIsKnown, RevokeCollects, ReadRecord, Reply
    <2>6. CloseCollects'
      BY <1>0, <1>10 DEF IInv, Progress, LiveIsKnown, CloseCollects,
          ReadRecord, Reply
    <2>7. SuccessSawDone'
      BY <1>0, <1>10 DEF IInv, Progress, SuccessSawDone, ReadRecord, Reply
    <2> QED BY <1>0, <2>1, <2>2, <2>3, <2>4, <2>5, <2>6, <2>7 DEF IInv
  <1>11. ASSUME NEW j \in Jobs, LookupLive(j) PROVE IInv'
    <2>1. Progress'
      BY <1>0, <1>11 DEF IInv, Progress, LookupLive, Goto, Reply
    <2>2. StartHoldsLock'
      BY <1>0, <1>11, NoJobAssumption DEF IInv, Progress, StartHoldsLock,
          LookupLive, Goto, Reply
    <2>3. TombstoneStays'
      BY <1>0, <1>11 DEF IInv, Progress, TombstoneStays, LookupLive, Goto,
          Reply
    <2>4. LiveIsKnown'
      BY <1>0, <1>11 DEF IInv, Progress, LiveIsKnown, LookupLive, Goto, Reply
    <2>5. RevokeCollects'
      BY <1>0, <1>11 DEF IInv, Progress, StartHoldsLock, TombstoneStays,
          LiveIsKnown, RevokeCollects, LookupLive, Goto, Reply
    <2>6. CloseCollects'
      BY <1>0, <1>11 DEF IInv, Progress, LiveIsKnown, CloseCollects,
          LookupLive, Goto, Reply
    <2>7. SuccessSawDone'
      BY <1>0, <1>11 DEF IInv, Progress, SuccessSawDone, LookupLive, Goto,
          Reply
    <2> QED BY <1>0, <2>1, <2>2, <2>3, <2>4, <2>5, <2>6, <2>7 DEF IInv
  <1>12. ASSUME NEW j \in Jobs, StopProcess(j) PROVE IInv'
    <2>1. Progress'
      BY <1>0, <1>12 DEF IInv, Progress, StopProcess, Goto, Killed
    <2>2. StartHoldsLock'
      BY <1>0, <1>12, NoJobAssumption DEF IInv, Progress, StartHoldsLock,
          StopProcess, Goto, Killed
    <2>3. TombstoneStays'
      BY <1>0, <1>12 DEF IInv, Progress, TombstoneStays, StopProcess, Goto,
          Killed
    <2>4. LiveIsKnown'
      BY <1>0, <1>12 DEF IInv, Progress, LiveIsKnown, StopProcess, Goto, Killed
    <2>5. RevokeCollects'
      BY <1>0, <1>12 DEF IInv, Progress, StartHoldsLock, TombstoneStays,
          LiveIsKnown, RevokeCollects, StopProcess, Goto, Killed
    <2>6. CloseCollects'
      BY <1>0, <1>12 DEF IInv, Progress, LiveIsKnown, CloseCollects,
          StopProcess, Goto, Killed
    <2>7. SuccessSawDone'
      BY <1>12 DEF IInv, SuccessSawDone, StopProcess
    <2> QED BY <1>0, <2>1, <2>2, <2>3, <2>4, <2>5, <2>6, <2>7 DEF IInv
  <1>13. ASSUME NEW j \in Jobs, FinishStop(j) PROVE IInv'
    <2>1. Progress'
      BY <1>0, <1>13 DEF IInv, Progress, FinishStop, Reply
    <2>2. StartHoldsLock'
      BY <1>0, <1>13, NoJobAssumption DEF IInv, Progress, StartHoldsLock,
          FinishStop, Reply
    <2>3. TombstoneStays'
      BY <1>0, <1>13 DEF IInv, Progress, TombstoneStays, FinishStop, Reply
    <2>4. LiveIsKnown'
      BY <1>0, <1>13 DEF IInv, Progress, LiveIsKnown, FinishStop, Reply
    <2>5. RevokeCollects'
      BY <1>0, <1>13 DEF IInv, Progress, StartHoldsLock, TombstoneStays,
          LiveIsKnown, RevokeCollects, FinishStop, Reply
    <2>6. CloseCollects'
      BY <1>0, <1>13 DEF IInv, Progress, LiveIsKnown, CloseCollects,
          FinishStop, Reply
    <2>7. SuccessSawDone'
      BY <1>0, <1>13 DEF IInv, Progress, SuccessSawDone, FinishStop, Reply
    <2> QED BY <1>0, <2>1, <2>2, <2>3, <2>4, <2>5, <2>6, <2>7 DEF IInv
  <1>14. ASSUME NEW j \in Jobs, SignalProcess(j) PROVE IInv'
    <2>1. Progress'
      BY <1>0, <1>14 DEF IInv, Progress, SignalProcess, Reply
    <2>2. StartHoldsLock'
      BY <1>0, <1>14, NoJobAssumption DEF IInv, Progress, StartHoldsLock,
          SignalProcess, Reply
    <2>3. TombstoneStays'
      BY <1>0, <1>14 DEF IInv, Progress, TombstoneStays, SignalProcess, Reply
    <2>4. LiveIsKnown'
      BY <1>0, <1>14 DEF IInv, Progress, LiveIsKnown, SignalProcess, Reply
    <2>5. RevokeCollects'
      BY <1>0, <1>14 DEF IInv, Progress, StartHoldsLock, TombstoneStays,
          LiveIsKnown, RevokeCollects, SignalProcess, Reply
    <2>6. CloseCollects'
      BY <1>0, <1>14 DEF IInv, Progress, LiveIsKnown, CloseCollects,
          SignalProcess, Reply
    <2>7. SuccessSawDone'
      BY <1>0, <1>14 DEF IInv, Progress, SuccessSawDone, SignalProcess, Reply
    <2> QED BY <1>0, <2>1, <2>2, <2>3, <2>4, <2>5, <2>6, <2>7 DEF IInv
  <1>15. ASSUME NEW j \in Jobs, ScanMemory(j) PROVE IInv'
    <2>1. Progress'
      BY <1>0, <1>15 DEF IInv, Progress, ScanMemory, Reply
    <2>2. StartHoldsLock'
      BY <1>0, <1>15, NoJobAssumption DEF IInv, Progress, StartHoldsLock,
          ScanMemory, Reply
    <2>3. TombstoneStays'
      BY <1>0, <1>15 DEF IInv, Progress, TombstoneStays, ScanMemory, Reply
    <2>4. LiveIsKnown'
      BY <1>0, <1>15 DEF IInv, Progress, LiveIsKnown, ScanMemory, Reply
    <2>5. RevokeCollects'
      BY <1>0, <1>15 DEF IInv, Progress, StartHoldsLock, TombstoneStays,
          LiveIsKnown, RevokeCollects, ScanMemory, Reply
    <2>6. CloseCollects'
      BY <1>0, <1>15 DEF IInv, Progress, LiveIsKnown, CloseCollects,
          ScanMemory, Reply
    <2>7. SuccessSawDone'
      BY <1>0, <1>15 DEF IInv, Progress, SuccessSawDone, ScanMemory, Reply
    <2> QED BY <1>0, <2>1, <2>2, <2>3, <2>4, <2>5, <2>6, <2>7 DEF IInv
  <1>16. ASSUME NEW j \in Jobs, CollectOwned(j) PROVE IInv'
    <2>1. Progress'
      BY <1>0, <1>16 DEF IInv, Progress, CollectOwned, Goto
    <2>2. StartHoldsLock'
      BY <1>0, <1>16, NoJobAssumption DEF IInv, Progress, StartHoldsLock,
          CollectOwned, Goto
    <2>3. TombstoneStays'
      BY <1>0, <1>16 DEF IInv, Progress, TombstoneStays, CollectOwned, Goto
    <2>4. LiveIsKnown'
      BY <1>0, <1>16 DEF IInv, Progress, LiveIsKnown, CollectOwned, Goto
    <2>5. RevokeCollects'
      BY <1>0, <1>16, NoJobAssumption DEF IInv, Progress, StartHoldsLock,
          TombstoneStays, LiveIsKnown, RevokeCollects, CollectOwned, Goto
    <2>6. CloseCollects'
      BY <1>0, <1>16 DEF IInv, Progress, LiveIsKnown, CloseCollects,
          CollectOwned, Goto
    <2>7. SuccessSawDone'
      BY <1>16 DEF IInv, SuccessSawDone, CollectOwned
    <2> QED BY <1>0, <2>1, <2>2, <2>3, <2>4, <2>5, <2>6, <2>7 DEF IInv
  <1>17. ASSUME NEW j \in Jobs, KillOwned(j) PROVE IInv'
    <2>1. Progress'
      BY <1>0, <1>17 DEF IInv, Progress, KillOwned, Goto, Killed
    <2>2. StartHoldsLock'
      BY <1>0, <1>17, NoJobAssumption DEF IInv, Progress, StartHoldsLock,
          KillOwned, Goto, Killed
    <2>3. TombstoneStays'
      BY <1>0, <1>17 DEF IInv, Progress, TombstoneStays, KillOwned, Goto,
          Killed
    <2>4. LiveIsKnown'
      BY <1>0, <1>17 DEF IInv, Progress, LiveIsKnown, KillOwned, Goto, Killed
    <2>5. RevokeCollects'
      BY <1>0, <1>17 DEF IInv, Progress, StartHoldsLock, TombstoneStays,
          LiveIsKnown, RevokeCollects, KillOwned, Goto, Killed
    <2>6. CloseCollects'
      BY <1>0, <1>17 DEF IInv, Progress, LiveIsKnown, CloseCollects, KillOwned,
          Goto, Killed
    <2>7. SuccessSawDone'
      BY <1>17 DEF IInv, SuccessSawDone, KillOwned
    <2> QED BY <1>0, <2>1, <2>2, <2>3, <2>4, <2>5, <2>6, <2>7 DEF IInv
  <1>18. ASSUME NEW j \in Jobs, FinishRevoke(j) PROVE IInv'
    <2>1. Progress'
      BY <1>0, <1>18 DEF IInv, Progress, FinishRevoke, Reply
    <2>2. StartHoldsLock'
      BY <1>0, <1>18, NoJobAssumption DEF IInv, Progress, StartHoldsLock,
          FinishRevoke, Reply
    <2>3. TombstoneStays'
      BY <1>0, <1>18 DEF IInv, Progress, TombstoneStays, FinishRevoke, Reply
    <2>4. LiveIsKnown'
      BY <1>0, <1>18 DEF IInv, Progress, LiveIsKnown, FinishRevoke, Reply
    <2>5. RevokeCollects'
      BY <1>0, <1>18 DEF IInv, Progress, StartHoldsLock, TombstoneStays,
          LiveIsKnown, RevokeCollects, FinishRevoke, Reply
    <2>6. CloseCollects'
      BY <1>0, <1>18 DEF IInv, Progress, LiveIsKnown, CloseCollects,
          FinishRevoke, Reply
    <2>7. SuccessSawDone'
      BY <1>0, <1>18 DEF IInv, Progress, SuccessSawDone, FinishRevoke, Reply
    <2> QED BY <1>0, <2>1, <2>2, <2>3, <2>4, <2>5, <2>6, <2>7 DEF IInv
  <1>19. ASSUME NEW p \in Jobs, ProcessExits(p) PROVE IInv'
    <2>1. Progress'
      BY <1>0, <1>19 DEF IInv, Progress, ProcessExits
    <2>2. LiveIsKnown'
      BY <1>0, <1>19 DEF IInv, Progress, LiveIsKnown, ProcessExits
    <2>3. RevokeCollects'
      BY <1>0, <1>19 DEF IInv, Progress, StartHoldsLock, TombstoneStays,
          LiveIsKnown, RevokeCollects, ProcessExits
    <2>4. CloseCollects'
      BY <1>0, <1>19 DEF IInv, Progress, LiveIsKnown, CloseCollects,
          ProcessExits
    <2>5. StartHoldsLock' /\ TombstoneStays' /\ SuccessSawDone'
      BY <1>19 DEF IInv, StartHoldsLock, TombstoneStays, SuccessSawDone,
          ProcessExits
    <2> QED BY <1>0, <2>1, <2>2, <2>3, <2>4, <2>5 DEF IInv
  <1>20. ASSUME NEW p \in Jobs, Reap(p) PROVE IInv'
    <2>1. Progress'
      BY <1>0, <1>20 DEF IInv, Progress, Reap
    <2>2. LiveIsKnown'
      BY <1>0, <1>20 DEF IInv, Progress, LiveIsKnown, Reap
    <2>3. RevokeCollects'
      BY <1>0, <1>20 DEF IInv, Progress, StartHoldsLock, TombstoneStays,
          LiveIsKnown, RevokeCollects, Reap
    <2>4. CloseCollects'
      BY <1>0, <1>20 DEF IInv, Progress, LiveIsKnown, CloseCollects, Reap
    <2>5. StartHoldsLock' /\ TombstoneStays' /\ SuccessSawDone'
      BY <1>20 DEF IInv, StartHoldsLock, TombstoneStays, SuccessSawDone, Reap
    <2> QED BY <1>0, <2>1, <2>2, <2>3, <2>4, <2>5 DEF IInv
  <1>21. ASSUME NEW p \in Jobs, MarkExited(p) PROVE IInv'
    <2>1. Progress'
      BY <1>0, <1>21 DEF IInv, Progress, MarkExited
    <2>2. LiveIsKnown'
      BY <1>0, <1>21 DEF IInv, Progress, LiveIsKnown, MarkExited
    <2>3. CloseCollects'
      BY <1>0, <1>21 DEF IInv, Progress, LiveIsKnown, CloseCollects, MarkExited
    <2>4. SuccessSawDone'
      BY <1>0, <1>21 DEF IInv, Progress, SuccessSawDone, MarkExited
    <2>5. StartHoldsLock' /\ TombstoneStays' /\ RevokeCollects'
      BY <1>21 DEF IInv, StartHoldsLock, TombstoneStays, RevokeCollects,
          MarkExited
    <2> QED BY <1>0, <2>1, <2>2, <2>3, <2>4, <2>5 DEF IInv
  <1>22. ASSUME NEW p \in Jobs, TimerFires(p) PROVE IInv'
    <2>1. Progress' /\ StartHoldsLock' /\ TombstoneStays' /\ LiveIsKnown' /\ RevokeCollects' /\ CloseCollects' /\ SuccessSawDone'
      BY <1>22 DEF IInv, Progress, StartHoldsLock, TombstoneStays, LiveIsKnown,
          RevokeCollects, CloseCollects, SuccessSawDone, TimerFires
    <2> QED BY <1>0, <2>1 DEF IInv
  <1>23. ASSUME NEW p \in Jobs, TimerKills(p) PROVE IInv'
    <2>1. Progress'
      BY <1>0, <1>23 DEF IInv, Progress, TimerKills, Killed
    <2>2. LiveIsKnown'
      BY <1>0, <1>23 DEF IInv, Progress, LiveIsKnown, TimerKills, Killed
    <2>3. RevokeCollects'
      BY <1>0, <1>23 DEF IInv, Progress, StartHoldsLock, TombstoneStays,
          LiveIsKnown, RevokeCollects, TimerKills, Killed
    <2>4. CloseCollects'
      BY <1>0, <1>23 DEF IInv, Progress, LiveIsKnown, CloseCollects,
          TimerKills, Killed
    <2>5. StartHoldsLock' /\ TombstoneStays' /\ SuccessSawDone'
      BY <1>23 DEF IInv, StartHoldsLock, TombstoneStays, SuccessSawDone,
          TimerKills
    <2> QED BY <1>0, <2>1, <2>2, <2>3, <2>4, <2>5 DEF IInv
  <1>24. ASSUME BeginClose PROVE IInv'
    <2>1. CloseCollects'
      BY <1>0, <1>24 DEF IInv, Progress, LiveIsKnown, CloseCollects, BeginClose
    <2>2. Progress' /\ StartHoldsLock' /\ TombstoneStays' /\ LiveIsKnown' /\ RevokeCollects' /\ SuccessSawDone'
      BY <1>24 DEF IInv, Progress, StartHoldsLock, TombstoneStays, LiveIsKnown,
          RevokeCollects, SuccessSawDone, BeginClose
    <2> QED BY <1>0, <2>1, <2>2 DEF IInv
  <1>25. ASSUME CloseKills PROVE IInv'
    <2>1. Progress'
      BY <1>0, <1>25 DEF IInv, Progress, CloseKills, Killed
    <2>2. LiveIsKnown'
      BY <1>0, <1>25 DEF IInv, Progress, LiveIsKnown, CloseKills, Killed
    <2>3. RevokeCollects'
      BY <1>0, <1>25 DEF IInv, Progress, StartHoldsLock, TombstoneStays,
          LiveIsKnown, RevokeCollects, CloseKills, Killed
    <2>4. CloseCollects'
      BY <1>0, <1>25 DEF IInv, Progress, LiveIsKnown, CloseCollects,
          CloseKills, Killed
    <2>5. StartHoldsLock' /\ TombstoneStays' /\ SuccessSawDone'
      BY <1>25 DEF IInv, StartHoldsLock, TombstoneStays, SuccessSawDone,
          CloseKills
    <2> QED BY <1>0, <2>1, <2>2, <2>3, <2>4, <2>5 DEF IInv
  <1>26. ASSUME CloseReturns PROVE IInv'
    <2>1. CloseCollects'
      BY <1>0, <1>26 DEF IInv, Progress, LiveIsKnown, CloseCollects,
          CloseReturns
    <2>2. Progress' /\ StartHoldsLock' /\ TombstoneStays' /\ LiveIsKnown' /\ RevokeCollects' /\ SuccessSawDone'
      BY <1>26 DEF IInv, Progress, StartHoldsLock, TombstoneStays, LiveIsKnown,
          RevokeCollects, SuccessSawDone, CloseReturns
    <2> QED BY <1>0, <2>1, <2>2 DEF IInv
  <1>27. ASSUME MainExits PROVE IInv'
    <2>1. Progress'
      BY <1>0, <1>27 DEF IInv, Progress, MainExits
    <2>2. LiveIsKnown'
      BY <1>0, <1>27 DEF IInv, Progress, LiveIsKnown, MainExits
    <2>3. RevokeCollects'
      BY <1>0, <1>27 DEF IInv, Progress, StartHoldsLock, TombstoneStays,
          LiveIsKnown, RevokeCollects, MainExits
    <2>4. CloseCollects'
      BY <1>0, <1>27 DEF IInv, Progress, LiveIsKnown, CloseCollects, MainExits
    <2>5. StartHoldsLock' /\ TombstoneStays' /\ SuccessSawDone'
      BY <1>27 DEF IInv, StartHoldsLock, TombstoneStays, SuccessSawDone,
          MainExits
    <2> QED BY <1>0, <2>1, <2>2, <2>3, <2>4, <2>5 DEF IInv
  <1>28. CASE UNCHANGED vars
    BY <1>28 DEF IInv, Progress, StartHoldsLock, TombstoneStays, LiveIsKnown, RevokeCollects, CloseCollects, SuccessSawDone
  <1> QED
    BY <1>1, <1>2, <1>3, <1>4, <1>5, <1>6, <1>7, <1>8, <1>9, <1>10, <1>11,
        <1>12, <1>13, <1>14, <1>15, <1>16, <1>17, <1>18, <1>19, <1>20, <1>21,
        <1>22, <1>23, <1>24, <1>25, <1>26, <1>27, <1>28 DEF Next, JobStep,
        WaitStep, TimerStep, CloseStep

\* The inductive invariant holds in every reachable state.
THEOREM Inductive == Spec => []IInv
  <1>1. Init => IInv
    BY InitEstablishes
  <1>2. IInv /\ [Next]_vars => IInv'
    BY StepPreserves
  <1> QED BY <1>1, <1>2, PTL DEF Spec

\* The variables of the supervisor keep their types, for any set of requests
\* and sessions.
THEOREM TypeCorrect == Spec => []TypeOK
  <1>1. IInv => TypeOK
    BY DEF IInv
  <1> QED BY <1>1, Inductive, PTL

\* executeAuthorized: an answered session_revoke leaves no live background
\* process of its session, however the launches of the session interleave
\* with it.
THEOREM RevokeIsComplete == Spec => []RevokedSessionHasNoBackgroundProcess
  <1>1. IInv => RevokedSessionHasNoBackgroundProcess
    BY DEF IInv, RevokeCollects, RevokedSessionHasNoBackgroundProcess, RevokeAnswered
  <1> QED BY <1>1, Inductive, PTL

\* linuxBackend: a published child that has not been reaped is in the table.
THEOREM ChildrenStayReachable == Spec => []NoLostChild
  <1>1. IInv => NoLostChild
    BY DEF IInv, LiveIsKnown, NoLostChild
  <1> QED BY <1>1, Inductive, PTL

\* linuxBackend.close: when it has returned, a live child is one whose launch
\* has yet to meet the closed flag.
THEOREM CloseIsComplete == Spec => []CloseLeavesNoPublishedChild
  <1>1. IInv => CloseLeavesNoPublishedChild
    BY DEF IInv, CloseCollects, CloseLeavesNoPublishedChild
  <1> QED BY <1>1, Inductive, PTL

\* process_stop and exec_run: success means the child has been reaped and its
\* cgroup removed.
THEOREM SuccessIsFinal == Spec => []SuccessMeansReaped
  <1>1. IInv => SuccessMeansReaped
    BY DEF IInv, TypeOK, LiveIsKnown, SuccessSawDone, SuccessMeansReaped
  <1> QED BY <1>1, Inductive, PTL

----------------------------------------------------------------------------
(* ExecSupervisor implements ExecService.                                  *)

\* A step that leaves the children and the answers to revokes alone is
\* invisible to the Gateway.
LEMMA Invisible ==
    ASSUME UNCHANGED <<owner, os, Exited>>,
           \A p \in Jobs : os[p] # "none" => op'[p] = op[p],
           \A r \in Jobs : (op[r] = "session_revoke" /\ resp[r] = "ok")
                            <=> (op'[r] = "session_revoke" /\ resp'[r] = "ok")
    PROVE  UNCHANGED Service!serviceVars
  <1>1. Child' = Child
    BY DEF Child
  <1>2. Confirmed' = Confirmed
    BY DEF Confirmed, RevokeAnswered
  <1> QED BY <1>1, <1>2 DEF Service!serviceVars

\* The answers to revokes are those of the jobs that were answered before.
LEMMA SameConfirmed ==
    ASSUME UNCHANGED <<op, owner>>,
           \A r \in Jobs : op[r] = "session_revoke" => (resp[r] = "ok" <=> resp'[r] = "ok")
    PROVE  Confirmed' = Confirmed
  BY DEF Confirmed, RevokeAnswered

\* At most one child dies: an End of the service, or nothing it can see.
LEMMA OneDies ==
    ASSUME TypeOK, NEW p \in Jobs, ~Exited, Exited' = Exited, UNCHANGED <<op, owner>>,
           Confirmed' = Confirmed, os[p] # "none",
           \E state \in {"dead", "reaped"} : os' = [os EXCEPT ![p] = state]
    PROVE  [Service!Next]_Service!serviceVars
  <1>1. CASE Live(p)
    <2>1. Child' = [Child EXCEPT ![p] = "gone"]
      BY <1>1, ZenonT(30) DEF Child, TypeOK
    <2>2. Service!Alive(p)
      BY <1>1 DEF Service!Alive, Child
    <2> QED BY <2>1, <2>2 DEF Service!Next, Service!End
  <1>2. CASE ~Live(p)
    <2>1. Child' = Child
      BY <1>2 DEF Child, TypeOK
    <2> QED BY <2>1 DEF Service!serviceVars
  <1> QED BY <1>1, <1>2

\* Every step of the supervisor is a step of the service, or invisible.
LEMMA StepImplements == IInv /\ [Next]_vars => [Service!Next]_Service!serviceVars
  <1> SUFFICES ASSUME IInv, [Next]_vars PROVE [Service!Next]_Service!serviceVars
    OBVIOUS
  <1> DEFINE Same == UNCHANGED Service!serviceVars
  <1>0. TypeOK /\ Progress
    BY DEF IInv
  <1>1. ASSUME NEW j \in Jobs, Receive(j) PROVE Same
    <2>1. os[j] = "none" /\ resp[j] # "ok" /\ resp'[j] # "ok"
      BY <1>0, <1>1 DEF Progress, Receive, Reply, TypeOK, Goto
    <2>2. \A r \in Jobs \ {j} : op'[r] = op[r] /\ resp'[r] = resp[r]
      BY <1>0, <1>1 DEF Receive, Reply, TypeOK
    <2>3. UNCHANGED <<owner, os, Exited>>
      BY <1>1 DEF Receive, Exited
    <2> HIDE DEF Same
    <2> QED BY <2>1, <2>2, <2>3, Invisible DEF Same
  <1>2. ASSUME NEW j \in Jobs, RecordTombstone(j) PROVE Same
    <2>1. UNCHANGED <<op, owner, os, Exited>>
      BY <1>2 DEF RecordTombstone, Exited
    <2>2. \A r \in Jobs : op[r] = "session_revoke" => (resp'[r] = "ok" <=> resp[r] = "ok")
      BY <1>0, <1>2 DEF RecordTombstone, Goto, TypeOK, Progress
    <2> QED BY <2>1, <2>2, Invisible
  <1>3. ASSUME NEW j \in Jobs, EnterProcessStart(j) PROVE Same
    <2>1. UNCHANGED <<op, owner, os, Exited>>
      BY <1>3 DEF EnterProcessStart, Exited
    <2>2. \A r \in Jobs : op[r] = "session_revoke" => (resp'[r] = "ok" <=> resp[r] = "ok")
      BY <1>0, <1>3 DEF EnterProcessStart, Goto, Reply, TypeOK, Progress
    <2> QED BY <2>1, <2>2, Invisible
  <1>4. ASSUME NEW j \in Jobs, CheckTombstone(j) PROVE Same
    <2>1. UNCHANGED <<op, owner, os, Exited>>
      BY <1>4 DEF CheckTombstone, Exited
    <2>2. \A r \in Jobs : op[r] = "session_revoke" => (resp'[r] = "ok" <=> resp[r] = "ok")
      BY <1>0, <1>4 DEF CheckTombstone, Goto, Reply, TypeOK, Progress
    <2> QED BY <2>1, <2>2, Invisible
  <1>5. ASSUME NEW j \in Jobs, Publish(j) PROVE Same
    <2>1. UNCHANGED <<op, owner, os, Exited>>
      BY <1>5 DEF Publish, Exited
    <2>2. \A r \in Jobs : op[r] = "session_revoke" => (resp'[r] = "ok" <=> resp[r] = "ok")
      BY <1>0, <1>5 DEF Publish, Goto, TypeOK, Progress
    <2> QED BY <2>1, <2>2, Invisible
  <1>6. ASSUME NEW j \in Jobs, FinishLaunch(j) PROVE Same
    <2>1. UNCHANGED <<op, owner, os, Exited>>
      BY <1>6 DEF FinishLaunch, Exited
    <2>2. \A r \in Jobs : op[r] = "session_revoke" => (resp'[r] = "ok" <=> resp[r] = "ok")
      BY <1>0, <1>6 DEF FinishLaunch, Goto, Reply, TypeOK, Progress
    <2> QED BY <2>1, <2>2, Invisible
  <1>7. ASSUME NEW j \in Jobs, FinishExecRun(j) PROVE Same
    <2>1. UNCHANGED <<op, owner, os, Exited>>
      BY <1>7 DEF FinishExecRun, Exited
    <2>2. \A r \in Jobs : op[r] = "session_revoke" => (resp'[r] = "ok" <=> resp[r] = "ok")
      BY <1>0, <1>7 DEF FinishExecRun, Reply, TypeOK, Progress
    <2> QED BY <2>1, <2>2, Invisible
  <1>8. ASSUME NEW j \in Jobs, ReadRecord(j) PROVE Same
    <2>1. UNCHANGED <<op, owner, os, Exited>>
      BY <1>8 DEF ReadRecord, Exited
    <2>2. \A r \in Jobs : op[r] = "session_revoke" => (resp'[r] = "ok" <=> resp[r] = "ok")
      BY <1>0, <1>8 DEF ReadRecord, Reply, TypeOK, Progress
    <2> QED BY <2>1, <2>2, Invisible
  <1>9. ASSUME NEW j \in Jobs, LookupLive(j) PROVE Same
    <2>1. UNCHANGED <<op, owner, os, Exited>>
      BY <1>9 DEF LookupLive, Exited
    <2>2. \A r \in Jobs : op[r] = "session_revoke" => (resp'[r] = "ok" <=> resp[r] = "ok")
      BY <1>0, <1>9 DEF LookupLive, Goto, Reply, TypeOK, Progress
    <2> QED BY <2>1, <2>2, Invisible
  <1>10. ASSUME NEW j \in Jobs, FinishStop(j) PROVE Same
    <2>1. UNCHANGED <<op, owner, os, Exited>>
      BY <1>10 DEF FinishStop, Exited
    <2>2. \A r \in Jobs : op[r] = "session_revoke" => (resp'[r] = "ok" <=> resp[r] = "ok")
      BY <1>0, <1>10 DEF FinishStop, Reply, TypeOK, Progress
    <2> QED BY <2>1, <2>2, Invisible
  <1>11. ASSUME NEW j \in Jobs, ScanMemory(j) PROVE Same
    <2>1. UNCHANGED <<op, owner, os, Exited>>
      BY <1>11 DEF ScanMemory, Exited
    <2>2. \A r \in Jobs : op[r] = "session_revoke" => (resp'[r] = "ok" <=> resp[r] = "ok")
      BY <1>0, <1>11 DEF ScanMemory, Reply, TypeOK, Progress
    <2> QED BY <2>1, <2>2, Invisible
  <1>12. ASSUME NEW j \in Jobs, CollectOwned(j) PROVE Same
    <2>1. UNCHANGED <<op, owner, os, Exited>>
      BY <1>12 DEF CollectOwned, Exited
    <2>2. \A r \in Jobs : op[r] = "session_revoke" => (resp'[r] = "ok" <=> resp[r] = "ok")
      BY <1>0, <1>12 DEF CollectOwned, Goto, TypeOK, Progress
    <2> QED BY <2>1, <2>2, Invisible
  <1>13. ASSUME NEW j \in Jobs, Spawn(j) PROVE [Service!Next]_Service!serviceVars
    <2>1. UNCHANGED <<op, owner, Exited>> /\ Confirmed' = Confirmed
      <3>1. UNCHANGED <<op, owner, Exited>>
        BY <1>13 DEF Spawn, Exited
      <3>2. \A r \in Jobs : op[r] = "session_revoke" => (resp'[r] = "ok" <=> resp[r] = "ok")
        BY <1>0, <1>13 DEF Spawn, LaunchFails, Goto, Reply, TypeOK
      <3> QED BY <3>1, <3>2, SameConfirmed
    <2>2. CASE UNCHANGED os
      <3>1. Child' = Child
        BY <2>1, <2>2 DEF Child
      <3> QED BY <2>1, <3>1 DEF Service!serviceVars
    <2>3. CASE os' = [os EXCEPT ![j] = "running"]
      <3> DEFINE kind == IF op[j] = "process_start" THEN "background" ELSE "run"
      <3>1. os[j] = "none" /\ ~Exited
        BY <1>0, <1>13 DEF Progress, Spawn
      <3>2. Child[j] = "absent"
        BY <3>1 DEF Child
      <3>3. Child' = [Child EXCEPT ![j] = kind]
        BY <1>0, <2>1, <2>3 DEF Child, TypeOK
      <3>4. kind = "background" => owner[j] \notin Confirmed
        <4>1. op[j] = "process_start" => owner[j] \notin revoked
          BY <1>13 DEF IInv, StartHoldsLock, Spawn
        <4>2. \A r \in Jobs : op[r] = "session_revoke" /\ resp[r] = "ok" => owner[r] \in revoked
          BY DEF IInv, TombstoneStays
        <4> QED BY <4>1, <4>2 DEF Confirmed, RevokeAnswered
      <3>5. Service!Launch(j, kind)
        BY <2>1, <3>1, <3>2, <3>3, <3>4 DEF Service!Launch
      <3> QED BY <3>5 DEF Service!Next
    <2> QED BY <1>13, <2>2, <2>3 DEF Spawn
  <1>14. ASSUME NEW j \in Jobs, AbortLaunch(j) PROVE [Service!Next]_Service!serviceVars
    <2>1. UNCHANGED <<op, owner, Exited>> /\ ~Exited /\ os' = [os EXCEPT ![j] = "reaped"]
      BY <1>14 DEF AbortLaunch, Exited
    <2>2. \A r \in Jobs : op[r] = "session_revoke" => (resp'[r] = "ok" <=> resp[r] = "ok")
      BY <1>0, <1>14 DEF AbortLaunch, LaunchFails, Reply, TypeOK, Progress
    <2>3. os[j] # "none"
      BY <1>0, <1>14 DEF AbortLaunch, Progress
    <2> QED BY <1>0, <2>1, <2>2, <2>3, SameConfirmed, OneDies
  <1>15. ASSUME NEW p \in Jobs, ProcessExits(p) PROVE [Service!Next]_Service!serviceVars
    <2>1. UNCHANGED <<op, owner, resp, Exited>> /\ ~Exited
      BY <1>15 DEF ProcessExits, Exited
    <2>2. p \in Jobs
      BY <1>0 DEF TypeOK
    <2>3. UNCHANGED os \/ (os[p] # "none" /\ os' = [os EXCEPT ![p] = "dead"])
      BY <1>15 DEF ProcessExits,  SameIdentity
    <2> QED BY <1>0, <2>1, <2>2, <2>3, Invisible, SameConfirmed, OneDies
  <1>16. ASSUME NEW p \in Jobs, TimerKills(p) PROVE [Service!Next]_Service!serviceVars
    <2>1. UNCHANGED <<op, owner, resp, Exited>> /\ ~Exited
      BY <1>16 DEF TimerKills, Exited
    <2>2. p \in Jobs
      BY <1>0 DEF TypeOK
    <2>3. UNCHANGED os \/ (os[p] # "none" /\ os' = [os EXCEPT ![p] = "dead"])
      BY <1>16 DEF TimerKills, Killed, SameIdentity
    <2> QED BY <1>0, <2>1, <2>2, <2>3, Invisible, SameConfirmed, OneDies
  <1>17. ASSUME NEW j \in Jobs, StopProcess(j) PROVE [Service!Next]_Service!serviceVars
    <2>1. UNCHANGED <<op, owner, resp, Exited>> /\ ~Exited
      BY <1>17 DEF StopProcess, Exited
    <2>2. target[j] \in Jobs
      BY <1>0 DEF TypeOK
    <2>3. UNCHANGED os \/ (os[target[j]] # "none" /\ os' = [os EXCEPT ![target[j]] = "dead"])
      BY <1>17 DEF StopProcess, Killed, Goto, SameIdentity
    <2> QED BY <1>0, <2>1, <2>2, <2>3, Invisible, SameConfirmed, OneDies
  <1>18. ASSUME NEW p \in Jobs, TimerFires(p) \/ MarkExited(p) PROVE Same
    <2>1. UNCHANGED <<op, owner, resp, os, Exited>>
      BY <1>18 DEF TimerFires, MarkExited, Exited
    <2> QED BY <2>1, Invisible
  <1>19. ASSUME NEW p \in Jobs, Reap(p) PROVE Same
    <2>1. UNCHANGED <<op, owner, resp, Exited>> /\ os[p] = "dead" /\ os' = [os EXCEPT ![p] = "reaped"]
      BY <1>19 DEF Reap, Exited
    <2>2. Child' = Child
      BY <1>0, <2>1 DEF Child, TypeOK
    <2> QED BY <2>1, <2>2, SameConfirmed DEF Service!serviceVars
  <1>20. ASSUME NEW j \in Jobs, SignalProcess(j) PROVE Same
    <2>1. UNCHANGED <<op, owner, Exited>>
      BY <1>20 DEF SignalProcess, Exited
    <2>2. \A r \in Jobs : op[r] = "session_revoke" => (resp'[r] = "ok" <=> resp[r] = "ok")
      BY <1>0, <1>20 DEF SignalProcess, Reply, TypeOK
    <2>3. \A p \in Jobs : os'[p] = os[p] \/ (Live(p) /\ os'[p] \in {"running", "stopped"})
      BY <1>0, <1>20 DEF SignalProcess, TypeOK
    <2>4. Child' = Child
      BY <2>1, <2>3 DEF Child
    <2> QED BY <2>1, <2>2, <2>4, SameConfirmed DEF Service!serviceVars
  <1>21. ASSUME NEW j \in Jobs, KillOwned(j) PROVE [Service!Next]_Service!serviceVars
    <2>1. UNCHANGED <<op, owner, resp, Exited>> /\ ~Exited /\ snap[j] \subseteq Jobs
      BY <1>0, <1>21 DEF KillOwned, Exited, TypeOK
    <2>2. UNCHANGED os \/ \E p \in Jobs : os[p] # "none" /\ os' = [os EXCEPT ![p] = "dead"]
      BY <1>21, <2>1 DEF KillOwned, Killed
    <2> QED BY <1>0, <2>1, <2>2, Invisible, SameConfirmed, OneDies
  <1>22. ASSUME NEW j \in Jobs, FinishRevoke(j) PROVE [Service!Next]_Service!serviceVars
    <2>1. UNCHANGED <<op, owner, os, Exited>> /\ ~Exited /\ pc[j] = "joining"
      BY <1>22 DEF FinishRevoke, Exited
    <2>2. op[j] = "session_revoke" /\ owner[j] \in Owners
      BY <1>0, <2>1 DEF Progress, TypeOK
    <2>3. resp' = [resp EXCEPT ![j] = "ok"]
      BY <1>22 DEF FinishRevoke, Reply
    <2>4. Child' = Child
      BY <2>1 DEF Child
    <2>5. Confirmed' = Confirmed \cup {owner[j]}
      BY <1>0, <2>1, <2>2, <2>3 DEF Confirmed, RevokeAnswered, TypeOK
    <2>6. \A p \in Jobs : owner[p] = owner[j] => Child[p] # "background"
      BY <2>1 DEF Child, IInv, RevokeCollects
    <2>7. Service!Confirm(owner[j])
      BY <2>1, <2>4, <2>5, <2>6 DEF Service!Confirm
    <2> QED BY <2>2, <2>7 DEF Service!Next
  <1>23. ASSUME BeginClose \/ CloseReturns PROVE Same
    <2>1. UNCHANGED <<op, owner, resp, os, Exited>>
      BY <1>23 DEF BeginClose, CloseReturns, Exited
    <2> QED BY <2>1, Invisible
  <1>24. ASSUME CloseKills PROVE [Service!Next]_Service!serviceVars
    <2>1. UNCHANGED <<op, owner, resp, Exited>> /\ ~Exited /\ closeSnap \subseteq Jobs
      BY <1>0, <1>24 DEF CloseKills, Exited, TypeOK
    <2>2. UNCHANGED os \/ \E p \in Jobs : os[p] # "none" /\ os' = [os EXCEPT ![p] = "dead"]
      BY <1>24, <2>1 DEF CloseKills, Killed
    <2> QED BY <1>0, <2>1, <2>2, Invisible, SameConfirmed, OneDies
  <1>25. ASSUME MainExits PROVE [Service!Next]_Service!serviceVars
    <2>1. UNCHANGED <<op, owner, resp>> /\ ~Exited /\ Exited'
      BY <1>25 DEF MainExits, Exited
    <2>2. Confirmed' = Confirmed
      BY <2>1, SameConfirmed
    <2>3. Child' = [p \in Jobs |-> IF Service!Alive(p) THEN "gone" ELSE Child[p]]
      BY <1>0, <1>25, <2>1 DEF MainExits, Child, Service!Alive, TypeOK
    <2>4. Service!Exit
      BY <2>1, <2>2, <2>3 DEF Service!Exit
    <2> QED BY <2>4 DEF Service!Next
  <1>26. CASE UNCHANGED vars
    <2>1. UNCHANGED <<op, owner, resp, os, Exited>>
      BY <1>26 DEF Exited
    <2> QED BY <2>1, Invisible
  <1> QED
    BY <1>1, <1>2, <1>3, <1>4, <1>5, <1>6, <1>7, <1>8, <1>9, <1>10, <1>11, <1>12, <1>13,
        <1>14, <1>15, <1>16, <1>17, <1>18, <1>19, <1>20, <1>21, <1>22, <1>23, <1>24,
        <1>25, <1>26 DEF Next, JobStep, WaitStep, TimerStep, CloseStep

\* The supervisor implements what the Gateway relies on, for any set of jobs
\* and sessions: a confirmed session_revoke is complete and final.
THEOREM SupervisorRefines == Spec => ImplementsService
  <1>1. Init => Service!Init
    BY DEF Init, Service!Init, Child, Confirmed, RevokeAnswered, Exited
  <1>2. IInv /\ [Next]_vars => [Service!Next]_Service!serviceVars
    BY StepImplements
  <1> QED BY <1>1, <1>2, Inductive, PTL DEF Spec, Service!Spec, ImplementsService

=============================================================================
