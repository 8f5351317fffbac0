--------------------------- MODULE GatewayProofs ---------------------------
(***************************************************************************)
(* TLAPS proofs about Gateway, for any requests, principals and sessions,  *)
(* any lifetime and any capacity of the store and the semaphore.           *)
(*                                                                         *)
(* Revocation is final because the flag is set before the snapshot is      *)
(* taken: what was admitted or published before is in the snapshot, and    *)
(* nothing is admitted or published after.  A deleted session owns no      *)
(* process because its DELETE is answered only after the supervisor has    *)
(* the tombstone, and a tombstone and a process exclude each other.        *)
(*                                                                         *)
(* The second part is about WorkspaceRouter, which routes the requests to  *)
(* the servers of a Gateway process.                                       *)
(***************************************************************************)
EXTENDS Gateway, WorkspaceRouter, TLAPS

Labels == {"idle", "admitted", "validated", "slotted", "registered", "committing", "calling",
           "returning", "evicting", "terminating", "marked", "terminated", "revoking", "finishing",
           "clearing", "collecting", "closing", "cancelling", "done"}

Answers == {"none", "ok", "error", "busy", "notfound", "nocontent", "unavailable"}

SessionRecords == [principal : Principals, lastSeen : Nat, revoking : BOOLEAN]

TypeOK ==
    /\ now \in Nat
    /\ pc \in [Threads -> Labels]
    /\ input \in [Requests -> [method : AllMethods \cup {"unsent"}, principal : Principals,
                               sid : Sessions \cup {None}, cid : ClientIds]]
    /\ resp \in [Requests -> Answers]
    /\ cancelled \subseteq Requests
    /\ lifecycleMu \in Threads \cup {None}
    /\ revoked \in BOOLEAN
    /\ requests \subseteq Requests
    /\ issued \subseteq Sessions
    /\ sessions \in [DOMAIN sessions -> SessionRecords] /\ DOMAIN sessions \subseteq issued
    /\ active \subseteq Requests
    /\ evicted \in [Threads -> SUBSET (Sessions \X Principals)]
    /\ collected \in [sessions : SUBSET Sessions, requests : SUBSET Requests, active : SUBSET Requests]
    /\ sent \subseteq Sessions \cup {None}
    /\ starting \subseteq Requests
    /\ tombstones \subseteq Sessions
    /\ processes \subseteq Requests
    /\ execClosed \in BOOLEAN

\* Server.Revoke is past sessions.clear.
Cleared == pc[Server] \in {"collecting", "revoking", "closing", "cancelling", "done"}

\* The flag is set by the first step of Revoke, and stays.
FlagFirst == pc[Server] # "idle" => revoked

\* No session is published and no request admitted after the snapshot.
SnapshotIsAll ==
    Cleared => /\ sessions = << >>
               /\ requests \subseteq collected.requests
               /\ pc[Server] = "done" => requests \subseteq cancelled

\* A request that has not arrived has no answer and has started nothing.
NotArrived ==
    \A r \in Requests : pc[r] = "idle" => resp[r] = "none" /\ r \notin starting /\ r \notin processes

\* A DELETE is answered with 204 only when the supervisor has the tombstone,
\* and no process of a session outlives its tombstone or comes after it.
Buried ==
    /\ \A d \in Requests : resp[d] = "nocontent" => sid(d) \in tombstones
    /\ \A r \in processes : sid(r) \notin tombstones

IInv ==
    /\ TypeOK
    /\ FlagFirst
    /\ SnapshotIsAll
    /\ NotArrived
    /\ Buried

----------------------------------------------------------------------------
\* The variable tuples are expanded everywhere below.
USE DEF vars, requestVars, serverVars, storeVars, execVars

\* A session store without sessions.
LEMMA NoSessions == \A S : S = {} => [s \in S |-> sessions[s]] = << >>
  OBVIOUS

\* A store from which sessions have been removed, and what was removed.
LEMMA StoreTypes ==
    ASSUME TypeOK, NEW S
    PROVE  /\ Without(S) \in [DOMAIN sessions \ S -> SessionRecords] /\ DOMAIN Without(S) = DOMAIN sessions \ S
           /\ S \subseteq DOMAIN sessions => Removed(S) \subseteq Sessions \X Principals
  <1>1. \A s \in DOMAIN sessions : sessions[s] \in SessionRecords /\ sessions[s].principal \in Principals
    BY DEF TypeOK, SessionRecords
  <1>2. \A s \in DOMAIN sessions : s \in Sessions
    BY DEF TypeOK
  <1> QED BY <1>1, <1>2 DEF Without, Removed

\* Every step preserves the types of the variables.
LEMMA TypePreserved == TypeOK /\ [Next]_vars => TypeOK'
  <1> SUFFICES ASSUME TypeOK, [Next]_vars PROVE TypeOK'
    OBVIOUS
  <1> USE ThreadAssumption DEF TypeOK, Labels, Answers, Threads
  <1>1. ASSUME NEW r \in Requests, Admit(r) PROVE TypeOK'
    <2>1. input' \in [Requests -> [method : AllMethods \cup {"unsent"}, principal : Principals,
                                   sid : Sessions \cup {None}, cid : ClientIds]]
      BY <1>1 DEF Admit, Inputs
    <2> QED BY <1>1, <2>1 DEF Admit, Goto
  <1>2. ASSUME NEW r \in Requests, Refuse(r) PROVE TypeOK'
    BY <1>2 DEF Refuse, Respond
  <1>3. ASSUME NEW r \in Requests, FinishRequest(r) PROVE TypeOK'
    BY <1>3 DEF FinishRequest, Goto
  <1>4. ASSUME NEW r \in Requests, ValidateAndTouch(r) PROVE TypeOK'
    <2>1. CASE UNCHANGED <<sessions, evicted>>
      BY <1>4, <2>1 DEF ValidateAndTouch, Respond, DropExpired, Goto
    <2>2. CASE sid(r) \in DOMAIN sessions /\ DropExpired(r)
      <3>1. Without({sid(r)}) \in [DOMAIN sessions \ {sid(r)} -> SessionRecords]
        BY StoreTypes
      <3>2. Removed({sid(r)}) \subseteq Sessions \X Principals
        <4>1. {sid(r)} \subseteq DOMAIN sessions
          BY <2>2
        <4> QED BY <4>1, StoreTypes
      <3>3. /\ sessions' = Without({sid(r)}) /\ evicted' = [evicted EXCEPT ![r] = Removed({sid(r)})]
            /\ pc' = [pc EXCEPT ![r] = "evicting"] /\ resp' = resp
        BY <2>2 DEF DropExpired, Goto
      <3>4. sessions' \in [DOMAIN sessions' -> SessionRecords] /\ DOMAIN sessions' \subseteq DOMAIN sessions
        BY <3>1, <3>3
      <3>5. evicted' \in [Threads -> SUBSET (Sessions \X Principals)]
        BY <3>2, <3>3
      <3> QED BY <1>4, <3>3, <3>4, <3>5 DEF ValidateAndTouch
    <2>3. CASE /\ sid(r) \in DOMAIN sessions
               /\ sessions' = [sessions EXCEPT ![sid(r)].lastSeen = now]
               /\ Goto(r, "validated")
               /\ UNCHANGED <<resp, evicted>>
      <3>1. sessions[sid(r)] \in SessionRecords
        BY <2>3
      <3>2. [sessions[sid(r)] EXCEPT !.lastSeen = now] \in SessionRecords
        BY <3>1 DEF SessionRecords
      <3>3. sessions' \in [DOMAIN sessions' -> SessionRecords] /\ DOMAIN sessions' = DOMAIN sessions
        BY <2>3, <3>2
      <3> QED BY <1>4, <2>3, <3>3 DEF ValidateAndTouch, Goto
    <2> QED BY <1>4, <2>1, <2>2, <2>3 DEF ValidateAndTouch, Usable, Found
  <1>5. ASSUME NEW r \in Requests, CancelNotification(r) PROVE TypeOK'
    BY <1>5, SMTT(20) DEF CancelNotification, Respond
  <1>6. ASSUME NEW r \in Requests, TakeSlot(r) PROVE TypeOK'
    BY <1>6 DEF TakeSlot, Goto, Respond
  <1>7. ASSUME NEW r \in Requests, ListTools(r) PROVE TypeOK'
    BY <1>7 DEF ListTools, Respond
  <1>8. ASSUME NEW r \in Requests, CreateSession(r) PROVE TypeOK'
    <2>1. CASE UNCHANGED <<storeVars, evicted, lifecycleMu>> /\ (Respond(r, "notfound") \/ Respond(r, "error"))
      BY <1>8, <2>1 DEF CreateSession, Respond
    <2> DEFINE expired == {s \in DOMAIN sessions : Expired(s)}
               kept    == DOMAIN sessions \ expired
    <2>2. ASSUME NEW id \in Sessions \ issued,
                 NEW victims \in IF StoreFull(kept) THEN {{s} : s \in Oldest(kept)} ELSE {{}},
                 issued' = issued \cup {id},
                 sessions' = [s \in (kept \ victims) \cup {id} |->
                    IF s = id THEN [principal |-> principal(r), lastSeen |-> now, revoking |-> FALSE]
                              ELSE sessions[s]],
                 evicted' = [evicted EXCEPT ![r] = Removed(expired \cup victims)],
                 IF expired \cup victims = {}
                 THEN Respond(r, "ok") /\ UNCHANGED lifecycleMu
                 ELSE Goto(r, "evicting") /\ lifecycleMu' = r /\ UNCHANGED resp
          PROVE  TypeOK'
      <3>1. [principal |-> principal(r), lastSeen |-> now, revoking |-> FALSE] \in SessionRecords
        BY DEF SessionRecords, principal
      <3>2. victims \subseteq DOMAIN sessions
        BY DEF Oldest
      <3>3. sessions' \in [DOMAIN sessions' -> SessionRecords] /\ DOMAIN sessions' \subseteq issued'
        BY <2>2, <3>1
      <3>4. Removed(expired \cup victims) \subseteq Sessions \X Principals
        BY <3>2, StoreTypes
      <3>5. evicted' \in [Threads -> SUBSET (Sessions \X Principals)]
        BY <2>2, <3>4
      <3>6. /\ pc' \in [Threads -> Labels] /\ resp' \in [Requests -> Answers]
            /\ lifecycleMu' \in Threads \cup {None}
        BY <2>2 DEF Respond, Goto
      <3>7. UNCHANGED <<now, input, cancelled, revoked, requests, collected, active, execVars>>
        BY <1>8 DEF CreateSession
      <3>8. issued' \subseteq Sessions
        BY <2>2
      <3> QED BY <3>3, <3>5, <3>6, <3>7, <3>8
    <2> QED BY <1>8, <2>1, <2>2 DEF CreateSession
  <1>9. ASSUME NEW r \in Requests, RegisterActive(r) PROVE TypeOK'
    BY <1>9 DEF RegisterActive, Goto, Respond
  <1>10. ASSUME NEW r \in Requests, LaunchWorker(r) PROVE TypeOK'
    BY <1>10 DEF LaunchWorker, Goto
  <1>11. ASSUME NEW r \in Requests, WorkerReturns(r) PROVE TypeOK'
    BY <1>11 DEF WorkerReturns, Goto
  <1>12. ASSUME NEW r \in Requests, RemoveActive(r) PROVE TypeOK'
    BY <1>12 DEF RemoveActive, Respond
  <1>13. ASSUME NEW r \in Requests, MarkRevoking(r) PROVE TypeOK'
    <2>1. CASE UNCHANGED <<sessions, evicted>>
      BY <1>13, <2>1 DEF MarkRevoking, Respond, DropExpired, Goto
    <2>2. CASE sid(r) \in DOMAIN sessions /\ DropExpired(r)
      <3>1. Without({sid(r)}) \in [DOMAIN sessions \ {sid(r)} -> SessionRecords]
        BY StoreTypes
      <3>2. Removed({sid(r)}) \subseteq Sessions \X Principals
        <4>1. {sid(r)} \subseteq DOMAIN sessions
          BY <2>2
        <4> QED BY <4>1, StoreTypes
      <3>3. /\ sessions' = Without({sid(r)}) /\ evicted' = [evicted EXCEPT ![r] = Removed({sid(r)})]
            /\ pc' = [pc EXCEPT ![r] = "evicting"] /\ resp' = resp
        BY <2>2 DEF DropExpired, Goto
      <3>4. sessions' \in [DOMAIN sessions' -> SessionRecords] /\ DOMAIN sessions' \subseteq DOMAIN sessions
        BY <3>1, <3>3
      <3>5. evicted' \in [Threads -> SUBSET (Sessions \X Principals)]
        BY <3>2, <3>3
      <3> QED BY <1>13, <3>3, <3>4, <3>5 DEF MarkRevoking
    <2>3. CASE /\ sid(r) \in DOMAIN sessions
               /\ sessions' = [sessions EXCEPT ![sid(r)].revoking = TRUE]
               /\ Goto(r, "marked")
               /\ UNCHANGED <<resp, evicted>>
      <3>1. sessions[sid(r)] \in SessionRecords
        BY <2>3
      <3>2. [sessions[sid(r)] EXCEPT !.revoking = TRUE] \in SessionRecords
        BY <3>1 DEF SessionRecords
      <3>3. sessions' \in [DOMAIN sessions' -> SessionRecords] /\ DOMAIN sessions' = DOMAIN sessions
        BY <2>3, <3>2
      <3> QED BY <1>13, <2>3, <3>3 DEF MarkRevoking, Goto
    <2> QED BY <1>13, <2>1, <2>2, <2>3 DEF MarkRevoking, Found
  <1>14. ASSUME NEW r \in Requests, TerminateSession(r) PROVE TypeOK'
    BY <1>14 DEF TerminateSession, Goto, ActiveOf
  <1>15. ASSUME NEW r \in Requests, SendRevoke(r) PROVE TypeOK'
    <2>1. sid(r) \in Sessions \cup {None}
      BY DEF sid
    <2> QED BY <1>15, <2>1 DEF SendRevoke, Goto
  <1>16. ASSUME NEW r \in Requests, FinishDelete(r) PROVE TypeOK'
    <2>1. CASE UNCHANGED sessions
      BY <1>16, <2>1, SMTT(20) DEF FinishDelete, Respond
    <2>2. CASE sessions' = Without({sid(r)})
      <3>1. sessions' \in [DOMAIN sessions' -> SessionRecords] /\ DOMAIN sessions' \subseteq DOMAIN sessions
        <4>1. Without({sid(r)}) \in [DOMAIN sessions \ {sid(r)} -> SessionRecords]
          BY StoreTypes
        <4> QED BY <2>2, <4>1
      <3> QED BY <1>16, <3>1 DEF FinishDelete, Respond
    <2> QED BY <1>16, <2>1, <2>2 DEF FinishDelete
  <1>17. ASSUME NEW t \in Threads, EvictSend(t) PROVE TypeOK'
    BY <1>17 DEF EvictSend, Goto
  <1>18. ASSUME NEW t \in Threads, EvictTerminate(t) PROVE TypeOK'
    <2>1. /\ cancelled' \subseteq Requests /\ evicted' \in [Threads -> SUBSET (Sessions \X Principals)]
          /\ lifecycleMu' \in Threads \cup {None}
      BY <1>18 DEF EvictTerminate, ActiveOf, UnlockAfterEvict
    <2>2. pc' \in [Threads -> Labels] /\ resp' \in [Requests -> Answers]
      BY <1>18 DEF EvictTerminate, Goto, Respond
    <2> QED BY <1>18, <2>1, <2>2 DEF EvictTerminate
  <1>19. ASSUME BeginRevoke PROVE TypeOK'
    <2> DEFINE expired == {s \in DOMAIN sessions : Expired(s)}
    <2>1. /\ sessions' = Without(expired) /\ evicted' = [evicted EXCEPT ![Server] = Removed(expired)]
          /\ collected' = [collected EXCEPT !.sessions = DOMAIN sessions \ expired]
          /\ pc' = [pc EXCEPT ![Server] = pc'[Server]] /\ pc'[Server] \in {"clearing", "evicting"}
      BY <1>19 DEF BeginRevoke, Goto
    <2>2. sessions' \in [DOMAIN sessions' -> SessionRecords] /\ DOMAIN sessions' \subseteq DOMAIN sessions
      <3>1. Without(expired) \in [DOMAIN sessions \ expired -> SessionRecords]
        BY StoreTypes
      <3> QED BY <2>1, <3>1
    <2>3. evicted' \in [Threads -> SUBSET (Sessions \X Principals)]
      BY <2>1, StoreTypes
    <2>4. collected' \in [sessions : SUBSET Sessions, requests : SUBSET Requests, active : SUBSET Requests]
      BY <2>1
    <2>5. revoked' \in BOOLEAN
      BY <1>19 DEF BeginRevoke
    <2> QED BY <1>19, <2>1, <2>2, <2>3, <2>4, <2>5 DEF BeginRevoke
  <1>20. ASSUME ClearSessions PROVE TypeOK'
    BY <1>20 DEF ClearSessions, Goto
  <1>21. ASSUME CollectActive PROVE TypeOK'
    BY <1>21 DEF CollectActive, Goto
  <1>22. ASSUME RevokeCollected PROVE TypeOK'
    BY <1>22 DEF RevokeCollected, Goto
  <1>23. ASSUME CloseExec PROVE TypeOK'
    BY <1>23 DEF CloseExec, Goto
  <1>24. ASSUME CancelAll PROVE TypeOK'
    BY <1>24 DEF CancelAll, Goto
  <1>25. ASSUME NEW s \in Sessions, RevokeLands(s) PROVE TypeOK'
    BY <1>25 DEF RevokeLands
  <1>26. ASSUME NEW r \in Requests, StartLands(r) PROVE TypeOK'
    BY <1>26 DEF StartLands
  <1>27. ASSUME Tick PROVE TypeOK'
    BY <1>27 DEF Tick
  <1>28. CASE UNCHANGED vars
    BY <1>28
  <1> QED
    BY <1>1, <1>2, <1>3, <1>4, <1>5, <1>6, <1>7, <1>8, <1>9, <1>10, <1>11, <1>12, <1>13,
       <1>14, <1>15, <1>16, <1>17, <1>18, <1>19, <1>20, <1>21, <1>22, <1>23, <1>24, <1>25,
       <1>26, <1>27, <1>28 DEF Next, RequestStep, RevokeStep, Threads

\* Every step preserves the inductive invariant.
LEMMA StepPreserves == IInv /\ [Next]_vars => IInv'
  <1> SUFFICES ASSUME IInv, [Next]_vars PROVE IInv'
    OBVIOUS
  <1>0. TypeOK /\ TypeOK'
    BY TypePreserved DEF IInv
  <1> USE DEF TypeOK, Threads
  <1>1. ASSUME NEW r \in Requests, Admit(r) PROVE IInv'
    <2>1. FlagFirst'
      BY <1>0, <1>1, ThreadAssumption DEF IInv, FlagFirst, Admit, Goto
    <2>2. SnapshotIsAll'
      BY <1>0, <1>1, ThreadAssumption DEF IInv, SnapshotIsAll, FlagFirst, Cleared, Admit,
         Goto
    <2>3. NotArrived'
      BY <1>0, <1>1, ThreadAssumption DEF IInv, NotArrived, Admit, Goto
    <2>4. Buried'
      <3>1. \A q \in Requests : q # r => input'[q] = input[q] /\ resp'[q] = resp[q]
        BY <1>0, <1>1 DEF Admit
      <3>2. r \notin processes /\ resp'[r] # "nocontent"
        BY <1>0, <1>1 DEF IInv, NotArrived, Admit
      <3>3. UNCHANGED <<processes, tombstones>>
        BY <1>1 DEF Admit
      <3> QED BY <1>0, <3>1, <3>2, <3>3 DEF IInv, Buried, sid
    <2> QED BY <1>0, <2>1, <2>2, <2>3, <2>4 DEF IInv
  <1>2. ASSUME NEW r \in Requests, Refuse(r) PROVE IInv'
    <2>1. FlagFirst'
      BY <1>0, <1>2, ThreadAssumption DEF IInv, FlagFirst, Refuse, Respond
    <2>2. SnapshotIsAll'
      BY <1>0, <1>2, ThreadAssumption DEF IInv, SnapshotIsAll, FlagFirst, Cleared, Refuse,
         Respond
    <2>3. NotArrived'
      BY <1>0, <1>2, ThreadAssumption DEF IInv, NotArrived, Refuse, Respond
    <2>4. Buried'
      BY <1>0, <1>2, ThreadAssumption DEF IInv, Buried, NotArrived, sid, Refuse, Respond
    <2> QED BY <1>0, <2>1, <2>2, <2>3, <2>4 DEF IInv
  <1>3. ASSUME NEW r \in Requests, FinishRequest(r) PROVE IInv'
    <2>1. FlagFirst'
      BY <1>0, <1>3, ThreadAssumption DEF IInv, FlagFirst, FinishRequest, Goto
    <2>2. SnapshotIsAll'
      BY <1>0, <1>3, ThreadAssumption DEF IInv, SnapshotIsAll, FlagFirst, Cleared,
         FinishRequest, Goto
    <2>3. NotArrived'
      BY <1>0, <1>3, ThreadAssumption DEF IInv, NotArrived, FinishRequest, Goto
    <2>4. Buried'
      BY <1>0, <1>3 DEF IInv, Buried, Cleared, sid, FinishRequest
    <2> QED BY <1>0, <2>1, <2>2, <2>3, <2>4 DEF IInv
  <1>4. ASSUME NEW r \in Requests, ValidateAndTouch(r) PROVE IInv'
    <2>1. FlagFirst'
      BY <1>0, <1>4, ThreadAssumption DEF IInv, FlagFirst, ValidateAndTouch, Goto,
         Respond, DropExpired, Usable, Found
    <2>2. SnapshotIsAll'
      BY <1>0, <1>4, ThreadAssumption DEF IInv, SnapshotIsAll, FlagFirst, Cleared,
         ValidateAndTouch, Goto, Respond, DropExpired, Usable, Found
    <2>3. NotArrived'
      BY <1>0, <1>4, ThreadAssumption DEF IInv, NotArrived, ValidateAndTouch, Goto,
         Respond, DropExpired, Usable, Found
    <2>4. Buried'
      BY <1>0, <1>4, ThreadAssumption DEF IInv, Buried, NotArrived, sid, ValidateAndTouch,
         Goto, Respond, DropExpired, Usable, Found
    <2> QED BY <1>0, <2>1, <2>2, <2>3, <2>4 DEF IInv
  <1>5. ASSUME NEW r \in Requests, CancelNotification(r) PROVE IInv'
    <2>1. FlagFirst'
      BY <1>0, <1>5, ThreadAssumption DEF IInv, FlagFirst, CancelNotification, Respond
    <2>2. SnapshotIsAll'
      BY <1>0, <1>5, ThreadAssumption DEF IInv, SnapshotIsAll, FlagFirst, Cleared,
         CancelNotification, Respond
    <2>3. NotArrived'
      BY <1>0, <1>5, ThreadAssumption DEF IInv, NotArrived, CancelNotification, Respond
    <2>4. Buried'
      BY <1>0, <1>5, ThreadAssumption DEF IInv, Buried, NotArrived, sid,
         CancelNotification, Respond
    <2> QED BY <1>0, <2>1, <2>2, <2>3, <2>4 DEF IInv
  <1>6. ASSUME NEW r \in Requests, TakeSlot(r) PROVE IInv'
    <2>1. FlagFirst'
      BY <1>0, <1>6, ThreadAssumption DEF IInv, FlagFirst, TakeSlot, Goto, Respond
    <2>2. SnapshotIsAll'
      BY <1>0, <1>6, ThreadAssumption DEF IInv, SnapshotIsAll, FlagFirst, Cleared,
         TakeSlot, Goto, Respond
    <2>3. NotArrived'
      BY <1>0, <1>6, ThreadAssumption DEF IInv, NotArrived, TakeSlot, Goto, Respond
    <2>4. Buried'
      BY <1>0, <1>6, ThreadAssumption DEF IInv, Buried, NotArrived, sid, TakeSlot, Goto,
         Respond
    <2> QED BY <1>0, <2>1, <2>2, <2>3, <2>4 DEF IInv
  <1>7. ASSUME NEW r \in Requests, ListTools(r) PROVE IInv'
    <2>1. FlagFirst'
      BY <1>0, <1>7, ThreadAssumption DEF IInv, FlagFirst, ListTools, Respond
    <2>2. SnapshotIsAll'
      BY <1>0, <1>7, ThreadAssumption DEF IInv, SnapshotIsAll, FlagFirst, Cleared,
         ListTools, Respond
    <2>3. NotArrived'
      BY <1>0, <1>7, ThreadAssumption DEF IInv, NotArrived, ListTools, Respond
    <2>4. Buried'
      BY <1>0, <1>7, ThreadAssumption DEF IInv, Buried, NotArrived, sid, ListTools,
         Respond
    <2> QED BY <1>0, <2>1, <2>2, <2>3, <2>4 DEF IInv
  <1>8. ASSUME NEW r \in Requests, CreateSession(r) PROVE IInv'
    <2>1. /\ pc[r] = "slotted" /\ UNCHANGED <<cancelled, revoked, requests, collected, execVars, input>>
          /\ pc' \in {[pc EXCEPT ![r] = "finishing"], [pc EXCEPT ![r] = "evicting"]}
          /\ resp' \in {resp, [resp EXCEPT ![r] = "notfound"], [resp EXCEPT ![r] = "error"], [resp EXCEPT ![r] = "ok"]}
          /\ revoked => UNCHANGED sessions
      BY <1>8 DEF CreateSession, Respond, Goto, RevokedFlag
    <2>2. FlagFirst'
      BY <1>0, <2>1, ThreadAssumption DEF IInv, FlagFirst
    <2>3. SnapshotIsAll'
      BY <1>0, <2>1, ThreadAssumption DEF IInv, SnapshotIsAll, FlagFirst, Cleared
    <2>4. NotArrived'
      BY <1>0, <2>1, ThreadAssumption DEF IInv, NotArrived
    <2>5. Buried'
      BY <1>0, <2>1, ThreadAssumption DEF IInv, Buried, NotArrived, sid
    <2> QED BY <1>0, <2>2, <2>3, <2>4, <2>5 DEF IInv
  <1>9. ASSUME NEW r \in Requests, RegisterActive(r) PROVE IInv'
    <2>1. FlagFirst'
      BY <1>0, <1>9, ThreadAssumption DEF IInv, FlagFirst, RegisterActive, Goto, Respond
    <2>2. SnapshotIsAll'
      BY <1>0, <1>9, ThreadAssumption DEF IInv, SnapshotIsAll, FlagFirst, Cleared,
         RegisterActive, Goto, Respond
    <2>3. NotArrived'
      BY <1>0, <1>9, ThreadAssumption DEF IInv, NotArrived, RegisterActive, Goto, Respond
    <2>4. Buried'
      BY <1>0, <1>9, ThreadAssumption DEF IInv, Buried, NotArrived, sid, RegisterActive,
         Goto, Respond
    <2> QED BY <1>0, <2>1, <2>2, <2>3, <2>4 DEF IInv
  <1>10. ASSUME NEW r \in Requests, LaunchWorker(r) PROVE IInv'
    <2>1. FlagFirst'
      BY <1>0, <1>10, ThreadAssumption DEF IInv, FlagFirst, LaunchWorker, Goto
    <2>2. SnapshotIsAll'
      BY <1>0, <1>10, ThreadAssumption DEF IInv, SnapshotIsAll, FlagFirst, Cleared,
         LaunchWorker, Goto
    <2>3. NotArrived'
      BY <1>0, <1>10, ThreadAssumption DEF IInv, NotArrived, LaunchWorker, Goto
    <2>4. Buried'
      BY <1>0, <1>10 DEF IInv, Buried, Cleared, sid, LaunchWorker
    <2> QED BY <1>0, <2>1, <2>2, <2>3, <2>4 DEF IInv
  <1>11. ASSUME NEW r \in Requests, WorkerReturns(r) PROVE IInv'
    <2>1. FlagFirst'
      BY <1>0, <1>11, ThreadAssumption DEF IInv, FlagFirst, WorkerReturns, Goto
    <2>2. SnapshotIsAll'
      BY <1>0, <1>11, ThreadAssumption DEF IInv, SnapshotIsAll, FlagFirst, Cleared,
         WorkerReturns, Goto
    <2>3. NotArrived'
      BY <1>0, <1>11, ThreadAssumption DEF IInv, NotArrived, WorkerReturns, Goto
    <2>4. Buried'
      BY <1>0, <1>11 DEF IInv, Buried, Cleared, sid, WorkerReturns
    <2> QED BY <1>0, <2>1, <2>2, <2>3, <2>4 DEF IInv
  <1>12. ASSUME NEW r \in Requests, RemoveActive(r) PROVE IInv'
    <2>1. FlagFirst'
      BY <1>0, <1>12, ThreadAssumption DEF IInv, FlagFirst, RemoveActive, Respond
    <2>2. SnapshotIsAll'
      BY <1>0, <1>12, ThreadAssumption DEF IInv, SnapshotIsAll, FlagFirst, Cleared,
         RemoveActive, Respond
    <2>3. NotArrived'
      BY <1>0, <1>12, ThreadAssumption DEF IInv, NotArrived, RemoveActive, Respond
    <2>4. Buried'
      BY <1>0, <1>12, ThreadAssumption DEF IInv, Buried, NotArrived, sid, RemoveActive,
         Respond
    <2> QED BY <1>0, <2>1, <2>2, <2>3, <2>4 DEF IInv
  <1>13. ASSUME NEW r \in Requests, MarkRevoking(r) PROVE IInv'
    <2>1. FlagFirst'
      BY <1>0, <1>13, ThreadAssumption DEF IInv, FlagFirst, MarkRevoking, Goto, Respond,
         DropExpired, Found
    <2>2. SnapshotIsAll'
      BY <1>0, <1>13, ThreadAssumption DEF IInv, SnapshotIsAll, FlagFirst, Cleared,
         MarkRevoking, Goto, Respond, DropExpired, Found
    <2>3. NotArrived'
      BY <1>0, <1>13, ThreadAssumption DEF IInv, NotArrived, MarkRevoking, Goto, Respond,
         DropExpired, Found
    <2>4. Buried'
      BY <1>0, <1>13, ThreadAssumption DEF IInv, Buried, NotArrived, sid, MarkRevoking,
         Goto, Respond, DropExpired, Found
    <2> QED BY <1>0, <2>1, <2>2, <2>3, <2>4 DEF IInv
  <1>14. ASSUME NEW r \in Requests, TerminateSession(r) PROVE IInv'
    <2>1. FlagFirst'
      BY <1>0, <1>14, ThreadAssumption DEF IInv, FlagFirst, TerminateSession, Goto
    <2>2. SnapshotIsAll'
      BY <1>0, <1>14, ThreadAssumption DEF IInv, SnapshotIsAll, FlagFirst, Cleared,
         TerminateSession, Goto
    <2>3. NotArrived'
      BY <1>0, <1>14, ThreadAssumption DEF IInv, NotArrived, TerminateSession, Goto
    <2>4. Buried'
      BY <1>0, <1>14 DEF IInv, Buried, Cleared, sid, TerminateSession
    <2> QED BY <1>0, <2>1, <2>2, <2>3, <2>4 DEF IInv
  <1>15. ASSUME NEW r \in Requests, SendRevoke(r) PROVE IInv'
    <2>1. FlagFirst'
      BY <1>0, <1>15, ThreadAssumption DEF IInv, FlagFirst, SendRevoke, Goto
    <2>2. SnapshotIsAll'
      BY <1>0, <1>15, ThreadAssumption DEF IInv, SnapshotIsAll, FlagFirst, Cleared,
         SendRevoke, Goto
    <2>3. NotArrived'
      BY <1>0, <1>15, ThreadAssumption DEF IInv, NotArrived, SendRevoke, Goto
    <2>4. Buried'
      BY <1>0, <1>15 DEF IInv, Buried, Cleared, sid, SendRevoke
    <2> QED BY <1>0, <2>1, <2>2, <2>3, <2>4 DEF IInv
  <1>16. ASSUME NEW r \in Requests, FinishDelete(r) PROVE IInv'
    <2>1. FlagFirst'
      BY <1>0, <1>16, ThreadAssumption DEF IInv, FlagFirst, FinishDelete, Respond,
         RevokeConfirmed
    <2>2. SnapshotIsAll'
      <3>1. CASE UNCHANGED sessions
        BY <1>0, <1>16, <3>1, ThreadAssumption DEF IInv, SnapshotIsAll, Cleared, FinishDelete, Respond
      <3>2. CASE sessions' = Without({sid(r)})
        <4>1. sessions = << >> => DOMAIN sessions \ {sid(r)} = {}
          OBVIOUS
        <4>2. sessions = << >> => sessions' = << >>
          BY <3>2, <4>1, NoSessions DEF Without
        <4> QED BY <1>0, <1>16, <4>2, ThreadAssumption DEF IInv, SnapshotIsAll, Cleared, FinishDelete, Respond
      <3> QED BY <1>16, <3>1, <3>2 DEF FinishDelete
    <2>3. NotArrived'
      BY <1>0, <1>16, ThreadAssumption DEF IInv, NotArrived, FinishDelete, Respond,
         RevokeConfirmed
    <2>4. Buried'
      BY <1>0, <1>16, ThreadAssumption DEF IInv, Buried, NotArrived, sid, FinishDelete,
         Respond, RevokeConfirmed
    <2> QED BY <1>0, <2>1, <2>2, <2>3, <2>4 DEF IInv
  <1>17. ASSUME NEW t \in Threads, EvictSend(t) PROVE IInv'
    <2>1. FlagFirst'
      BY <1>0, <1>17, ThreadAssumption DEF IInv, FlagFirst, EvictSend, Goto
    <2>2. SnapshotIsAll'
      BY <1>0, <1>17, ThreadAssumption DEF IInv, SnapshotIsAll, FlagFirst, Cleared,
         EvictSend, Goto
    <2>3. NotArrived'
      BY <1>0, <1>17, ThreadAssumption DEF IInv, NotArrived, EvictSend, Goto
    <2>4. Buried'
      BY <1>0, <1>17 DEF IInv, Buried, Cleared, sid, EvictSend
    <2> QED BY <1>0, <2>1, <2>2, <2>3, <2>4 DEF IInv
  <1>18. ASSUME NEW t \in Threads, EvictTerminate(t) PROVE IInv'
    <2>1. FlagFirst'
      BY <1>0, <1>18, ThreadAssumption DEF IInv, FlagFirst, EvictTerminate, Goto, Respond
    <2>2. SnapshotIsAll'
      BY <1>0, <1>18, ThreadAssumption DEF IInv, SnapshotIsAll, FlagFirst, Cleared,
         EvictTerminate, Goto, Respond
    <2>3. NotArrived'
      BY <1>0, <1>18, ThreadAssumption DEF IInv, NotArrived, EvictTerminate, Goto, Respond
    <2>4. Buried'
      BY <1>0, <1>18, ThreadAssumption DEF IInv, Buried, NotArrived, sid, EvictTerminate,
         Goto, Respond
    <2> QED BY <1>0, <2>1, <2>2, <2>3, <2>4 DEF IInv
  <1>19. ASSUME BeginRevoke PROVE IInv'
    <2>1. FlagFirst'
      BY <1>0, <1>19, ThreadAssumption DEF IInv, FlagFirst, BeginRevoke, Goto
    <2>2. SnapshotIsAll'
      BY <1>0, <1>19, ThreadAssumption DEF IInv, SnapshotIsAll, FlagFirst, Cleared,
         BeginRevoke, Goto
    <2>3. NotArrived'
      BY <1>0, <1>19, ThreadAssumption DEF IInv, NotArrived, BeginRevoke, Goto
    <2>4. Buried'
      BY <1>0, <1>19 DEF IInv, Buried, Cleared, sid, BeginRevoke
    <2> QED BY <1>0, <2>1, <2>2, <2>3, <2>4 DEF IInv
  <1>20. ASSUME ClearSessions PROVE IInv'
    <2>1. FlagFirst'
      BY <1>0, <1>20, ThreadAssumption DEF IInv, FlagFirst, ClearSessions, Goto
    <2>2. SnapshotIsAll'
      BY <1>0, <1>20, ThreadAssumption DEF IInv, SnapshotIsAll, FlagFirst, Cleared,
         ClearSessions, Goto
    <2>3. NotArrived'
      BY <1>0, <1>20, ThreadAssumption DEF IInv, NotArrived, ClearSessions, Goto
    <2>4. Buried'
      BY <1>0, <1>20 DEF IInv, Buried, Cleared, sid, ClearSessions
    <2> QED BY <1>0, <2>1, <2>2, <2>3, <2>4 DEF IInv
  <1>21. ASSUME CollectActive PROVE IInv'
    <2>1. FlagFirst'
      BY <1>0, <1>21, ThreadAssumption DEF IInv, FlagFirst, CollectActive, Goto
    <2>2. SnapshotIsAll'
      BY <1>0, <1>21, ThreadAssumption DEF IInv, SnapshotIsAll, FlagFirst, Cleared,
         CollectActive, Goto
    <2>3. NotArrived'
      BY <1>0, <1>21, ThreadAssumption DEF IInv, NotArrived, CollectActive, Goto
    <2>4. Buried'
      BY <1>0, <1>21 DEF IInv, Buried, Cleared, sid, CollectActive
    <2> QED BY <1>0, <2>1, <2>2, <2>3, <2>4 DEF IInv
  <1>22. ASSUME RevokeCollected PROVE IInv'
    <2>1. FlagFirst'
      BY <1>0, <1>22, ThreadAssumption DEF IInv, FlagFirst, RevokeCollected, Goto
    <2>2. SnapshotIsAll'
      BY <1>0, <1>22, ThreadAssumption DEF IInv, SnapshotIsAll, FlagFirst, Cleared,
         RevokeCollected, Goto
    <2>3. NotArrived'
      BY <1>0, <1>22, ThreadAssumption DEF IInv, NotArrived, RevokeCollected, Goto
    <2>4. Buried'
      BY <1>0, <1>22 DEF IInv, Buried, Cleared, sid, RevokeCollected
    <2> QED BY <1>0, <2>1, <2>2, <2>3, <2>4 DEF IInv
  <1>23. ASSUME CloseExec PROVE IInv'
    <2>1. FlagFirst'
      BY <1>0, <1>23, ThreadAssumption DEF IInv, FlagFirst, CloseExec, Goto
    <2>2. SnapshotIsAll'
      BY <1>0, <1>23, ThreadAssumption DEF IInv, SnapshotIsAll, FlagFirst, Cleared,
         CloseExec, Goto
    <2>3. NotArrived'
      BY <1>0, <1>23, ThreadAssumption DEF IInv, NotArrived, CloseExec, Goto
    <2>4. Buried'
      BY <1>0, <1>23, ThreadAssumption DEF IInv, Buried, NotArrived, sid, CloseExec, Goto
    <2> QED BY <1>0, <2>1, <2>2, <2>3, <2>4 DEF IInv
  <1>24. ASSUME CancelAll PROVE IInv'
    <2>1. FlagFirst'
      BY <1>0, <1>24, ThreadAssumption DEF IInv, FlagFirst, CancelAll, Goto
    <2>2. SnapshotIsAll'
      BY <1>0, <1>24, ThreadAssumption DEF IInv, SnapshotIsAll, FlagFirst, Cleared,
         CancelAll, Goto
    <2>3. NotArrived'
      BY <1>0, <1>24, ThreadAssumption DEF IInv, NotArrived, CancelAll, Goto
    <2>4. Buried'
      BY <1>0, <1>24 DEF IInv, Buried, Cleared, sid, CancelAll
    <2> QED BY <1>0, <2>1, <2>2, <2>3, <2>4 DEF IInv
  <1>25. ASSUME NEW s \in Sessions, RevokeLands(s) PROVE IInv'
    <2>1. NotArrived'
      BY <1>0, <1>25, ThreadAssumption DEF IInv, NotArrived, RevokeLands
    <2>2. Buried'
      BY <1>0, <1>25, ThreadAssumption DEF IInv, Buried, NotArrived, sid, RevokeLands
    <2>3. FlagFirst' /\ SnapshotIsAll'
      BY <1>0, <1>25 DEF IInv, FlagFirst, SnapshotIsAll, Cleared, sid, RevokeLands
    <2> QED BY <1>0, <2>1, <2>2, <2>3 DEF IInv
  <1>26. ASSUME NEW r \in Requests, StartLands(r) PROVE IInv'
    <2>1. NotArrived'
      BY <1>0, <1>26, ThreadAssumption DEF IInv, NotArrived, StartLands
    <2>2. Buried'
      BY <1>0, <1>26, ThreadAssumption DEF IInv, Buried, NotArrived, sid, StartLands
    <2>3. FlagFirst' /\ SnapshotIsAll'
      BY <1>0, <1>26 DEF IInv, FlagFirst, SnapshotIsAll, Cleared, sid, StartLands
    <2> QED BY <1>0, <2>1, <2>2, <2>3 DEF IInv
  <1>27. ASSUME Tick PROVE IInv'
    <2>1. FlagFirst' /\ SnapshotIsAll' /\ NotArrived' /\ Buried'
      BY <1>0, <1>27 DEF IInv, FlagFirst, SnapshotIsAll, NotArrived, Buried, Cleared, sid,
         Tick
    <2> QED BY <1>0, <2>1 DEF IInv
  <1>28. CASE UNCHANGED vars
    BY <1>0, <1>28 DEF IInv, FlagFirst, SnapshotIsAll, Cleared, NotArrived, Buried, sid
  <1> QED
    BY <1>1, <1>2, <1>3, <1>4, <1>5, <1>6, <1>7, <1>8, <1>9, <1>10, <1>11, <1>12, <1>13,
       <1>14, <1>15, <1>16, <1>17, <1>18, <1>19, <1>20, <1>21, <1>22, <1>23, <1>24, <1>25,
       <1>26, <1>27, <1>28 DEF Next, RequestStep, RevokeStep, Threads

\* Every initial state satisfies the inductive invariant.
LEMMA InitEstablishes == Init => IInv
  <1> SUFFICES ASSUME Init PROVE IInv
    OBVIOUS
  <1>1. TypeOK
    <2>1. /\ pc \in [Threads -> Labels] /\ resp \in [Requests -> Answers]
          /\ evicted \in [Threads -> SUBSET (Sessions \X Principals)]
      BY DEF Init, Labels, Answers
    <2>2. input \in [Requests -> [method : AllMethods \cup {"unsent"}, principal : Principals,
                                  sid : Sessions \cup {None}, cid : ClientIds]]
      BY WorkloadAssumption DEF Init
    <2>3. revoked \in BOOLEAN /\ execClosed \in BOOLEAN
      BY DEF Init
    <2>4. collected \in [sessions : SUBSET Sessions, requests : SUBSET Requests, active : SUBSET Requests]
      BY DEF Init
    <2>5. sessions \in [DOMAIN sessions -> SessionRecords] /\ DOMAIN sessions = {}
      BY DEF Init
    <2>6. /\ now \in Nat /\ cancelled \subseteq Requests /\ lifecycleMu \in Threads \cup {None}
          /\ requests \subseteq Requests /\ issued \subseteq Sessions /\ active \subseteq Requests
          /\ sent \subseteq Sessions \cup {None} /\ starting \subseteq Requests
          /\ tombstones \subseteq Sessions /\ processes \subseteq Requests
      BY DEF Init
    <2> QED BY <2>1, <2>2, <2>3, <2>4, <2>5, <2>6 DEF TypeOK
  <1>2. FlagFirst /\ SnapshotIsAll /\ NotArrived /\ Buried
    BY DEF Init, FlagFirst, SnapshotIsAll, Cleared, NotArrived, Buried, Threads
  <1> QED BY <1>1, <1>2 DEF IInv

\* The inductive invariant holds in every reachable state.
THEOREM Inductive == Spec => []IInv
  BY InitEstablishes, StepPreserves, PTL DEF Spec

\* Every variable keeps its type.
THEOREM TypeCorrect == Spec => []TypeOK
  BY Inductive, PTL DEF IInv

\* lifecycle.go: nothing is published or left running after Server.Revoke, also
\* by requests that were admitted before it.
THEOREM FinalRevocation == Spec => []RevokeIsFinal
  <1>1. IInv => RevokeIsFinal
    BY DEF IInv, SnapshotIsAll, Cleared, RevokeIsFinal
  <1> QED BY <1>1, Inductive, PTL

\* serveDelete: a session whose DELETE was answered with 204 owns no process.
THEOREM DeletionComplete == Spec => []DeletedSessionHasNoProcess
  <1>1. IInv => DeletedSessionHasNoProcess
    BY DEF IInv, Buried, Deleted, DeletedSessionHasNoProcess
  <1> QED BY <1>1, Inductive, PTL

----------------------------------------------------------------------------
(***************************************************************************)
(* The workspace router, which runs in the same process and routes each    *)
(* request to the Server of its workspace: WorkspaceRouter, for any        *)
(* workspaces and any number of servers.                                  *)
(*                                                                         *)
(* A server has one owner: the route that leads to it, or the reload that  *)
(* has built it.  So whoever drops a route or gives up a reload knows the  *)
(* servers to revoke, and revokes no server another owner still has.       *)
(***************************************************************************)
RouterTypeOK ==
    /\ time \in Nat
    /\ registry \in [DOMAIN registry -> Times] /\ DOMAIN registry \subseteq Workspaces
    /\ handlers \in [DOMAIN handlers -> Servers]
    /\ expires \in [DOMAIN expires -> Times]
    /\ closed \in BOOLEAN /\ stop \in BOOLEAN /\ wake \in BOOLEAN
    /\ loop.pc \in {"check", "sleep", "done"} /\ loop = [pc |-> loop.pc, deadline |-> loop.deadline]
    /\ reload.pc \in {"idle", "building"}
    /\ reload.config \in [DOMAIN reload.config -> Times] /\ DOMAIN reload.config \subseteq Workspaces
    /\ reload.built \in [DOMAIN reload.built -> Servers]
    /\ DOMAIN reload.built \subseteq DOMAIN reload.config
    /\ reload = [pc |-> reload.pc, config |-> reload.config, built |-> reload.built]
    /\ reload.pc = "idle" => reload.built = Empty
    /\ server \in [Servers -> {"none", "starting", "runtime", "live", "closed"}]

\* A server has one owner.
OneOwner ==
    /\ \A w, v \in DOMAIN handlers : handlers[w] = handlers[v] => w = v
    /\ \A w, v \in DOMAIN reload.built : reload.built[w] = reload.built[v] => w = v
    /\ \A w \in DOMAIN handlers, v \in DOMAIN reload.built : handlers[w] # reload.built[v]

\* What is owned is live, and what is live is owned.
OwnedIsLive ==
    /\ \A w \in DOMAIN handlers : server[handlers[w]] = "live"
    /\ \A w \in DOMAIN reload.built : server[reload.built[w]] = "live"

LiveIsOwned ==
    \A s \in Servers : server[s] = "live" =>
        \/ \E w \in DOMAIN handlers : handlers[w] = s
        \/ \E w \in DOMAIN reload.built : reload.built[w] = s

\* A runtime without a server belongs to a reload that has a server to build
\* with it, and there is no other one.
RuntimeIsHeld ==
    /\ \A s \in Servers : RuntimeOf(s) => reload.pc = "building" /\ Unbuilt # {}
    /\ \A s, t \in Servers : RuntimeOf(s) /\ RuntimeOf(t) => s = t

RouterInv ==
    /\ RouterTypeOK
    /\ TablesAgree
    /\ OneOwner
    /\ OwnedIsLive
    /\ LiveIsOwned
    /\ RuntimeIsHeld

----------------------------------------------------------------------------
\* The variable tuples are expanded everywhere below.
USE DEF routerVars, tables

\* Revoked closes the servers of S and no others.
LEMMA RevokedServers ==
    ASSUME RouterTypeOK, NEW S
    PROVE  /\ Revoked(S) \in [Servers -> {"none", "starting", "runtime", "live", "closed"}]
           /\ \A s \in Servers : Revoked(S)[s] = IF s \in S THEN "closed" ELSE server[s]
  BY DEF Revoked, RouterTypeOK

\* Every step preserves the types of the variables.
LEMMA RouterTypePreserved == RouterTypeOK /\ [RouterNext]_routerVars => RouterTypeOK'
  <1> SUFFICES ASSUME RouterTypeOK, [RouterNext]_routerVars PROVE RouterTypeOK'
    OBVIOUS
  <1>0. ASSUME NEW S, Remove(S)
        PROVE  /\ registry' \in [DOMAIN registry' -> Times] /\ DOMAIN registry' \subseteq Workspaces
               /\ handlers' \in [DOMAIN handlers' -> Servers]
               /\ expires' \in [DOMAIN expires' -> Times]
               /\ server' \in [Servers -> {"none", "starting", "runtime", "live", "closed"}]
    <2>1. registry' \in [DOMAIN registry' -> Times] /\ DOMAIN registry' \subseteq Workspaces
      BY <1>0 DEF RouterTypeOK, Remove, Drop, Restrict
    <2>2. handlers' \in [DOMAIN handlers' -> Servers]
      BY <1>0 DEF RouterTypeOK, Remove, Drop, Restrict
    <2>3. expires' \in [DOMAIN expires' -> Times]
      BY <1>0 DEF RouterTypeOK, Remove, Drop, Restrict
    <2>4. server' \in [Servers -> {"none", "starting", "runtime", "live", "closed"}]
      BY <1>0, RevokedServers DEF Remove
    <2> QED BY <2>1, <2>2, <2>3, <2>4
  <1>1. ASSUME TimePasses PROVE RouterTypeOK'
    BY <1>1 DEF RouterTypeOK, TimePasses
  <1>2. ASSUME NEW config \in Partial(Workspaces, Times), LoadConfig(config) PROVE RouterTypeOK'
    <2>1. config \in [DOMAIN config -> Times] /\ DOMAIN config \subseteq Workspaces
      BY DEF Partial
    <2>2. Empty \in [DOMAIN Empty -> Servers] /\ DOMAIN Empty = {}
      BY DEF Empty
    <2>3. reload' = [pc |-> "building", config |-> config, built |-> Empty]
      BY <1>2 DEF LoadConfig
    <2> QED BY <1>2, <2>1, <2>2, <2>3 DEF RouterTypeOK, LoadConfig
  <1>3. ASSUME NEW s \in Servers, LaunchRuntime(s) PROVE RouterTypeOK'
    BY <1>3 DEF RouterTypeOK, LaunchRuntime
  <1>4. ASSUME NEW s \in Servers, RuntimeReady(s) PROVE RouterTypeOK'
    BY <1>4 DEF RouterTypeOK, RuntimeReady
  <1>5. ASSUME NEW s \in Servers, NEW w \in Workspaces, BuildServer(w, s) PROVE RouterTypeOK'
    <2>1. /\ reload'.pc = "building" /\ reload'.config = reload.config
          /\ reload'.built = Extend(reload.built, w, s)
          /\ reload' = [pc |-> reload'.pc, config |-> reload'.config, built |-> reload'.built]
      BY <1>5 DEF RouterTypeOK, BuildServer
    <2>2. /\ reload'.built \in [DOMAIN reload'.built -> Servers]
          /\ DOMAIN reload'.built = DOMAIN reload.built \cup {w}
      BY <2>1 DEF RouterTypeOK, Extend
    <2>3. w \in DOMAIN reload.config
      BY <1>5 DEF BuildServer, Unbuilt
    <2> QED BY <1>5, <2>1, <2>2, <2>3 DEF RouterTypeOK, BuildServer
  <1>6. Idle \in [pc : {"idle"}, config : {Empty}, built : {Empty}] /\ DOMAIN Empty = {}
           /\ \A T : Empty \in [DOMAIN Empty -> T]
    BY DEF Idle, Empty
  <1>7. ASSUME BuildFails PROVE RouterTypeOK'
    <2>1. server' \in [Servers -> {"none", "starting", "runtime", "live", "closed"}]
      BY <1>7, RevokedServers DEF BuildFails, BuildFailure, Discarded
    <2> QED BY <1>6, <1>7, <2>1 DEF RouterTypeOK, BuildFails
  <1>8. ASSUME ReplaceAll PROVE RouterTypeOK'
    <2>1. server' \in [Servers -> {"none", "starting", "runtime", "live", "closed"}]
      BY <1>8, RevokedServers DEF ReplaceAll, Discarded
    <2>2. /\ registry' \in [DOMAIN registry' -> Times] /\ DOMAIN registry' \subseteq Workspaces
          /\ handlers' \in [DOMAIN handlers' -> Servers]
          /\ expires' \in [DOMAIN expires' -> Times]
      BY <1>8 DEF RouterTypeOK, ReplaceAll, RegistryReplaced
    <2>3. wake' \in BOOLEAN
      BY <1>8 DEF RouterTypeOK, ReplaceAll, Signalled
    <2>4. reload' = Idle /\ UNCHANGED <<time, closed, stop, loop>>
      BY <1>8 DEF ReplaceAll
    <2>5. /\ reload'.pc = "idle" /\ reload'.config = Empty /\ reload'.built = Empty
          /\ reload' = [pc |-> reload'.pc, config |-> reload'.config, built |-> reload'.built]
      BY <2>4 DEF Idle
    <2> QED BY <1>6, <2>1, <2>2, <2>3, <2>4, <2>5 DEF RouterTypeOK
  <1>9. ASSUME NEW w \in Workspaces, LookupExpired(w) PROVE RouterTypeOK'
    BY <1>0, <1>9 DEF RouterTypeOK, LookupExpired
  <1>10. ASSUME NEW w \in Workspaces, RevokeWorkspace(w) PROVE RouterTypeOK'
    <2>1. wake' \in BOOLEAN
      BY <1>10 DEF RevokeWorkspace, Signalled
    <2> QED BY <1>0, <1>10, <2>1 DEF RouterTypeOK, RevokeWorkspace
  <1>11. ASSUME CloseTables PROVE RouterTypeOK'
    <2>1. server' \in [Servers -> {"none", "starting", "runtime", "live", "closed"}]
      BY <1>11, RevokedServers DEF CloseTables
    <2>2. closed' \in BOOLEAN
      BY <1>11 DEF CloseTables
    <2> QED BY <1>6, <1>11, <2>1, <2>2 DEF RouterTypeOK, CloseTables
  <1>12. ASSUME CloseStop PROVE RouterTypeOK'
    <2>1. stop' \in BOOLEAN
      BY <1>12 DEF CloseStop
    <2> QED BY <1>12, <2>1 DEF RouterTypeOK, CloseStop
  <1>13. ASSUME LoopCheck PROVE RouterTypeOK'
    <2>1. loop'.pc \in {"check", "sleep", "done"} /\ loop' = [pc |-> loop'.pc, deadline |-> loop'.deadline]
      BY <1>13 DEF RouterTypeOK, LoopCheck
    <2>2. UNCHANGED <<tables, server>> \/ Remove({w \in DOMAIN expires : Overdue(w)})
      BY <1>13 DEF LoopCheck
    <2> QED BY <1>0, <1>13, <2>1, <2>2 DEF RouterTypeOK, LoopCheck
  <1>14. ASSUME LoopTimer \/ LoopWake \/ LoopStop PROVE RouterTypeOK'
    <2>1. loop'.pc \in {"check", "sleep", "done"} /\ loop' = [pc |-> loop'.pc, deadline |-> loop'.deadline]
      BY <1>14 DEF RouterTypeOK, LoopTimer, LoopWake, LoopStop
    <2>2. wake' \in BOOLEAN
      BY <1>14 DEF RouterTypeOK, LoopTimer, LoopWake, LoopStop
    <2> QED BY <1>14, <2>1, <2>2 DEF RouterTypeOK, LoopTimer, LoopWake, LoopStop
  <1>15. CASE UNCHANGED routerVars
    BY <1>15 DEF RouterTypeOK
  <1> QED BY <1>1, <1>2, <1>3, <1>4, <1>5, <1>7, <1>8, <1>9, <1>10, <1>11, <1>12, <1>13, <1>14, <1>15
          DEF RouterNext, Building, Loop

\* Dropping routes and revoking their servers keeps the tables in step and the
\* other servers owned.
LEMMA RemovePreserves ==
    ASSUME RouterInv, NEW S, Remove(S), reload' = reload
    PROVE  TablesAgree' /\ OneOwner' /\ OwnedIsLive' /\ LiveIsOwned' /\ RuntimeIsHeld'
  <1> DEFINE Gone == {handlers[w] : w \in S \cap DOMAIN handlers}
  <1>1. /\ DOMAIN handlers' = DOMAIN handlers \ S /\ \A w \in DOMAIN handlers' : handlers'[w] = handlers[w]
        /\ DOMAIN expires' = DOMAIN expires \ S
    BY DEF Remove, Drop, Restrict
  <1>2. \A s \in Servers : server'[s] = IF s \in Gone THEN "closed" ELSE server[s]
    BY RevokedServers DEF RouterInv, Remove
  <1>3. TablesAgree'
    BY <1>1 DEF RouterInv, TablesAgree, Remove
  <1>4. OneOwner'
    BY <1>1 DEF RouterInv, OneOwner
  <1>5. /\ \A w \in DOMAIN handlers : w \notin S => handlers[w] \notin Gone
        /\ \A w \in DOMAIN reload.built : reload.built[w] \notin Gone
    BY DEF RouterInv, OneOwner
  <1>6. OwnedIsLive'
    BY <1>1, <1>2, <1>5 DEF RouterInv, RouterTypeOK, OwnedIsLive
  <1>7. LiveIsOwned'
    BY <1>1, <1>2 DEF RouterInv, LiveIsOwned
  <1>8. RuntimeIsHeld'
    BY <1>2 DEF RouterInv, RuntimeIsHeld, RuntimeOf, Unbuilt
  <1> QED BY <1>3, <1>4, <1>6, <1>7, <1>8

\* A step that changes neither the tables nor the reload nor a server.
LEMMA Untouched ==
    ASSUME RouterInv, UNCHANGED <<tables, reload, server>>
    PROVE  TablesAgree' /\ OneOwner' /\ OwnedIsLive' /\ LiveIsOwned' /\ RuntimeIsHeld'
  BY DEF RouterInv, TablesAgree, OneOwner, OwnedIsLive, LiveIsOwned, RuntimeIsHeld, RuntimeOf, Unbuilt

\* Every step preserves the inductive invariant.
LEMMA RouterStepPreserves == RouterInv /\ [RouterNext]_routerVars => RouterInv'
  <1> SUFFICES ASSUME RouterInv, [RouterNext]_routerVars PROVE TablesAgree' /\ OneOwner' /\ OwnedIsLive' /\ LiveIsOwned' /\ RuntimeIsHeld'
    BY RouterTypePreserved DEF RouterInv
  <1> DEFINE Goal == TablesAgree' /\ OneOwner' /\ OwnedIsLive' /\ LiveIsOwned' /\ RuntimeIsHeld'
  <1>1. CASE TimePasses \/ CloseStop \/ LoopTimer \/ LoopWake \/ LoopStop \/ UNCHANGED routerVars
    BY <1>1, Untouched DEF TimePasses, CloseStop, LoopTimer, LoopWake, LoopStop
  <1>2. ASSUME NEW config \in Partial(Workspaces, Times), LoadConfig(config) PROVE Goal
    <2>1. reload.built = Empty /\ reload'.built = Empty /\ reload'.pc = "building"
      BY <1>2 DEF RouterInv, RouterTypeOK, LoadConfig
    <2>2. UNCHANGED <<tables, server>> /\ reload.pc = "idle"
      BY <1>2 DEF LoadConfig
    <2>3. TablesAgree' /\ OneOwner' /\ OwnedIsLive' /\ LiveIsOwned'
      BY <2>1, <2>2 DEF RouterInv, TablesAgree, OneOwner, OwnedIsLive, LiveIsOwned
    <2>4. RuntimeIsHeld'
      BY <2>2 DEF RouterInv, RuntimeIsHeld, RuntimeOf
    <2> QED BY <2>3, <2>4
  <1>3. ASSUME NEW s \in Servers, LaunchRuntime(s) PROVE Goal
    <2>1. server[s] = "none" /\ server' = [server EXCEPT ![s] = "starting"] /\ reload.pc = "building"
      BY <1>3 DEF LaunchRuntime, Fresh
    <2>2. UNCHANGED <<tables, reload>>
      BY <1>3 DEF LaunchRuntime
    <2>3. OwnedIsLive'
      BY <2>1, <2>2 DEF RouterInv, RouterTypeOK, OwnedIsLive
    <2>4. LiveIsOwned'
      BY <2>1, <2>2 DEF RouterInv, RouterTypeOK, LiveIsOwned
    <2>5. Unbuilt # {} /\ \A t \in Servers : ~RuntimeOf(t)
      BY <1>3 DEF LaunchRuntime
    <2>6. RuntimeIsHeld'
      BY <2>1, <2>2, <2>5 DEF RouterInv, RouterTypeOK, RuntimeIsHeld, RuntimeOf, Unbuilt
    <2> QED BY <2>2, <2>3, <2>4, <2>6 DEF RouterInv, TablesAgree, OneOwner
  <1>4. ASSUME NEW s \in Servers, RuntimeReady(s) PROVE Goal
    <2>1. server[s] = "starting" /\ server' = [server EXCEPT ![s] = "runtime"] /\ UNCHANGED <<tables, reload>>
      BY <1>4 DEF RuntimeReady
    <2>2. OwnedIsLive'
      BY <2>1 DEF RouterInv, RouterTypeOK, OwnedIsLive
    <2>3. LiveIsOwned'
      BY <2>1 DEF RouterInv, RouterTypeOK, LiveIsOwned
    <2>4. RuntimeIsHeld'
      BY <2>1 DEF RouterInv, RouterTypeOK, RuntimeIsHeld, RuntimeOf, Unbuilt
    <2> QED BY <2>1, <2>2, <2>3, <2>4 DEF RouterInv, TablesAgree, OneOwner
  <1>5. ASSUME NEW s \in Servers, NEW w \in Workspaces, BuildServer(w, s) PROVE Goal
    <2>1. /\ server[s] # "live" /\ server' = [server EXCEPT ![s] = "live"] /\ UNCHANGED tables
          /\ reload.pc = "building" /\ reload'.pc = "building" /\ w \notin DOMAIN reload.built
      BY <1>5 DEF RouterInv, RouterTypeOK, BuildServer, Fresh, Unbuilt
    <2>2. reload'.built = Extend(reload.built, w, s)
      BY <1>5 DEF RouterInv, RouterTypeOK, BuildServer
    <2>3. /\ DOMAIN reload'.built = DOMAIN reload.built \cup {w} /\ reload'.built[w] = s
          /\ \A v \in DOMAIN reload.built : reload'.built[v] = reload.built[v]
      BY <2>1, <2>2 DEF Extend
    <2>4. /\ \A v \in DOMAIN handlers : handlers[v] # s
          /\ \A v \in DOMAIN reload.built : reload.built[v] # s
      BY <2>1 DEF RouterInv, OwnedIsLive
    <2>5. OneOwner'
      BY <2>1, <2>3, <2>4 DEF RouterInv, OneOwner
    <2>6. OwnedIsLive'
      BY <2>1, <2>3, <2>4 DEF RouterInv, RouterTypeOK, OwnedIsLive
    <2>7. LiveIsOwned'
      BY <2>1, <2>3 DEF RouterInv, RouterTypeOK, LiveIsOwned
    <2>8. \A t \in Servers : t # s => ~RuntimeOf(t)
      BY <1>5 DEF RouterInv, RuntimeIsHeld, RuntimeOf, BuildServer
    <2>9. RuntimeIsHeld'
      BY <2>1, <2>8 DEF RouterInv, RouterTypeOK, RuntimeIsHeld, RuntimeOf
    <2> QED BY <2>1, <2>5, <2>6, <2>7, <2>9 DEF RouterInv, TablesAgree
  <1>6. ASSUME UNCHANGED tables, server' = Discarded, reload' = Idle PROVE Goal
    <2>1. reload'.built = Empty /\ DOMAIN Empty = {}
      BY <1>6 DEF Idle, Empty
    <2>2. \A s \in Servers : server'[s] = IF (\E v \in DOMAIN reload.built : reload.built[v] = s) \/ RuntimeOf(s)
                                         THEN "closed" ELSE server[s]
      BY <1>6, RevokedServers DEF RouterInv, Discarded, Range
    <2>3. OneOwner'
      BY <1>6, <2>1 DEF RouterInv, OneOwner
    <2>4. OwnedIsLive'
      BY <1>6, <2>1, <2>2 DEF RouterInv, RouterTypeOK, OwnedIsLive, OneOwner, RuntimeOf
    <2>5. LiveIsOwned' /\ RuntimeIsHeld'
      BY <1>6, <2>1, <2>2 DEF RouterInv, RouterTypeOK, LiveIsOwned, RuntimeIsHeld, RuntimeOf
    <2> QED BY <1>6, <2>3, <2>4, <2>5 DEF RouterInv, TablesAgree
  <1>7. CASE BuildFails
    BY <1>6, <1>7 DEF BuildFails, BuildFailure
  <1>8. CASE ReplaceAll
    <2>1. CASE closed \/ \E w \in DOMAIN reload.config : reload.config[w] <= time
      BY <1>6, <1>8, <2>1 DEF ReplaceAll
    <2>2. CASE ~(closed \/ \E w \in DOMAIN reload.config : reload.config[w] <= time)
      <3>1. /\ registry' = reload.config /\ handlers' = reload.built /\ expires' = reload.config
            /\ server' = Revoked(Range(handlers) \ Range(reload.built)) /\ reload' = Idle
            /\ DOMAIN reload.config \subseteq DOMAIN reload.built
        BY <1>8, <2>2 DEF ReplaceAll, RegistryReplaced, Unbuilt
      <3>2. DOMAIN handlers' = DOMAIN expires'
        BY <3>1 DEF RouterInv, RouterTypeOK
      <3>3. reload'.built = Empty /\ DOMAIN Empty = {}
        BY <3>1 DEF Idle, Empty
      <3>4. \A s \in Servers : server'[s] = IF /\ \E v \in DOMAIN handlers : handlers[v] = s
                                               /\ ~\E v \in DOMAIN reload.built : reload.built[v] = s
                                           THEN "closed" ELSE server[s]
        BY <3>1, RevokedServers DEF RouterInv, Range
      <3>5. OneOwner'
        BY <3>1, <3>3 DEF RouterInv, OneOwner
      <3>6. OwnedIsLive'
        BY <3>1, <3>3, <3>4 DEF RouterInv, RouterTypeOK, OwnedIsLive
      <3>7. LiveIsOwned'
        BY <3>1, <3>4 DEF RouterInv, RouterTypeOK, LiveIsOwned
      <3>8. \A s \in Servers : ~RuntimeOf(s)
        BY <1>8 DEF RouterInv, RuntimeIsHeld, ReplaceAll
      <3>9. RuntimeIsHeld'
        BY <3>4, <3>8 DEF RuntimeIsHeld, RuntimeOf
      <3> QED BY <3>1, <3>2, <3>5, <3>6, <3>7, <3>9 DEF TablesAgree
    <2> QED BY <2>1, <2>2
  <1>9. ASSUME NEW w \in Workspaces, LookupExpired(w) \/ RevokeWorkspace(w) PROVE Goal
    BY <1>9, RemovePreserves DEF LookupExpired, RevokeWorkspace
  <1>10. CASE CloseTables
    <2>1. /\ DOMAIN handlers' = {} /\ DOMAIN expires' = {} /\ registry' = expires' /\ reload' = reload
          /\ server' = Revoked(Range(handlers))
      BY <1>10 DEF CloseTables, Empty
    <2>2. \A s \in Servers : server'[s] = IF \E v \in DOMAIN handlers : handlers[v] = s THEN "closed" ELSE server[s]
      BY <2>1, RevokedServers DEF RouterInv, Range
    <2>3. OneOwner'
      BY <2>1 DEF RouterInv, OneOwner
    <2>4. OwnedIsLive'
      BY <2>1, <2>2 DEF RouterInv, RouterTypeOK, OwnedIsLive, OneOwner
    <2>5. LiveIsOwned' /\ RuntimeIsHeld'
      BY <2>1, <2>2 DEF RouterInv, RouterTypeOK, LiveIsOwned, RuntimeIsHeld, RuntimeOf, Unbuilt
    <2> QED BY <2>1, <2>3, <2>4, <2>5 DEF TablesAgree
  <1>11. CASE LoopCheck
    <2>1. reload' = reload /\ (UNCHANGED <<tables, server>> \/ Remove({w \in DOMAIN expires : Overdue(w)}))
      BY <1>11 DEF LoopCheck
    <2> QED BY <2>1, RemovePreserves, Untouched
  <1> QED BY <1>1, <1>2, <1>3, <1>4, <1>5, <1>7, <1>8, <1>9, <1>10, <1>11 DEF RouterNext, Building, Loop

\* Every initial state satisfies the inductive invariant.
LEMMA RouterInitEstablishes == RouterInit => RouterInv
  <1> SUFFICES ASSUME RouterInit PROVE RouterInv
    OBVIOUS
  <1>1. RouterTypeOK
    <2>1. closed \in BOOLEAN /\ stop \in BOOLEAN /\ wake \in BOOLEAN
      BY DEF RouterInit
    <2>2. DOMAIN Empty = {} /\ \A T : Empty \in [DOMAIN Empty -> T]
      BY DEF Empty
    <2>3. /\ reload.pc = "idle" /\ reload.config = Empty /\ reload.built = Empty
          /\ reload = [pc |-> reload.pc, config |-> reload.config, built |-> reload.built]
      BY DEF RouterInit, Idle
    <2>4. loop.pc = "check" /\ loop = [pc |-> loop.pc, deadline |-> loop.deadline]
      BY DEF RouterInit
    <2>5. registry = Empty /\ handlers = Empty /\ expires = Empty /\ time \in Nat
      BY DEF RouterInit
    <2>6. server \in [Servers -> {"none", "starting", "runtime", "live", "closed"}]
      BY DEF RouterInit
    <2> QED BY <2>1, <2>2, <2>3, <2>4, <2>5, <2>6 DEF RouterTypeOK
  <1>2. TablesAgree
    BY DEF RouterInit, TablesAgree
  <1>3. DOMAIN handlers = {} /\ DOMAIN reload.built = {} /\ \A s \in Servers : server[s] = "none"
    BY DEF RouterInit, Idle, Empty
  <1>4. OneOwner /\ OwnedIsLive /\ LiveIsOwned /\ RuntimeIsHeld
    BY <1>3 DEF OneOwner, OwnedIsLive, LiveIsOwned, RuntimeIsHeld, RuntimeOf
  <1> QED BY <1>1, <1>2, <1>4 DEF RouterInv

\* The inductive invariant holds in every reachable state.
THEOREM RouterInductive == RouterSpec => []RouterInv
  BY RouterInitEstablishes, RouterStepPreserves, PTL DEF RouterSpec

\* Every variable keeps its type.
THEOREM RouterTypeCorrect == RouterSpec => []RouterTypeOK
  BY RouterInductive, PTL DEF RouterInv

\* The router's tables and the registry name the same workspaces with the same
\* expiry, whichever of the five operations changed them last.
THEOREM TablesInStep == RouterSpec => []TablesAgree
  BY RouterInductive, PTL DEF RouterInv

\* No failed build, refused replacement, expiry, revocation or close leaves a
\* server or its exec runtime behind, and every route leads to a live server.
THEOREM NoServerLeaked == RouterSpec => []NoLeakedServer
  <1>1. RouterInv => NoLeakedServer
    BY DEF RouterInv, OwnedIsLive, LiveIsOwned, RuntimeIsHeld, NoLeakedServer, Range
  <1> QED BY <1>1, RouterInductive, PTL

\* A closed router has no route.
ClosedIsEmpty == closed => DOMAIN handlers = {}

\* Close is complete as soon as its section under the lock is over, and stays
\* so: no request is routed, and a server is alive only if a reload that began
\* before is still building it.
ClosedServesNothing ==
    closed => /\ DOMAIN handlers = {}
              /\ \A s \in Servers : server[s] = "live" => reload.pc = "building"

\* Nothing but Close touches a closed router's tables, a reload included; this
\* is the part of CloseIsComplete that needs no fairness.
THEOREM CloseIsStable == RouterSpec => []ClosedServesNothing
  <1>1. RouterInit => ClosedIsEmpty
    BY DEF RouterInit, ClosedIsEmpty
  <1>2. ClosedIsEmpty /\ [RouterNext]_routerVars => ClosedIsEmpty'
    <2> SUFFICES ASSUME ClosedIsEmpty, [RouterNext]_routerVars PROVE ClosedIsEmpty'
      OBVIOUS
    <2>1. CASE UNCHANGED <<closed, handlers>>
      BY <2>1 DEF ClosedIsEmpty
    <2>2. CASE closed' = closed /\ ~closed
      BY <2>2 DEF ClosedIsEmpty
    <2>3. CASE CloseTables
      BY <2>3 DEF ClosedIsEmpty, CloseTables, Empty
    <2>4. CASE ReplaceAll
      BY <2>1, <2>2, <2>4 DEF ReplaceAll, tables
    <2>5. CASE LoopCheck
      BY <2>1, <2>2, <2>5 DEF LoopCheck, tables
    <2> QED
      BY <2>1, <2>2, <2>3, <2>4, <2>5 DEF RouterNext, Building, Loop, TimePasses,
         LoadConfig, LaunchRuntime, RuntimeReady, BuildServer,
         BuildFails, LookupExpired, RevokeWorkspace, CloseStop,
         LoopTimer, LoopWake, LoopStop, tables, routerVars
  <1>3. RouterInv /\ ClosedIsEmpty => ClosedServesNothing
    <2> SUFFICES ASSUME RouterInv, closed, DOMAIN handlers = {},
                        NEW s \in Servers, server[s] = "live"
                 PROVE  reload.pc = "building"
      BY DEF ClosedServesNothing, ClosedIsEmpty
    <2>1. PICK w \in DOMAIN reload.built : reload.built[w] = s
      BY DEF RouterInv, LiveIsOwned
    <2>2. DOMAIN Empty = {}
      BY DEF Empty
    <2> QED BY <2>1, <2>2 DEF RouterInv, RouterTypeOK
  <1> QED BY <1>1, <1>2, <1>3, RouterInductive, PTL DEF RouterSpec
=============================================================================
