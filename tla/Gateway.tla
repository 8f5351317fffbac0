------------------------------ MODULE Gateway ------------------------------
(***************************************************************************)
(* One workspace's Gateway server: admission and revocation (lifecycle.go),*)
(* the MCP session store (session.go), the table of active tool calls, and *)
(* the HTTP handlers that use them (gateway.go, external.go).              *)
(*                                                                         *)
(* Every request is a goroutine.  lifecycleMu is a variable because        *)
(* createSession and Revoke keep it while evicted sessions are revoked at  *)
(* the Exec supervisor; the sections under sessions.mu and activeMu are    *)
(* single steps.  The supervisor is what ExecSupervisor promises: calls    *)
(* travel, may land after their sender gave up, and a revoke that has      *)
(* landed has killed the session's processes and refuses later starts.     *)
(***************************************************************************)
EXTENDS Naturals, FiniteSets

CONSTANTS
    Requests,       \* HTTP requests
    Principals,     \* authenticated callers
    Sessions,       \* MCP session ids the store may draw
    ClientIds,      \* JSON-RPC request ids
    Workloads,      \* what clients send: the method of each request, or "unsent"
    Server,         \* the thread that runs Server.Revoke
    None,           \* lifecycleMu is free
    TTL,            \* SessionTTL
    MaxSessions,    \* capacity of the session store
    MaxConcurrency, \* size of the request semaphore
    MaxNow          \* bound on the clock

AllMethods == {"initialize", "list", "commit", "start", "cancelled", "DELETE"}
Calls      == {"commit", "start"}   \* tools/call of a file write, of process_start

ASSUME ThreadAssumption == Server \notin Requests /\ None \notin Requests /\ None # Server
ASSUME WorkloadAssumption == Workloads \subseteq [Requests -> AllMethods \cup {"unsent"}]
ASSUME BoundAssumption ==
    /\ TTL \in Nat \ {0} /\ MaxSessions \in Nat \ {0}
    /\ MaxConcurrency \in Nat \ {0} /\ MaxNow \in Nat

VARIABLES
    now,         \* cfg.Now
    pc,          \* progress of each request and of Server.Revoke
    input,       \* method, principal, session id and JSON-RPC id of a request
    resp,        \* the answer
    cancelled,   \* requests whose context has been cancelled
    lifecycleMu, \* holder, or None
    revoked,     \* Server.revoked
    requests,    \* Server.requests
    issued,      \* session ids drawn so far
    sessions,    \* sessionStore.sessions: id -> principal, lastSeen, revoking
    active,      \* requests in Server.active
    evicted,     \* <<session, principal>> removed by a thread, not yet cleaned up
    collected,   \* what Revoke collected: sessions, requests, active calls
    sent,        \* session_revoke jobs under way to the supervisor
    starting,    \* process_start jobs under way to the supervisor
    tombstones,  \* sessions the supervisor has revoked
    processes,   \* requests whose background process is alive
    execClosed   \* the supervisor has been closed

requestVars == <<pc, input, resp>>
serverVars  == <<lifecycleMu, revoked, requests, collected>>
storeVars   == <<issued, sessions>>
execVars    == <<sent, starting, tombstones, processes, execClosed>>
vars == <<now, requestVars, cancelled, serverVars, storeVars, active, evicted, execVars>>

Threads == Requests \cup {Server}
Inputs  == [method : AllMethods, principal : Principals, sid : Sessions \cup {None}, cid : ClientIds]

Init ==
    /\ now = 0
    /\ pc = [t \in Threads |-> "idle"]
    /\ \E w \in Workloads, p \in Principals, c \in ClientIds :
          input = [r \in Requests |-> [method |-> w[r], principal |-> p, sid |-> None, cid |-> c]]
    /\ resp = [r \in Requests |-> "none"]
    /\ cancelled = {}
    /\ lifecycleMu = None
    /\ revoked = FALSE
    /\ requests = {}
    /\ issued = {}
    /\ sessions = << >>
    /\ active = {}
    /\ evicted = [t \in Threads |-> {}]
    /\ collected = [sessions |-> {}, requests |-> {}, active |-> {}]
    /\ sent = {}
    /\ starting = {}
    /\ tombstones = {}
    /\ processes = {}
    /\ execClosed = FALSE

method(r)    == input[r].method
principal(r) == input[r].principal
sid(r)       == input[r].sid

Goto(t, label) == pc' = [pc EXCEPT ![t] = label]

\* The handler has answered; ServeHTTP's deferred finishRequest is left.
Respond(r, status) ==
    /\ pc' = [pc EXCEPT ![r] = "finishing"]
    /\ resp' = [resp EXCEPT ![r] = status]

\* !now.Before(session.LastSeen.Add(ttl))
Expired(s) == now >= sessions[s].lastSeen + TTL

Without(S) == [s \in DOMAIN sessions \ S |-> sessions[s]]

\* What onEvict is given.
Removed(S) == {<<s, sessions[s].principal>> : s \in S}

\* The session a request names, if it is the caller's.
Found(r) == sid(r) \in DOMAIN sessions /\ sessions[sid(r)].principal = principal(r)

\* ... and no DELETE has marked it.
Usable(r) == Found(r) /\ ~sessions[sid(r)].revoking

\* activeKey
Key(r) == <<principal(r), sid(r), input[r].cid>>

\* terminateActive: the calls whose contexts it cancels.
ActiveOf(s, p) == {a \in active : sid(a) = s /\ principal(a) = p}

----------------------------------------------------------------------------
(* Faulty variants of the definitions below.  No specification uses them:  *)
(* each shows that a property can fail.                                    *)

\* createSession does not look at the revoked flag.
NeverRevoked == FALSE

\* DELETE answers without waiting for the supervisor.
RevokeUnconfirmed(s) == TRUE

\* The eviction callback returns without createSession's deferred unlock.
UnlockForgotten(t) == lifecycleMu

----------------------------------------------------------------------------
(* ServeHTTP: admission, and the end of every request                      *)

\* admit.  Session ids are 128 random bits: a client names one it was given.
Admit(r) ==
    /\ pc[r] = "idle" /\ method(r) # "unsent"
    /\ lifecycleMu = None
    /\ \/ /\ revoked
          /\ pc' = [pc EXCEPT ![r] = "done"]
          /\ resp' = [resp EXCEPT ![r] = "notfound"]
          /\ UNCHANGED <<requests, input>>
       \/ /\ ~revoked
          /\ requests' = requests \cup {r}
          /\ \E i \in Inputs :
               /\ i.method = method(r)
               /\ IF i.method = "initialize" THEN i.sid = None ELSE i.sid \in issued
               /\ input' = [input EXCEPT ![r] = i]
          /\ Goto(r, "admitted")
          /\ UNCHANGED resp
    /\ UNCHANGED <<now, cancelled, lifecycleMu, revoked, collected, storeVars, active, evicted, execVars>>

\* Origin, Accept, authentication, body, signature, decoding and protocol
\* version: each may refuse the request before it touches any state.
Refuse(r) ==
    /\ pc[r] = "admitted"
    /\ Respond(r, "error")
    /\ UNCHANGED <<now, input, cancelled, serverVars, storeVars, active, evicted, execVars>>

\* finishRequest, the deferred call of ServeHTTP.
FinishRequest(r) ==
    /\ pc[r] = "finishing"
    /\ lifecycleMu = None
    /\ requests' = requests \ {r}
    /\ Goto(r, "done")
    /\ UNCHANGED <<now, input, resp, cancelled, lifecycleMu, revoked, collected, storeVars, active,
                   evicted, execVars>>

----------------------------------------------------------------------------
(* servePost                                                               *)

\* The expired session is removed and handed to the eviction callback.
DropExpired(r) ==
    /\ sessions' = Without({sid(r)})
    /\ evicted' = [evicted EXCEPT ![r] = Removed({sid(r)})]
    /\ Goto(r, "evicting")
    /\ UNCHANGED resp

\* validateAndTouch
ValidateAndTouch(r) ==
    /\ pc[r] = "admitted" /\ method(r) \in Calls \cup {"list", "cancelled"}
    /\ \/ ~Usable(r) /\ Respond(r, "notfound") /\ UNCHANGED <<sessions, evicted>>
       \/ Usable(r) /\ Expired(sid(r)) /\ DropExpired(r)
       \/ /\ Usable(r) /\ ~Expired(sid(r))
          /\ sessions' = [sessions EXCEPT ![sid(r)].lastSeen = now]
          /\ Goto(r, "validated")
          /\ UNCHANGED <<resp, evicted>>
    /\ UNCHANGED <<now, input, cancelled, serverVars, issued, active, execVars>>

\* notifications/cancelled uses the control semaphore, which may be full, and
\* cancels the active call with the given key.
CancelNotification(r) ==
    /\ pc[r] = "validated" /\ method(r) = "cancelled"
    /\ \/ cancelled' = cancelled \cup {a \in active : Key(a) = Key(r)} /\ Respond(r, "ok")
       \/ Respond(r, "busy") /\ UNCHANGED cancelled
    /\ UNCHANGED <<now, input, serverVars, storeVars, active, evicted, execVars>>

\* Requests that hold a slot of the request semaphore.
Slots == {r \in Requests : \/ pc[r] \in {"slotted", "registered", "committing", "calling", "returning"}
                           \/ method(r) = "initialize" /\ pc[r] \in {"evicting", "terminating"}}

\* The rate limiter may refuse; the semaphore is only tried.
TakeSlot(r) ==
    /\ \/ pc[r] = "admitted" /\ method(r) = "initialize"
       \/ pc[r] = "validated" /\ method(r) # "cancelled"
    /\ \/ Cardinality(Slots) < MaxConcurrency /\ Goto(r, "slotted") /\ UNCHANGED resp
       \/ Respond(r, "busy")
    /\ UNCHANGED <<now, input, cancelled, serverVars, storeVars, active, evicted, execVars>>

\* tools/list and notifications/initialized only answer.
ListTools(r) ==
    /\ pc[r] = "slotted" /\ method(r) = "list"
    /\ Respond(r, "ok")
    /\ UNCHANGED <<now, input, cancelled, serverVars, storeVars, active, evicted, execVars>>

\* len(s.sessions) >= s.max
StoreFull(S) == Cardinality(S) >= MaxSessions

Oldest(S) == {s \in S : \A u \in S : sessions[s].lastSeen <= sessions[u].lastSeen}

\* The check createSession makes under lifecycleMu.
RevokedFlag == revoked

\* createSession and sessionStore.create: expired sessions go, then the one
\* used least recently when the store is full (it holds at most MaxSessions,
\* so one is enough; ids are random, so ties fall either way).  lifecycleMu
\* is kept until the eviction callback is done.
CreateSession(r) ==
    /\ pc[r] = "slotted" /\ method(r) = "initialize"
    /\ lifecycleMu = None
    /\ \/ /\ RevokedFlag
          /\ Respond(r, "notfound")
          /\ UNCHANGED <<storeVars, evicted, lifecycleMu>>
       \/ /\ ~RevokedFlag            \* rand.Read fails
          /\ Respond(r, "error")
          /\ UNCHANGED <<storeVars, evicted, lifecycleMu>>
       \/ /\ ~RevokedFlag
          /\ LET expired == {s \in DOMAIN sessions : Expired(s)}
                 kept    == DOMAIN sessions \ expired
             IN \E id \in Sessions \ issued,
                   victims \in IF StoreFull(kept) THEN {{s} : s \in Oldest(kept)} ELSE {{}} :
                  /\ issued' = issued \cup {id}
                  /\ sessions' = [s \in (kept \ victims) \cup {id} |->
                        IF s = id THEN [principal |-> principal(r), lastSeen |-> now, revoking |-> FALSE]
                                  ELSE sessions[s]]
                  /\ evicted' = [evicted EXCEPT ![r] = Removed(expired \cup victims)]
                  /\ IF expired \cup victims = {}
                     THEN Respond(r, "ok") /\ UNCHANGED lifecycleMu
                     ELSE Goto(r, "evicting") /\ lifecycleMu' = r /\ UNCHANGED resp
    /\ UNCHANGED <<now, input, cancelled, revoked, requests, collected, active, execVars>>

\* No active call has this key.
KeyFree(r) == \A a \in active : Key(a) # Key(r)

\* registerActive
RegisterActive(r) ==
    /\ pc[r] = "slotted" /\ method(r) \in Calls
    /\ \/ KeyFree(r) /\ active' = active \cup {r} /\ Goto(r, "registered") /\ UNCHANGED resp
       \/ ~KeyFree(r) /\ Respond(r, "error") /\ UNCHANGED active
    /\ UNCHANGED <<now, input, cancelled, serverVars, storeVars, evicted, execVars>>

\* call: validation, policy, approval and audit may still refuse; otherwise
\* the worker is launched unless the context is cancelled.  A commit worker
\* does not see later cancellations (context.WithoutCancel).
LaunchWorker(r) ==
    /\ pc[r] = "registered"
    /\ \/ Goto(r, "returning") /\ UNCHANGED starting
       \/ r \notin cancelled /\ method(r) = "commit" /\ Goto(r, "committing") /\ UNCHANGED starting
       \/ r \notin cancelled /\ method(r) = "start" /\ Goto(r, "calling") /\ starting' = starting \cup {r}
    /\ UNCHANGED <<now, input, resp, cancelled, serverVars, storeVars, active, evicted,
                   sent, tombstones, processes, execClosed>>

\* The commit worker ends, or the Exec client returns: with the answer, on
\* cancellation, or because the supervisor has gone.
WorkerReturns(r) ==
    /\ \/ pc[r] = "committing"
       \/ pc[r] = "calling" /\ (r \notin starting \/ r \in cancelled \/ execClosed)
    /\ Goto(r, "returning")
    /\ UNCHANGED <<now, input, resp, cancelled, serverVars, storeVars, active, evicted, execVars>>

\* The deferred removeActive.
RemoveActive(r) ==
    /\ pc[r] = "returning"
    /\ active' = active \ {r}
    /\ Respond(r, "ok")
    /\ UNCHANGED <<now, input, cancelled, serverVars, storeVars, evicted, execVars>>

----------------------------------------------------------------------------
(* serveDelete                                                             *)

\* markRevoking
MarkRevoking(r) ==
    /\ pc[r] = "admitted" /\ method(r) = "DELETE"
    /\ \/ ~Found(r) /\ Respond(r, "notfound") /\ UNCHANGED <<sessions, evicted>>
       \/ Found(r) /\ Expired(sid(r)) /\ DropExpired(r)
       \/ /\ Found(r) /\ ~Expired(sid(r))
          /\ sessions' = [sessions EXCEPT ![sid(r)].revoking = TRUE]
          /\ Goto(r, "marked")
          /\ UNCHANGED <<resp, evicted>>
    /\ UNCHANGED <<now, input, cancelled, serverVars, issued, active, execVars>>

\* terminateActive
TerminateSession(r) ==
    /\ pc[r] = "marked"
    /\ cancelled' = cancelled \cup ActiveOf(sid(r), principal(r))
    /\ Goto(r, "terminated")
    /\ UNCHANGED <<now, input, resp, serverVars, storeVars, active, evicted, execVars>>

\* revokeExecSessionWithTimeout: the job is sent, unless the supervisor
\* cannot be reached ...
SendRevoke(r) ==
    /\ pc[r] = "terminated"
    /\ sent' \in {sent, sent \cup {sid(r)}}
    /\ Goto(r, "revoking")
    /\ UNCHANGED <<now, input, resp, cancelled, serverVars, storeVars, active, evicted,
                   starting, tombstones, processes, execClosed>>

\* The supervisor answered the revoke with success.
RevokeConfirmed(s) == s \in tombstones

\* ... and either answers, whereupon deleteRevoked removes the session, or the
\* call fails or takes longer than a second.
FinishDelete(r) ==
    /\ pc[r] = "revoking"
    /\ \/ RevokeConfirmed(sid(r)) /\ sessions' = Without({sid(r)}) /\ Respond(r, "nocontent")
       \/ Respond(r, "unavailable") /\ UNCHANGED sessions
    /\ UNCHANGED <<now, input, cancelled, serverVars, issued, active, evicted, execVars>>

----------------------------------------------------------------------------
(* evictSessions, run by whichever thread removed the sessions             *)

\* revokeExecSessionsWithTimeout: any of the jobs may not get through.
EvictSend(t) ==
    /\ pc[t] = "evicting"
    /\ \E reached \in SUBSET {e[1] : e \in evicted[t]} : sent' = sent \cup reached
    /\ Goto(t, "terminating")
    /\ UNCHANGED <<now, input, resp, cancelled, serverVars, storeVars, active, evicted,
                   starting, tombstones, processes, execClosed>>

\* Returning from the callback, createSession unlocks; Revoke goes on.
UnlockAfterEvict(t) == IF lifecycleMu = t /\ t # Server THEN None ELSE lifecycleMu

\* After the answers or the timeout, terminateActive for each session.
EvictTerminate(t) ==
    /\ pc[t] = "terminating"
    /\ \E e \in evicted[t] :
         /\ cancelled' = cancelled \cup ActiveOf(e[1], e[2])
         /\ evicted' = [evicted EXCEPT ![t] = @ \ {e}]
         /\ \/ evicted[t] # {e} /\ UNCHANGED <<pc, resp, lifecycleMu>>
            \/ /\ evicted[t] = {e}
               /\ lifecycleMu' = UnlockAfterEvict(t)
               /\ IF t = Server
                  THEN Goto(t, "clearing") /\ UNCHANGED resp
                  ELSE Respond(t, IF method(t) = "initialize" THEN "ok" ELSE "notfound")
    /\ UNCHANGED <<now, input, revoked, requests, collected, storeVars, active, execVars>>

----------------------------------------------------------------------------
(* Server.Revoke                                                           *)

\* The flag, and sessionStore.snapshot, which drops expired sessions.
BeginRevoke ==
    /\ pc[Server] = "idle"
    /\ lifecycleMu = None
    /\ lifecycleMu' = Server
    /\ revoked' = TRUE
    /\ LET expired == {s \in DOMAIN sessions : Expired(s)}
       IN /\ sessions' = Without(expired)
          /\ evicted' = [evicted EXCEPT ![Server] = Removed(expired)]
          /\ collected' = [collected EXCEPT !.sessions = DOMAIN sessions \ expired]
          /\ Goto(Server, IF expired = {} THEN "clearing" ELSE "evicting")
    /\ UNCHANGED <<now, input, resp, cancelled, requests, issued, active, execVars>>

\* sessions.clear, the cancel functions of admitted requests, unlock.
ClearSessions ==
    /\ pc[Server] = "clearing"
    /\ sessions' = << >>
    /\ collected' = [collected EXCEPT !.requests = requests]
    /\ lifecycleMu' = None
    /\ Goto(Server, "collecting")
    /\ UNCHANGED <<now, input, resp, cancelled, revoked, requests, issued, active, evicted, execVars>>

CollectActive ==
    /\ pc[Server] = "collecting"
    /\ collected' = [collected EXCEPT !.active = active]
    /\ Goto(Server, "revoking")
    /\ UNCHANGED <<now, input, resp, cancelled, lifecycleMu, revoked, requests, storeVars, active,
                   evicted, execVars>>

RevokeCollected ==
    /\ pc[Server] = "revoking"
    /\ \E reached \in SUBSET collected.sessions : sent' = sent \cup reached
    /\ Goto(Server, "closing")
    /\ UNCHANGED <<now, input, resp, cancelled, serverVars, storeVars, active, evicted,
                   starting, tombstones, processes, execClosed>>

\* execCloser.Close, after the answers or the timeout.
CloseExec ==
    /\ pc[Server] = "closing"
    /\ execClosed' = TRUE
    /\ processes' = {}
    /\ Goto(Server, "cancelling")
    /\ UNCHANGED <<now, input, resp, cancelled, serverVars, storeVars, active, evicted,
                   sent, starting, tombstones>>

CancelAll ==
    /\ pc[Server] = "cancelling"
    /\ cancelled' = cancelled \cup collected.requests \cup collected.active
    /\ Goto(Server, "done")
    /\ UNCHANGED <<now, input, resp, serverVars, storeVars, active, evicted, execVars>>

----------------------------------------------------------------------------
(* The Exec supervisor (see ExecSupervisor) and the clock                  *)

\* A session_revoke is carried out, whether or not its sender still waits.
RevokeLands(s) ==
    /\ s \in sent /\ ~execClosed
    /\ sent' = sent \ {s}
    /\ tombstones' = tombstones \cup {s}
    /\ processes' = {r \in processes : sid(r) # s}
    /\ UNCHANGED <<now, requestVars, cancelled, serverVars, storeVars, active, evicted,
                   starting, execClosed>>

\* A process_start is carried out, or refused by the tombstone.
StartLands(r) ==
    /\ r \in starting /\ ~execClosed
    /\ starting' = starting \ {r}
    /\ processes' = IF sid(r) \in tombstones THEN processes ELSE processes \cup {r}
    /\ UNCHANGED <<now, requestVars, cancelled, serverVars, storeVars, active, evicted,
                   sent, tombstones, execClosed>>

Tick ==
    /\ now < MaxNow
    /\ now' = now + 1
    /\ UNCHANGED <<requestVars, cancelled, serverVars, storeVars, active, evicted, execVars>>

----------------------------------------------------------------------------
RequestStep(r) ==
    \/ Refuse(r) \/ FinishRequest(r)
    \/ ValidateAndTouch(r) \/ CancelNotification(r) \/ TakeSlot(r) \/ ListTools(r)
    \/ CreateSession(r) \/ RegisterActive(r) \/ LaunchWorker(r) \/ WorkerReturns(r) \/ RemoveActive(r)
    \/ MarkRevoking(r) \/ TerminateSession(r) \/ SendRevoke(r) \/ FinishDelete(r)
    \/ EvictSend(r) \/ EvictTerminate(r)

RevokeStep ==
    \/ EvictSend(Server) \/ EvictTerminate(Server)
    \/ ClearSessions \/ CollectActive \/ RevokeCollected \/ CloseExec \/ CancelAll

Next ==
    \/ \E r \in Requests : Admit(r) \/ RequestStep(r) \/ StartLands(r)
    \/ \E s \in Sessions : RevokeLands(s)
    \/ BeginRevoke \/ RevokeStep
    \/ Tick

Spec == Init /\ [][Next]_vars

\* Goroutines are scheduled, the supervisor answers (EveryJobAnswered of
\* ExecSupervisor), and the bounded waits end.  lifecycleMu is taken finitely
\* often, so weak fairness is enough.
Fairness ==
    /\ \A r \in Requests : WF_vars(RequestStep(r)) /\ WF_vars(StartLands(r))
    /\ WF_vars(RevokeStep)

FairSpec == Spec /\ Fairness

----------------------------------------------------------------------------
\* lifecycle.go: an initialize admitted before revocation publishes no session
\* after it, and every request admitted before it has been cancelled once
\* Revoke has returned.
RevokeIsFinal ==
    /\ pc[Server] \in {"collecting", "revoking", "closing", "cancelling", "done"} => sessions = << >>
    /\ pc[Server] = "done" => requests \subseteq cancelled

\* A DELETE of the session has been answered with 204.
Deleted(s) == \E d \in Requests : method(d) = "DELETE" /\ sid(d) = s /\ resp[d] = "nocontent"

\* After a DELETE answered with 204 the session owns no background process,
\* also none started by a call that was on its way when the DELETE came.
DeletedSessionHasNoProcess == \A r \in processes : ~Deleted(sid(r))

\* Every admitted request is answered: no wait on lifecycleMu, on the
\* eviction callback or on the supervisor is endless.
EveryRequestAnswered == \A r \in Requests : pc[r] = "admitted" ~> pc[r] = "done"
=============================================================================
