-------------------------- MODULE WorkspaceRouter --------------------------
(***************************************************************************)
(* The routes of a multi-workspace Gateway: the router's tables and its    *)
(* expiry loop (gateway/workspace_router.go), the workspace registry it    *)
(* keeps in step (workspaceregistry/registry.go), and the reload of the    *)
(* configuration file (cmd/gateway/workspaces.go).                         *)
(*                                                                         *)
(* A section under router.mu is one step.  A reload builds its servers one *)
(* after the other with no lock held; the expiry loop, requests, Revoke    *)
(* and Close run between them.  Server.Revoke is the promise that module   *)
(* Gateway checks: the server and its exec runtime are closed for good.    *)
(***************************************************************************)
EXTENDS Naturals, FiniteSets, Functions

CONSTANTS
    Workspaces, \* workspace ids
    MaxServers, \* bound on the servers built
    MaxTime     \* bound on the clock

ASSUME RouterAssumption == MaxServers \in Nat /\ MaxTime \in Nat

VARIABLES
    time,     \* router.now and registry.now
    registry, \* registry.workspaces: id -> ExpiresAt
    handlers, \* router.handlers: id -> server
    expires,  \* router.expires: id -> ExpiresAt
    closed,   \* router.closed
    stop,     \* router.stop is closed
    wake,     \* a token is in router.wake
    loop,     \* expireLoop: "check", "sleep" or "done", and the deadline it sleeps for
    reload,   \* reloadWorkspaceConfig: its progress, configuration and bindings
    server    \* each server built: "none", "starting" and "runtime" (only its exec runtime), "live" or "closed"

tables == <<registry, handlers, expires>>
routerVars == <<time, tables, closed, stop, wake, loop, reload, server>>

Servers == 1..MaxServers
Times   == 1..MaxTime
Never   == MaxTime + 1                     \* the loop sleeps without a timer
Empty   == << >>
Idle    == [pc |-> "idle", config |-> Empty, built |-> Empty]

\* Partial functions, and ones with keys removed and added.
Partial(S, T) == UNION {[D -> T] : D \in SUBSET S}
Drop(f, S)    == Restrict(f, DOMAIN f \ S)
Extend(f, k, v) == [x \in DOMAIN f \cup {k} |-> IF x = k THEN v ELSE f[x]]

\* NewWorkspaceRouter; main's first configuration is installed as a reload is.
RouterInit ==
    /\ time = 0
    /\ registry = Empty /\ handlers = Empty /\ expires = Empty
    /\ closed = FALSE /\ stop = FALSE /\ wake = FALSE
    /\ loop = [pc |-> "check", deadline |-> Never]
    /\ reload = Idle
    /\ server = [s \in Servers |-> "none"]

\* handler.Revoke() of every server of S.
Revoked(S) == [s \in Servers |-> IF s \in S THEN "closed" ELSE server[s]]

\* !expiresAt.After(now)
Overdue(w) == expires[w] <= time

----------------------------------------------------------------------------
(* Faulty variants of the definitions below.  No specification uses them:  *)
(* each shows that a property can fail.                                    *)

\* buildWorkspaceBindings returns without closing what it has built.
BuildFailureKeepsServers == server

\* ReplaceAll swaps the tables of the router and not the registry's.
RegistryNotReplaced(config) == registry

\* The channel loses the token: no signal reaches the sleeping loop.
SignalLost == wake

\* Close marks the router closed and does not stop the loop.
StopNotClosed == closed /\ ~stop /\ UNCHANGED routerVars

----------------------------------------------------------------------------
(* Reload. *)

\* LoadFile: a strict, non-empty configuration none of whose workspaces has
\* expired.  Any other is refused before anything changes.
LoadConfig(config) ==
    /\ reload.pc = "idle"
    /\ DOMAIN config # {} /\ \A w \in DOMAIN config : config[w] > time
    /\ reload' = [pc |-> "building", config |-> config, built |-> Empty]
    /\ UNCHANGED <<time, tables, closed, stop, wake, loop, server>>

Unbuilt    == DOMAIN reload.config \ DOMAIN reload.built
Fresh      == {s \in Servers : server[s] = "none" /\ \A t \in 1..(s - 1) : server[t] # "none"}
RuntimeOf(s) == server[s] \in {"starting", "runtime"}

\* factory.build of the next workspace launches the exec runtime: Launch makes
\* its directories and starts the process ...
LaunchRuntime(s) ==
    /\ reload.pc = "building" /\ Unbuilt # {} /\ s \in Fresh
    /\ ~\E t \in Servers : RuntimeOf(t)
    /\ server' = [server EXCEPT ![s] = "starting"]
    /\ UNCHANGED <<time, tables, closed, stop, wake, loop, reload>>

\* ... and waits until its socket answers.
RuntimeReady(s) ==
    /\ server[s] = "starting"
    /\ server' = [server EXCEPT ![s] = "runtime"]
    /\ UNCHANGED <<time, tables, closed, stop, wake, loop, reload>>

\* ... unless no profile fits the workspace, and then gateway.New.
BuildServer(w, s) ==
    /\ reload.pc = "building" /\ w \in Unbuilt
    /\ server[s] = "runtime" \/ (s \in Fresh /\ ~\E t \in Servers : RuntimeOf(t))
    /\ server' = [server EXCEPT ![s] = "live"]
    /\ reload' = [reload EXCEPT !.built = Extend(@, w, s)]
    /\ UNCHANGED <<time, tables, closed, stop, wake, loop>>

\* closeWorkspaceBindings, and the runtime of the server that could not be made,
\* whether Launch gives it up or build closes it.
Discarded == Revoked(Range(reload.built) \cup {s \in Servers : RuntimeOf(s)})
BuildFailure == Discarded

\* A build fails: the runtime is not made or not ready in time, or gateway.New
\* refuses.
BuildFails ==
    /\ reload.pc = "building" /\ Unbuilt # {}
    /\ server' = BuildFailure
    /\ reload' = Idle
    /\ UNCHANGED <<time, tables, closed, stop, wake, loop>>

\* signalWake; it follows the unlock at once, so it is part of the same step.
Signalled == TRUE

\* registry.ReplaceAll, called under router.mu
RegistryReplaced(config) == config

\* ReplaceAll validates the expiries again, swaps the tables and revokes every
\* server it replaces.  What it refuses, the reload closes.
ReplaceAll ==
    /\ reload.pc = "building" /\ Unbuilt = {}
    /\ IF closed \/ \E w \in DOMAIN reload.config : reload.config[w] <= time
       THEN /\ server' = Discarded
            /\ UNCHANGED <<tables, wake>>
       ELSE /\ registry' = RegistryReplaced(reload.config)
            /\ handlers' = reload.built
            /\ expires' = reload.config
            /\ server' = Revoked(Range(handlers) \ Range(reload.built))
            /\ wake' = Signalled
    /\ reload' = Idle
    /\ UNCHANGED <<time, closed, stop, loop>>

----------------------------------------------------------------------------
(* Requests, Revoke and Close. *)

\* The tables without the workspaces of S, whose servers are revoked.
Remove(S) ==
    /\ registry' = Drop(registry, S)
    /\ handlers' = Drop(handlers, S)
    /\ expires' = Drop(expires, S)
    /\ server' = Revoked({handlers[w] : w \in S \cap DOMAIN handlers})

\* What Registry.get finds expired.
Lapsed(w) == w \in DOMAIN registry /\ registry[w] <= time

\* ServeHTTP: registry.Get deletes an expired workspace, and its route goes too.
\* A request that finds its workspace leaves the tables alone; what its server
\* then does with it is module Gateway.
LookupExpired(w) ==
    /\ ~closed /\ Lapsed(w)
    /\ Remove({w})
    /\ UNCHANGED <<time, closed, stop, wake, loop, reload>>

\* Revoke
RevokeWorkspace(w) ==
    /\ ~closed /\ w \in DOMAIN registry
    /\ Remove({w})
    /\ wake' = Signalled
    /\ UNCHANGED <<time, closed, stop, loop, reload>>

\* Close, the section under router.mu ...
CloseTables ==
    /\ ~closed
    /\ closed' = TRUE
    /\ registry' = Empty /\ handlers' = Empty /\ expires' = Empty
    /\ server' = Revoked(Range(handlers))
    /\ UNCHANGED <<time, stop, wake, loop, reload>>

\* ... and close(router.stop); Close then waits for the loop.
CloseStop ==
    /\ closed /\ ~stop
    /\ stop' = TRUE
    /\ UNCHANGED <<time, tables, closed, wake, loop, reload, server>>

----------------------------------------------------------------------------
(* expireLoop. *)

\* One pass over the table: what has expired goes, the rest gives the deadline.
LoopCheck ==
    /\ loop.pc = "check"
    /\ IF closed
       THEN loop' = [loop EXCEPT !.pc = "done"] /\ UNCHANGED <<tables, server>>
       ELSE LET old  == {w \in DOMAIN expires : Overdue(w)}
                next == {expires[w] : w \in DOMAIN expires \ old}
            IN  /\ Remove(old)
                /\ loop' = [pc |-> "sleep",
                            deadline |-> IF next = {} THEN Never ELSE CHOOSE t \in next : \A u \in next : t <= u]
    /\ UNCHANGED <<time, closed, stop, wake, reload>>

LoopTimer ==
    /\ loop.pc = "sleep" /\ loop.deadline <= time
    /\ loop' = [loop EXCEPT !.pc = "check"]
    /\ UNCHANGED <<time, tables, closed, stop, wake, reload, server>>

LoopWake ==
    /\ loop.pc = "sleep" /\ wake
    /\ wake' = FALSE
    /\ loop' = [loop EXCEPT !.pc = "check"]
    /\ UNCHANGED <<time, tables, closed, stop, reload, server>>

LoopStop ==
    /\ loop.pc = "sleep" /\ stop
    /\ loop' = [loop EXCEPT !.pc = "done"]
    /\ UNCHANGED <<time, tables, closed, stop, wake, reload, server>>

TimePasses ==
    /\ time < MaxTime
    /\ time' = time + 1
    /\ UNCHANGED <<tables, closed, stop, wake, loop, reload, server>>

----------------------------------------------------------------------------

Building ==
    \/ \E s \in Servers : LaunchRuntime(s) \/ RuntimeReady(s) \/ \E w \in Workspaces : BuildServer(w, s)
    \/ BuildFails \/ ReplaceAll

Loop == LoopCheck \/ LoopTimer \/ LoopWake \/ LoopStop

RouterNext ==
    \/ TimePasses
    \/ \E config \in Partial(Workspaces, Times) : LoadConfig(config)
    \/ Building
    \/ \E w \in Workspaces : LookupExpired(w) \/ RevokeWorkspace(w)
    \/ CloseTables \/ CloseStop
    \/ Loop

RouterSpec == RouterInit /\ [][RouterNext]_routerVars

\* The loop's goroutine and the reload's run, and Close goes on once begun.
\* Nobody has to send a request, reload, revoke or close.
FairRouterSpec == RouterSpec /\ WF_routerVars(Loop) /\ WF_routerVars(Building) /\ WF_routerVars(CloseStop)

----------------------------------------------------------------------------
(* Properties. *)

\* The registry, the routes and the expiries are replaced, trimmed and cleared
\* under two locks by five operations: they always name the same workspaces
\* with the same expiry.
TablesAgree ==
    /\ DOMAIN handlers = DOMAIN expires
    /\ registry = expires

\* A server, with the exec runtime it owns, is alive only while it is routed or
\* held by a reload that has not ended: no failed build, refused replacement,
\* expiry, revocation or close leaves one behind.  And a route leads to a live one.
NoLeakedServer ==
    /\ \A s \in Servers : server[s] = "live" => s \in Range(handlers) \cup Range(reload.built)
    /\ \A s \in Servers : RuntimeOf(s) => reload.pc = "building"
    /\ \A s \in Range(handlers) : server[s] = "live"

\* A workspace does not outlive its expiry, even if nobody asks for it again:
\* the loop's timer, or the wake-up of an earlier deadline installed while it
\* sleeps, closes the server.
ExpiredIsRevoked ==
    \A s \in Servers :
        (\E w \in DOMAIN handlers : handlers[w] = s /\ Overdue(w)) ~> (server[s] = "closed")

\* After Close the loop ends and no server stays alive, not even one a reload
\* was building meanwhile.
CloseIsComplete ==
    closed ~> [](loop.pc = "done" /\ \A s \in Servers : server[s] = "live" => reload.pc = "building")
=============================================================================
