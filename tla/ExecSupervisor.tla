--------------------------- MODULE ExecSupervisor ---------------------------
(***************************************************************************)
(* The long-lived Exec supervisor of one workspace                         *)
(* (internal/execworker/server.go and backend_linux.go).                   *)
(*                                                                         *)
(* Every job is one authorised request served by its own goroutine; a      *)
(* launching job names the process it launches.  executionMu is a variable *)
(* because process_start holds it across a whole launch; a critical        *)
(* section of backend.mu is one step.  An operating-system process is      *)
(*   none -> running <-> stopped -> dead -> reaped                         *)
(* and its managed record is  none -> running -> exited.                   *)
(***************************************************************************)
EXTENDS Naturals, FiniteSets

CONSTANTS
    Jobs,      \* requests; also the opaque ids of the processes they launch
    Owners,    \* principal/session pairs (sessionOwner)
    NoJob,     \* executionMu is free
    Admitted   \* the operations clients send (a subset of Operations below)

ASSUME NoJobAssumption == NoJob \notin Jobs

VARIABLES
    pc,        \* progress of each job's goroutine
    op,        \* Job.Operation
    owner,     \* Job.Principal / Job.SessionID
    target,    \* Job.ProcessID
    resp,      \* the reply written to the connection
    execMu,    \* Supervisor.executionMu: the holder, or NoJob
    revoked,   \* Supervisor.revoked: the tombstones
    items,     \* linuxBackend.items: the published records
    rec,       \* processRecord.state
    timedOut,  \* processRecord.timedOut
    timer,     \* the record's time.AfterFunc timer
    os,        \* the operating-system process
    cgroup,    \* processes whose cgroup directory exists
    snap,      \* the records a session_revoke collected
    closePc,   \* progress of Supervisor.Close / linuxBackend.close
    closeSnap  \* the records close collected

jobVars   == <<pc, op, owner, target, resp, snap>>
lockVars  == <<execMu, revoked>>
procVars  == <<items, rec, timedOut, timer, os, cgroup>>
closeVars == <<closePc, closeSnap>>
vars      == <<jobVars, lockVars, procVars, closeVars>>

LaunchOps  == {"exec_run", "process_start"}
LiveOps    == {"process_stop", "debug_stop", "debug_continue", "debug_interrupt", "mem_scan"}
RecordOps  == {"process_status", "debug_status"}
Operations == LaunchOps \cup LiveOps \cup RecordOps \cup {"session_revoke"}

ASSUME AdmittedAssumption == Admitted \subseteq Operations

\* A process that can still run instructions.
Live(p) == os[p] \in {"running", "stopped"}

\* verifyProcessIdentity: /proc/<pid>/stat still shows the recorded starttime,
\* that is, the process has not been reaped.
SameIdentity(p) == os[p] \in {"running", "stopped", "dead"}

\* b.closed is set by the first critical section of close.
BackendClosed == closePc # "open"

\* main returns as soon as the listener is closed; nothing runs afterwards.
Exited == closePc = "exited"

Init ==
    /\ pc = [j \in Jobs |-> "idle"]
    /\ op = [j \in Jobs |-> "process_status"]
    /\ owner \in [Jobs -> Owners]
    /\ target = [j \in Jobs |-> j]
    /\ resp = [j \in Jobs |-> "none"]
    /\ snap = [j \in Jobs |-> {}]
    /\ execMu = NoJob
    /\ revoked = {}
    /\ items = {}
    /\ rec = [j \in Jobs |-> "none"]
    /\ timedOut = {}
    /\ timer = [j \in Jobs |-> "unset"]
    /\ os = [j \in Jobs |-> "none"]
    /\ cgroup = {}
    /\ closePc = "open"
    /\ closeSnap = {}

Goto(j, label) == pc' = [pc EXCEPT ![j] = label]

Reply(j, answer) ==
    /\ pc' = [pc EXCEPT ![j] = "done"]
    /\ resp' = [resp EXCEPT ![j] = answer]

----------------------------------------------------------------------------
(* Faulty variants of the definitions below.  No specification uses them:  *)
(* each shows that a property can fail.                                    *)

\* process_start releases executionMu between the check and the launch.
StartChecksThenUnlocks(j) ==
    /\ pc[j] = "authorized" /\ op[j] = "process_start"
    /\ execMu = NoJob
    /\ \/ owner[j] \in revoked /\ Reply(j, "error")
       \/ owner[j] \notin revoked /\ Goto(j, "executing") /\ UNCHANGED resp
    /\ UNCHANGED <<op, owner, target, snap, lockVars, procVars, closeVars>>

\* An error return of the launch forgets to unlock executionMu.
LaunchFailsLocked(j) == Reply(j, "error") /\ UNCHANGED execMu

\* The record is published without looking at the closed flag.
PublishWhenClosed(j) ==
    /\ ~Exited
    /\ pc[j] = "spawned"
    /\ items' = items \cup {j}
    /\ rec' = [rec EXCEPT ![j] = "running"]
    /\ Goto(j, "published")
    /\ UNCHANGED <<op, owner, target, resp, snap, lockVars, timedOut, timer, os, cgroup, closeVars>>

\* A catchable signal instead of SIGKILL: a suspended child does not take it.
KilledUnlessStopped(p) ==
    IF rec[p] = "running" /\ os[p] = "running"
    THEN [os EXCEPT ![p] = "dead"] ELSE os

\* process_stop answers without waiting for record.done.
StopDoesNotWait(j) ==
    /\ pc[j] = "waiting" /\ op[j] = "process_stop"
    /\ Reply(j, "ok")
    /\ UNCHANGED <<op, owner, target, snap, lockVars, procVars, closeVars>>

\* revoke deletes the records before their processes have been waited for.
RevokeDoesNotWait(j) ==
    /\ pc[j] = "joining"
    /\ items' = items \ snap[j]
    /\ Reply(j, "ok")
    /\ UNCHANGED <<op, owner, target, snap, lockVars, rec, timedOut, timer, os, cgroup, closeVars>>

----------------------------------------------------------------------------
(* handle and executeAuthorized                                            *)

\* A frame arrives.  handle either refuses it (cookie, profile, workspace,
\* job shape or capability) or passes it to executeAuthorized.
Receive(j) ==
    /\ ~Exited
    /\ pc[j] = "idle"
    /\ \/ Reply(j, "error") /\ UNCHANGED <<op, target>>
       \/ \E o \in Admitted, t \in Jobs :
            /\ o \notin LiveOps \cup RecordOps => t = j
            /\ op' = [op EXCEPT ![j] = o]
            /\ target' = [target EXCEPT ![j] = t]
            /\ Goto(j, "authorized")
            /\ UNCHANGED resp
    /\ UNCHANGED <<owner, snap, lockVars, procVars, closeVars>>

\* session_revoke records the permanent tombstone under executionMu.
RecordTombstone(j) ==
    /\ ~Exited
    /\ pc[j] = "authorized" /\ op[j] = "session_revoke"
    /\ execMu = NoJob
    /\ revoked' = revoked \cup {owner[j]}
    /\ Goto(j, "revoking")
    /\ UNCHANGED <<op, owner, target, resp, snap, execMu, procVars, closeVars>>

\* process_start keeps executionMu until its launch is over.
EnterProcessStart(j) ==
    /\ ~Exited
    /\ pc[j] = "authorized" /\ op[j] = "process_start"
    /\ execMu = NoJob
    /\ \/ /\ owner[j] \in revoked
          /\ Reply(j, "error")
          /\ UNCHANGED execMu
       \/ /\ owner[j] \notin revoked
          /\ execMu' = j
          /\ Goto(j, "executing")
          /\ UNCHANGED resp
    /\ UNCHANGED <<op, owner, target, snap, revoked, procVars, closeVars>>

\* Every other operation looks at the tombstones and releases executionMu
\* before the backend runs.
CheckTombstone(j) ==
    /\ ~Exited
    /\ pc[j] = "authorized" /\ op[j] \notin {"session_revoke", "process_start"}
    /\ execMu = NoJob
    /\ \/ owner[j] \in revoked /\ Reply(j, "error")
       \/ owner[j] \notin revoked /\ Goto(j, "executing") /\ UNCHANGED resp
    /\ UNCHANGED <<op, owner, target, snap, lockVars, procVars, closeVars>>

----------------------------------------------------------------------------
(* linuxBackend.launch                                                     *)

\* A failed launch answers with an error; process_start unlocks executionMu.
LaunchFails(j) ==
    /\ Reply(j, "error")
    /\ execMu' = IF execMu = j THEN NoJob ELSE execMu

\* Cgroup, pipe and cmd.Start; each may fail and is undone.
Spawn(j) ==
    /\ ~Exited
    /\ pc[j] = "executing" /\ op[j] \in LaunchOps
    /\ \/ LaunchFails(j) /\ UNCHANGED <<os, cgroup>>
       \/ /\ os' = [os EXCEPT ![j] = "running"]
          /\ cgroup' = cgroup \cup {j}
          /\ Goto(j, "spawned")
          /\ UNCHANGED <<resp, execMu>>
    /\ UNCHANGED <<op, owner, target, snap, revoked, items, rec, timedOut, timer, closeVars>>

\* The child is killed, waited for, and its cgroup removed when the spec
\* cannot be written, its identity cannot be read, or the backend is closed.
AbortLaunch(j) ==
    /\ ~Exited
    /\ pc[j] = "spawned"
    /\ os' = [os EXCEPT ![j] = "reaped"]
    /\ cgroup' = cgroup \ {j}
    /\ LaunchFails(j)
    /\ UNCHANGED <<op, owner, target, snap, revoked, items, rec, timedOut, timer, closeVars>>

\* The record becomes visible to revoke, close and follow-up jobs.
Publish(j) ==
    /\ ~Exited
    /\ pc[j] = "spawned"
    /\ ~BackendClosed
    /\ items' = items \cup {j}
    /\ rec' = [rec EXCEPT ![j] = "running"]
    /\ Goto(j, "published")
    /\ UNCHANGED <<op, owner, target, resp, snap, lockVars, timedOut, timer, os, cgroup, closeVars>>

\* The timeout timer is armed, the wait goroutine starts, and process_start
\* answers and releases executionMu; exec_run stays to wait for the exit.
FinishLaunch(j) ==
    /\ ~Exited
    /\ pc[j] = "published"
    /\ timer' = [timer EXCEPT ![j] = "armed"]
    /\ \/ /\ op[j] = "process_start"
          /\ execMu' = NoJob
          /\ Reply(j, "ok")
       \/ /\ op[j] = "exec_run"
          /\ Goto(j, "waiting")
          /\ UNCHANGED <<execMu, resp>>
    /\ UNCHANGED <<op, owner, target, snap, revoked, items, rec, timedOut, os, cgroup, closeVars>>

\* exec_run returns after <-record.done and forgets the record.
FinishExecRun(j) ==
    /\ ~Exited
    /\ pc[j] = "waiting" /\ op[j] = "exec_run"
    /\ rec[j] = "exited"
    /\ items' = items \ {j}
    /\ Reply(j, "ok")
    /\ UNCHANGED <<op, owner, target, snap, lockVars, rec, timedOut, timer, os, cgroup, closeVars>>

----------------------------------------------------------------------------
(* The process, its timer and its wait goroutine                           *)

\* signalRecord(SIGKILL): refused unless the record is running and the
\* identity still matches.
Killed(p) ==
    IF rec[p] = "running" /\ SameIdentity(p)
    THEN [os EXCEPT ![p] = "dead"] ELSE os

\* The child ends by itself (external: the managed program).
ProcessExits(p) ==
    /\ ~Exited
    /\ os[p] = "running"
    /\ os' = [os EXCEPT ![p] = "dead"]
    /\ UNCHANGED <<jobVars, lockVars, items, rec, timedOut, timer, cgroup, closeVars>>

\* The timer callback: flag the record under the lock, then kill it.
TimerFires(p) ==
    /\ ~Exited
    /\ timer[p] = "armed"
    /\ timer' = [timer EXCEPT ![p] = "fired"]
    /\ timedOut' = IF rec[p] = "running" THEN timedOut \cup {p} ELSE timedOut
    /\ UNCHANGED <<jobVars, lockVars, items, rec, os, cgroup, closeVars>>

TimerKills(p) ==
    /\ ~Exited
    /\ timer[p] = "fired"
    /\ timer' = [timer EXCEPT ![p] = "stopped"]
    /\ os' = Killed(p)
    /\ UNCHANGED <<jobVars, lockVars, items, rec, timedOut, cgroup, closeVars>>

\* The wait goroutine, started by FinishLaunch: cmd.Wait reaps the child.
Reap(p) ==
    /\ ~Exited
    /\ os[p] = "dead" /\ timer[p] # "unset"
    /\ os' = [os EXCEPT ![p] = "reaped"]
    /\ UNCHANGED <<jobVars, lockVars, items, rec, timedOut, timer, cgroup, closeVars>>

\* ... the timer is stopped, the cgroup removed, the record marked exited and
\* record.done closed.
MarkExited(p) ==
    /\ ~Exited
    /\ os[p] = "reaped" /\ rec[p] = "running"
    /\ timer' = [timer EXCEPT ![p] = IF @ = "armed" THEN "stopped" ELSE @]
    /\ cgroup' = cgroup \ {p}
    /\ rec' = [rec EXCEPT ![p] = "exited"]
    /\ UNCHANGED <<jobVars, lockVars, items, timedOut, os, closeVars>>

----------------------------------------------------------------------------
(* Follow-up operations on a published process                             *)

\* ownedRecord
Owned(j) == target[j] \in items /\ owner[target[j]] = owner[j]

\* ownedLiveRecord
OwnedLive(j) == Owned(j) /\ rec[target[j]] = "running" /\ SameIdentity(target[j])

\* process_status and debug_status read the record; debug_status of a running
\* record fails when the identity is gone.
ReadRecord(j) ==
    /\ ~Exited
    /\ pc[j] = "executing" /\ op[j] \in RecordOps
    /\ LET gone == op[j] = "debug_status" /\ rec[target[j]] = "running" /\ ~SameIdentity(target[j])
       IN \/ Owned(j) /\ ~gone /\ Reply(j, "ok")
          \/ (~Owned(j) \/ gone) /\ Reply(j, "error")
    /\ UNCHANGED <<op, owner, target, snap, lockVars, procVars, closeVars>>

\* process_stop, debug_signal and mem_scan first look the live record up ...
LookupLive(j) ==
    /\ ~Exited
    /\ pc[j] = "executing" /\ op[j] \in LiveOps
    /\ \/ OwnedLive(j) /\ Goto(j, "acting") /\ UNCHANGED resp
       \/ ~OwnedLive(j) /\ Reply(j, "error")
    /\ UNCHANGED <<op, owner, target, snap, lockVars, procVars, closeVars>>

\* ... process_stop then kills it and waits for record.done.
StopProcess(j) ==
    /\ ~Exited
    /\ pc[j] = "acting" /\ op[j] = "process_stop"
    /\ os' = Killed(target[j])
    /\ Goto(j, "waiting")
    /\ UNCHANGED <<op, owner, target, resp, snap, lockVars, items, rec, timedOut, timer, cgroup, closeVars>>

FinishStop(j) ==
    /\ ~Exited
    /\ pc[j] = "waiting" /\ op[j] = "process_stop"
    /\ rec[target[j]] = "exited"
    /\ Reply(j, "ok")
    /\ UNCHANGED <<op, owner, target, snap, lockVars, procVars, closeVars>>

\* debug_signal re-checks the identity under the lock.  SIGINT and SIGTERM
\* leave it to the child whether it exits (ProcessExits).
SignalProcess(j) ==
    /\ ~Exited
    /\ pc[j] = "acting" /\ op[j] \in {"debug_stop", "debug_continue", "debug_interrupt"}
    /\ LET t == target[j] IN
       \/ /\ rec[t] = "running" /\ SameIdentity(t)
          /\ os' = [os EXCEPT ![t] =
                      CASE op[j] = "debug_stop" /\ Live(t) -> "stopped"
                        [] op[j] = "debug_continue" /\ Live(t) -> "running"
                        [] OTHER -> @]
          /\ Reply(j, "ok")
       \/ /\ ~(rec[t] = "running" /\ SameIdentity(t))
          /\ UNCHANGED os
          /\ Reply(j, "error")
    /\ UNCHANGED <<op, owner, target, snap, lockVars, items, rec, timedOut, timer, cgroup, closeVars>>

\* mem_scan verifies the starttime before and after reading; the scan itself
\* may also fail.
ScanMemory(j) ==
    /\ ~Exited
    /\ pc[j] = "acting" /\ op[j] = "mem_scan"
    /\ \/ SameIdentity(target[j]) /\ Reply(j, "ok")
       \/ Reply(j, "error")
    /\ UNCHANGED <<op, owner, target, snap, lockVars, procVars, closeVars>>

----------------------------------------------------------------------------
(* linuxBackend.revoke                                                     *)

\* The owner's records are collected under the lock.
CollectOwned(j) ==
    /\ ~Exited
    /\ pc[j] = "revoking"
    /\ snap' = [snap EXCEPT ![j] = {p \in items : owner[p] = owner[j]}]
    /\ Goto(j, "killing")
    /\ UNCHANGED <<op, owner, target, resp, lockVars, procVars, closeVars>>

\* killRecord on each of them, one lock acquisition at a time; a record that
\* the loop has passed has left "running", is dead, or has been reaped.
KillOwned(j) ==
    /\ ~Exited
    /\ pc[j] = "killing"
    /\ \/ /\ \E p \in snap[j] : Live(p) /\ os' = Killed(p)
          /\ UNCHANGED pc
       \/ /\ \A p \in snap[j] : ~Live(p)
          /\ Goto(j, "joining")
          /\ UNCHANGED os
    /\ UNCHANGED <<op, owner, target, resp, snap, lockVars, items, rec, timedOut, timer, cgroup, closeVars>>

\* <-record.done for each, then the records are deleted and the job answers.
FinishRevoke(j) ==
    /\ ~Exited
    /\ pc[j] = "joining"
    /\ \A p \in snap[j] : rec[p] = "exited"
    /\ items' = items \ snap[j]
    /\ Reply(j, "ok")
    /\ UNCHANGED <<op, owner, target, snap, lockVars, rec, timedOut, timer, os, cgroup, closeVars>>

----------------------------------------------------------------------------
(* Supervisor.Close, linuxBackend.close and the end of main                *)

\* s.closed, listener.Close, then b.closed and the running records.
\* Connections accepted earlier may still deliver jobs.
BeginClose ==
    /\ closePc = "open"
    /\ closePc' = "killing"
    /\ closeSnap' = {p \in items : rec[p] = "running"}
    /\ UNCHANGED <<jobVars, lockVars, procVars>>

CloseKills ==
    /\ closePc = "killing"
    /\ \/ /\ \E p \in closeSnap : Live(p) /\ os' = Killed(p)
          /\ UNCHANGED closePc
       \/ /\ \A p \in closeSnap : ~Live(p)
          /\ closePc' = "joining"
          /\ UNCHANGED os
    /\ UNCHANGED <<jobVars, lockVars, items, rec, timedOut, timer, cgroup, closeSnap>>

CloseReturns ==
    /\ closePc = "joining"
    /\ \A p \in closeSnap : rec[p] = "exited"
    /\ closePc' = "closed"
    /\ UNCHANGED <<jobVars, lockVars, procVars, closeSnap>>

\* ListenAndServe returns as soon as Accept fails, so main may exit at any
\* moment after the listener was closed.  Every child carries Pdeathsig
\* SIGKILL; the goroutines that would remove the cgroups are gone.
MainExits ==
    /\ closePc \in {"killing", "joining", "closed"}
    /\ closePc' = "exited"
    /\ os' = [p \in Jobs |-> IF Live(p) THEN "dead" ELSE os[p]]
    /\ UNCHANGED <<jobVars, lockVars, items, rec, timedOut, timer, cgroup, closeSnap>>

----------------------------------------------------------------------------
JobStep(j) ==
    \/ RecordTombstone(j) \/ EnterProcessStart(j) \/ CheckTombstone(j)
    \/ Spawn(j) \/ AbortLaunch(j) \/ Publish(j) \/ FinishLaunch(j) \/ FinishExecRun(j)
    \/ ReadRecord(j) \/ LookupLive(j) \/ StopProcess(j) \/ FinishStop(j)
    \/ SignalProcess(j) \/ ScanMemory(j)
    \/ CollectOwned(j) \/ KillOwned(j) \/ FinishRevoke(j)

WaitStep(p) == Reap(p) \/ MarkExited(p)

TimerStep(p) == TimerFires(p) \/ TimerKills(p)

CloseStep == CloseKills \/ CloseReturns \/ MainExits

Next ==
    \/ \E j \in Jobs : Receive(j) \/ JobStep(j)
    \/ \E p \in Jobs : ProcessExits(p) \/ WaitStep(p) \/ TimerStep(p)
    \/ BeginClose \/ CloseStep

Spec == Init /\ [][Next]_vars

\* Go's scheduler runs every goroutine, the runtime fires armed timers, and a
\* goroutine queued on a sync.Mutex gets it (starvation mode): hence strong
\* fairness for the steps that need executionMu.
Fairness ==
    /\ \A j \in Jobs : /\ WF_vars(JobStep(j))
                       /\ SF_vars(RecordTombstone(j) \/ EnterProcessStart(j) \/ CheckTombstone(j))
    /\ \A p \in Jobs : WF_vars(WaitStep(p)) /\ WF_vars(TimerStep(p))
    /\ WF_vars(CloseStep)

FairSpec == Spec /\ Fairness

----------------------------------------------------------------------------
PCs == {"idle", "authorized", "executing", "spawned", "published", "waiting",
        "acting", "revoking", "killing", "joining", "done"}

\* Types of the variables.
TypeOK ==
    /\ pc \in [Jobs -> PCs]
    /\ op \in [Jobs -> Operations]
    /\ owner \in [Jobs -> Owners]
    /\ target \in [Jobs -> Jobs]
    /\ resp \in [Jobs -> {"none", "ok", "error"}]
    /\ snap \in [Jobs -> SUBSET Jobs]
    /\ execMu \in Jobs \cup {NoJob}
    /\ revoked \subseteq Owners
    /\ items \subseteq Jobs
    /\ rec \in [Jobs -> {"none", "running", "exited"}]
    /\ timedOut \subseteq Jobs
    /\ timer \in [Jobs -> {"unset", "armed", "fired", "stopped"}]
    /\ os \in [Jobs -> {"none", "running", "stopped", "dead", "reaped"}]
    /\ cgroup \subseteq Jobs
    /\ closePc \in {"open", "killing", "joining", "closed", "exited"}
    /\ closeSnap \subseteq Jobs

\* A session_revoke of o has been answered with success.
RevokeAnswered(o) ==
    \E r \in Jobs : op[r] = "session_revoke" /\ owner[r] = o /\ resp[r] = "ok"

\* executeAuthorized linearises the tombstone with process_start: once a
\* session_revoke has been answered, no background process of that session
\* is alive, whatever was being launched when it arrived.
RevokedSessionHasNoBackgroundProcess ==
    \A p \in Jobs :
        op[p] = "process_start" /\ RevokeAnswered(owner[p]) => ~Live(p)

\* README.md states that MCP session DELETE (which sends session_revoke)
\* revokes managed children.  The synchronous exec_run child is one too.
RevokedSessionHasNoManagedChild ==
    \A p \in Jobs : RevokeAnswered(owner[p]) => ~Live(p)

\* A published child stays reachable by revoke, close and process_stop for as
\* long as it lives: no table entry is dropped before the child is reaped.
NoLostChild ==
    \A p \in Jobs : rec[p] = "running" /\ SameIdentity(p) => p \in items

\* linuxBackend.close: when it has returned, the only children left are those
\* whose launch has yet to meet the closed flag and kill them.
CloseLeavesNoPublishedChild ==
    closePc = "closed" => \A p \in Jobs : Live(p) => pc[p] = "spawned"

\* process_stop and exec_run answer success only when the child is reaped and
\* its cgroup has been removed.
SuccessMeansReaped ==
    \A j \in Jobs : resp[j] = "ok" /\ op[j] \in {"process_stop", "exec_run"} =>
        os[target[j]] = "reaped" /\ target[j] \notin cgroup

\* The timeout bounds every child: a published child, suspended ones included,
\* is reaped and its record closed, unless the supervisor itself goes away.
EveryChildEnds == \A p \in Jobs : rec[p] = "running" ~> rec[p] = "exited" \/ Exited

\* No job waits for ever: not on executionMu, not on record.done.
EveryJobAnswered == \A j \in Jobs : pc[j] = "authorized" ~> pc[j] = "done" \/ Exited

----------------------------------------------------------------------------
(* What the Gateway sees of the supervisor.                                *)

Child == [p \in Jobs |->
    IF Live(p) THEN (IF op[p] = "process_start" THEN "background" ELSE "run")
               ELSE (IF os[p] = "none" THEN "absent" ELSE "gone")]

Confirmed == {o \in Owners : RevokeAnswered(o)}

Service == INSTANCE ExecService WITH
    Processes <- Jobs, Sessions <- Owners,
    child <- Child, confirmed <- Confirmed, exited <- Exited

\* The supervisor implements ExecService: whatever jobs, timers, revokes and a
\* close do to each other, no child starts twice or after the supervisor has
\* gone, a revoke is confirmed when the session's background children are
\* dead, and a confirmed revoke is final.
ImplementsService == Service!Spec
=============================================================================
