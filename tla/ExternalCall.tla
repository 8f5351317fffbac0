---------------------------- MODULE ExternalCall ----------------------------
(***************************************************************************)
(* One call of a tool that works outside the workspace, from the Gateway's *)
(* callExternal (gateway/external.go) through the executor that launches   *)
(* the worker (networkworker/client.go, remoteworker/client.go,            *)
(* execworker/client.go) to the worker itself: modules NetworkWorker and   *)
(* RemoteWorker, and the Exec supervisor as its client sees it.            *)
(*                                                                         *)
(* An upload and an SFTP write read the workspace first; a download writes *)
(* it last, through the File Worker, which other programs share.  All of   *)
(* these tools have risk L3 or L4, so each call is an audit transaction.   *)
(***************************************************************************)
EXTENDS NetworkWorker, RemoteWorker

CONSTANT Contents \* what the target of a download may hold: expected_hash values

Absent     == "absent"     \* no such file; an expected_hash that was not given
Downloaded == "downloaded" \* what this call writes

ASSUME ContentsAssumption == {Absent, Downloaded} \cap Contents = {}

VARIABLES
    op,        \* the tool called
    pc,        \* the step of the handler
    cancelled, \* the request's context is cancelled
    audit,     \* the call's audit transaction: "none", "pending" or its final status
    finish,    \* what remains to be recorded and answered
    expected,  \* the download's expected_hash
    preflight, \* the content that checksum answered
    file,      \* the download's target
    exec,      \* the supervisor's view of the job: "none", "asked", "done" or "refused"
    answer     \* the answer to the client, "none" until there is one

callVars == <<op, pc, cancelled, audit, finish, expected, preflight, file, exec, answer>>
vars     == <<callVars, net, remote>>

Ops == NetworkOps \cup RemoteOps \cup {"exec"}
NoFinish == [status |-> "none", message |-> "none", first |-> "audit"]

Init ==
    /\ op \in Ops /\ pc = "call" /\ cancelled = FALSE
    /\ audit = "none" /\ finish = NoFinish /\ answer = "none" /\ exec = "none"
    /\ file \in Contents \cup {Absent} /\ preflight = Absent
    /\ expected \in IF op = "download" THEN Contents \cup {Absent} ELSE {Absent}
    /\ \/ op \in NetworkOps /\ remote = RemoteIdle
          /\ \E p \in Policies, u \in Urls :
                net = [NetworkIdle EXCEPT !.op = op, !.policy = p, !.target = u]
       \/ op \in RemoteOps /\ net = NetworkIdle
          /\ \E p \in Profiles, q \in RemotePaths, d \in RemotePaths :
                /\ op # "sftp_rename" => d = q
                /\ remote = [RemoteIdle EXCEPT !.op = op, !.profile = p, !.path = q,
                                               !.destination = d]
       \/ op = "exec" /\ net = NetworkIdle /\ remote = RemoteIdle

----------------------------------------------------------------------------
(* Faulty variants of the definitions below.  No specification uses them:  *)
(* each shows that a property can fail.                                    *)

\* Only the tools of risk L4 are recorded before they run.
PrewriteHighRisk(recorded) ==
    /\ pc = "call" /\ pc' = "profile"
    /\ IF op \in {"web_fetch", "download", "sftp_list", "sftp_read", "exec"}
          THEN UNCHANGED audit
          ELSE recorded /\ audit' = "pending"
    /\ UNCHANGED <<op, cancelled, finish, expected, preflight, file, exec, answer, net, remote>>

\* Cancelling the request kills a worker that is replacing the file.
CommitCancellable == {"success", "timeout", "error", "cancelled"}

\* The executor waits for the worker whatever its context says.
NeverKilled == FALSE

----------------------------------------------------------------------------
(* The handler. *)

\* The handler's result: its audit status, the answer, and which of the two
\* is looked at first when the audit log fails.
Finish(status, message) ==
    /\ pc' = "finish"
    /\ finish' = [status |-> status, message |-> message, first |-> "audit"]

\* statusForError and externalWorkerError: a timeout is recorded as a
\* cancellation and answered as a timeout.
Fails(message) ==
    Finish(IF message \in {"cancelled", "timeout"} THEN "cancelled" ELSE "error", message)

\* beginExternalAudit: without a durable record nothing is done.
Begin(recorded) ==
    /\ pc = "call"
    /\ IF recorded
          THEN audit' = "pending" /\ pc' = "profile" /\ UNCHANGED answer
          ELSE answer' = "denied" /\ pc' = "done" /\ UNCHANGED audit
    /\ UNCHANGED <<op, cancelled, finish, expected, preflight, file, exec, net, remote>>

\* callNetwork and callExec look the profile up; callRemote leaves it to the
\* executor.  Then the source of the transfer is read, if there is one.
Reading == op \in {"upload", "sftp_write"}

Profile(available) ==
    /\ pc = "profile"
    /\ IF available \/ op \in RemoteOps
          THEN pc' = (IF Reading THEN "read" ELSE "launch") /\ UNCHANGED finish
          ELSE Finish("denied", "denied")
    /\ UNCHANGED <<op, cancelled, audit, expected, preflight, file, exec, answer, net, remote>>

\* readBinary: the worker answers, fails, times out or is cancelled.
ReadSource(outcome) ==
    /\ pc = "read"
    /\ outcome = "cancelled" => cancelled
    /\ IF outcome = "ok" THEN pc' = "launch" /\ UNCHANGED finish ELSE Fails(outcome)
    /\ UNCHANGED <<op, cancelled, audit, expected, preflight, file, exec, answer, net, remote>>

\* Execute of the worker's client: the context, then the request and its
\* signature (for a remote job the profile too), then the process or the
\* connection to the supervisor.
Launch(signed) ==
    /\ pc = "launch"
    /\ IF cancelled THEN Fails("cancelled") /\ UNCHANGED <<exec, net, remote>>
       ELSE IF ~signed THEN Fails("error") /\ UNCHANGED <<exec, net, remote>>
       ELSE /\ pc' = "running" /\ UNCHANGED finish
            /\ exec' = IF op = "exec" THEN "asked" ELSE exec
            /\ net' = IF op \in NetworkOps THEN [net EXCEPT !.pc = "job"] ELSE net
            /\ remote' = IF op \in RemoteOps THEN [remote EXCEPT !.pc = "job"] ELSE remote
    /\ UNCHANGED <<op, cancelled, audit, expected, preflight, file, answer>>

\* The worker process, until it is killed.
Work ==
    /\ pc = "running"
    /\ \/ NetworkStep /\ UNCHANGED remote
       \/ RemoteStep /\ UNCHANGED net
    /\ UNCHANGED callVars

\* The supervisor does the job, even when its client has stopped listening.
Supervise ==
    /\ exec = "asked" /\ exec' \in {"done", "refused"}
    /\ UNCHANGED <<op, pc, cancelled, audit, finish, expected, preflight, file, answer, net, remote>>

Succeeded == net.pc = "success" \/ remote.pc = "success" \/ exec = "done"
Errored   == net.pc = "error" \/ remote.pc = "error" \/ exec = "refused"

\* The worker has answered.  A well-formed answer of the job is handed on.
Collect(good) ==
    /\ pc = "running"
    /\ IF good THEN Succeeded ELSE Succeeded \/ Errored
    /\ CASE ~good -> Fails("error")
         [] good /\ op = "download" -> pc' = "checksum" /\ UNCHANGED finish
         [] OTHER -> Finish("success", "success")
    /\ UNCHANGED <<op, cancelled, audit, expected, preflight, file, exec, answer, net, remote>>

\* The worker's context ends and its process is killed where it is; for the
\* supervisor, the client closes the connection.  Its exit is awaited.
Killed == pc = "running"

Kill(message) ==
    /\ Killed
    /\ message = "cancelled" => cancelled
    /\ Fails(message)
    /\ UNCHANGED <<op, cancelled, audit, expected, preflight, file, exec, answer, net, remote>>

----------------------------------------------------------------------------
(* finishDownload. *)

\* The preflight: the body is what the worker said, and the target is what
\* the client expects.
Checksum(outcome) ==
    /\ pc = "checksum"
    /\ outcome = "cancelled" => cancelled
    /\ IF net.bytes > MaxBody \/ outcome = "error" THEN Fails("error") /\ UNCHANGED preflight
       ELSE IF outcome # "ok" THEN Fails(outcome) /\ UNCHANGED preflight
       ELSE /\ preflight' = file
            /\ IF expected = file THEN pc' = "write" /\ UNCHANGED finish
                                  ELSE Finish("denied", "denied")
    /\ UNCHANGED <<op, cancelled, audit, expected, file, exec, answer, net, remote>>

\* write_file is a commit: it honours a cancellation until its process starts.
StartWrite ==
    /\ pc = "write"
    /\ IF cancelled THEN Fails("cancelled") ELSE pc' = "writing" /\ UNCHANGED finish
    /\ UNCHANGED <<op, cancelled, audit, expected, preflight, file, exec, answer, net, remote>>

Written(message) ==
    /\ pc' = "finish"
    /\ finish' = [status |-> CASE message = "success" -> "success"
                               [] message \in {"cancelled", "timeout"} -> "cancelled"
                               [] OTHER -> "error",
                  message |-> message,
                  first |-> IF message = "success" THEN "audit" ELSE "message"]

\* The File Worker replaces the target if it still holds what was expected
\* (module FileCommit) and answers, or is stopped by the hard timeout, which
\* may find the file replaced already.
Replace ==
    /\ pc = "writing" /\ file = preflight /\ file' = Downloaded
    /\ UNCHANGED <<op, pc, cancelled, audit, finish, expected, preflight, exec, answer, net, remote>>

CommitOutcomes == {"success", "timeout", "error"}

EndWrite(message) ==
    /\ pc = "writing"
    /\ message = "success" => file = Downloaded
    /\ message = "cancelled" => cancelled
    /\ Written(message)
    /\ UNCHANGED <<op, cancelled, audit, expected, preflight, file, exec, answer, net, remote>>

----------------------------------------------------------------------------
(* The end of the call, and its environment. *)

\* finishExternalAudit, and the answer.  What was done is never confirmed to
\* the client unless it is in the audit log.
Answer(recorded) ==
    IF recorded \/ finish.first = "message" THEN finish.message ELSE "unconfirmed"

Complete(recorded) ==
    /\ pc = "finish"
    /\ audit' = IF recorded THEN finish.status ELSE audit
    /\ answer' = Answer(recorded)
    /\ pc' = "done"
    /\ UNCHANGED <<op, cancelled, finish, expected, preflight, file, exec, net, remote>>

\* The client cancels, its session ends, or the workspace is revoked.
Cancel ==
    /\ ~cancelled /\ pc # "done" /\ cancelled' = TRUE
    /\ UNCHANGED <<op, pc, audit, finish, expected, preflight, file, exec, answer, net, remote>>

\* Another program changes the download's target.
Edit(c) ==
    /\ op = "download" /\ pc # "done" /\ c # file /\ file # Downloaded /\ file' = c
    /\ UNCHANGED <<op, pc, cancelled, audit, finish, expected, preflight, exec, answer, net, remote>>

Outcomes == {"ok", "cancelled", "timeout", "error"}

Handle ==
    \/ \E recorded \in BOOLEAN : Begin(recorded) \/ Complete(recorded)
    \/ \E available \in BOOLEAN : Profile(available)
    \/ \E outcome \in Outcomes : ReadSource(outcome) \/ Checksum(outcome)
    \/ \E signed \in BOOLEAN : Launch(signed)
    \/ \E good \in BOOLEAN : Collect(good)
    \/ \E message \in {"cancelled", "timeout"} : Kill(message)
    \/ StartWrite
    \/ \E message \in CommitOutcomes : EndWrite(message)

Next ==
    \/ Handle
    \/ Work
    \/ Supervise
    \/ Replace
    \/ Cancel
    \/ \E c \in Contents \cup {Absent} : Edit(c)

Spec == Init /\ [][Next]_vars

\* The handler runs on, and every worker has a timeout of its own.
FairSpec == Spec /\ WF_vars(Handle)

----------------------------------------------------------------------------
(* Properties. *)

\* Nothing is dialled, sent, run, written or asked of a supervisor on behalf
\* of a call that the audit log has not durably announced.
EffectsAreAudited ==
    (\/ net.dialled # {} \/ remote.touched # {} \/ remote.ran
     \/ exec # "none" \/ file = Downloaded)
        => audit # "none"

\* A call answered as a success is in the audit log as one, and was one: the
\* body is whole and, for a download, in the workspace; the remote file holds
\* all that was sent; all the command wrote was returned.
SuccessIsTrue ==
    answer = "success" =>
        /\ audit = "success"
        /\ op \in NetworkOps => net.pc = "success" /\ net.bytes = net.size
        /\ op = "download" => file = Downloaded
        /\ op \in RemoteOps => remote.pc = "success"
        /\ op = "sftp_write" => remote.file = "written"
        /\ op = "ssh_exec" => remote.kept = remote.produced
        /\ op = "exec" => exec = "done"

\* An answer that says no holds: a call that was denied has asked nothing of
\* a server or a supervisor beyond the fetch of a download, and neither a
\* denied nor a cancelled call has changed the workspace.  A cancellation that
\* comes while the file is being replaced is too late, and is not reported.
RefusalChangesNothing ==
    /\ answer \in {"denied", "cancelled"} => file # Downloaded
    /\ answer = "denied" =>
          /\ op # "download" => net.sent = << >>
          /\ remote.touched = {} /\ ~remote.ran /\ exec = "none"

\* Every call is answered, however its worker behaves: the worker's timeout
\* kills it.
EveryCallAnswered == <>(answer # "none")
=============================================================================
