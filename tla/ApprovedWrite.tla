--------------------------- MODULE ApprovedWrite ---------------------------
(***************************************************************************)
(* A file write from dry-run to audit completion: callWrite and            *)
(* callLegacyWrite with their client_managed variants, approval.Manager    *)
(* over the persistent replay store, and audit.Logger.                     *)
(*                                                                         *)
(* Calls run concurrently.  Each transaction of the replay store and each  *)
(* append under the logger's mutex is a step of its own, so another call,  *)
(* the clock or a crash of the Gateway may come between any two of them.   *)
(* A file is its content hash, and the ordered targets of a batch are one  *)
(* target.  The worker's commit is one step here; FileCommit models it.    *)
(***************************************************************************)
EXTENDS Naturals, FiniteSets

CONSTANTS
    Calls,        \* tools/call requests of write_file, edit or multi_edit
    Ids,          \* approval ids newID may draw
    Sessions,     \* MCP session ids
    Contents,     \* content hashes of the target
    Applying,     \* the calls with apply set; the others are dry runs
    Modes,        \* approval modes the Gateway may be configured with
    NoToken,      \* no approval_token argument
    None,         \* placeholder before a call has arrived
    Lifetime,     \* lifetime of a challenge
    MaxNow,       \* bound on the clock
    MaxTokens,    \* bound on the tokens signed
    MaxCrashes    \* bound on the restarts of the Gateway

AllModes == {"server_token", "client_managed"}

\* What a challenge and a token bind: session, operation and targets.
Claims == [id : Ids, session : Sessions, before : Contents, after : Contents,
           expires : 0..(MaxNow + Lifetime)]

ASSUME CallAssumption  == Applying \subseteq Calls
ASSUME ModeAssumption  == Modes \subseteq AllModes
ASSUME TokenAssumption == NoToken \notin Claims
ASSUME LimitAssumption ==
    Lifetime \in Nat \ {0} /\ MaxNow \in Nat /\ MaxTokens \in Nat /\ MaxCrashes \in Nat

VARIABLES
    mode,       \* cfg.ApprovalMode
    now,        \* the clock
    file,       \* content of the target
    live,       \* sessions of the running Gateway
    drawn,      \* session ids drawn so far
    crashes,    \* restarts so far
    challenges, \* bucket "challenge:approval" of the replay store
    used,       \* bucket "approval-used": id -> expiry
    registered, \* history: challenges ever registered
    tokens,     \* tokens signed by approvers
    failed,     \* Logger.failed # nil
    torn,       \* the audit file ends in a partial line
    log,        \* audit records: <<call, status, whether its line is whole>>
    pc,         \* progress of a call
    call,       \* arguments of a call and the preflight's before hash
    clock,      \* the time approval.Manager read for the call (0 when it has returned)
    status,     \* outcome of the worker ("none" when the call has been answered)
    reply,      \* answer to the client
    launched,   \* history: calls whose commit worker was started
    committed   \* history: calls whose worker replaced the file

auditVars == <<failed, torn, log>>
storeVars == <<challenges, used>>
gateVars  == <<mode, live, drawn, crashes>>
vars == <<gateVars, now, file, storeVars, registered, tokens, auditVars,
          pc, call, clock, status, reply, launched, committed>>

NoCall == [apply |-> FALSE, session |-> None, before |-> None, after |-> None, token |-> NoToken]

Init ==
    /\ mode \in Modes
    /\ now = 0
    /\ file \in Contents
    /\ live = {}
    /\ drawn = {}
    /\ crashes = 0
    /\ challenges = {}
    /\ used = << >>
    /\ registered = {}
    /\ tokens = {}
    /\ failed = FALSE
    /\ torn = FALSE
    /\ log = {}
    /\ pc = [c \in Calls |-> "idle"]
    /\ call = [c \in Calls |-> NoCall]
    /\ clock = [c \in Calls |-> 0]
    /\ status = [c \in Calls |-> "none"]
    /\ reply = [c \in Calls |-> "none"]
    /\ launched = {}
    /\ committed = {}

Goto(c, label)   == pc' = [pc EXCEPT ![c] = label]
Answer(c, value) == Goto(c, "done") /\ reply' = [reply EXCEPT ![c] = value]

\* sameBinding, or the scope comparison of authenticate.
SameBinding(a, b) == a.session = b.session /\ a.before = b.before /\ a.after = b.after

----------------------------------------------------------------------------
(* audit.Logger                                                            *)

\* record appended one line.  A line that follows a partial one is spoilt.
Appended(c, what) ==
    /\ ~failed
    /\ log' = log \cup {<<c, what, ~torn>>}
    /\ torn' = FALSE
    /\ UNCHANGED failed

\* record returned an error: the logger had failed before, or it fails now and
\* for good, with nothing, a part of the line or (Sync) all of it in the file.
NotAppended(c, what) ==
    \/ failed /\ UNCHANGED auditVars
    \/ /\ ~failed
       /\ failed' = TRUE
       /\ \/ UNCHANGED <<log, torn>>
          \/ torn' = TRUE /\ UNCHANGED log
          \/ log' = log \cup {<<c, what, ~torn>>} /\ torn' = FALSE

\* _ = s.audit.Record(event)
RecordBestEffort(c, what) == Appended(c, what) \/ NotAppended(c, what)

----------------------------------------------------------------------------
(* Faulty variants, used by no specification: each shows that a property   *)
(* can fail.                                                               *)

\* Prewrite's error is ignored.
PrewriteBestEffort(c) ==
    /\ pc[c] = "inspected"
    /\ RecordBestEffort(c, "started")
    /\ Goto(c, IF mode = "server_token" THEN "prewritten" ELSE "approved")
    /\ UNCHANGED <<gateVars, now, file, storeVars, registered, tokens, call, clock, status, reply,
                   launched, committed>>

\* Verify is not called after the record: Inspect's claims are relied on.
TrustInspect(c) ==
    /\ pc[c] = "inspected"
    /\ \/ Appended(c, "started") /\ Goto(c, "approved") /\ UNCHANGED reply
       \/ NotAppended(c, "started") /\ Answer(c, "denied")
    /\ UNCHANGED <<gateVars, now, file, storeVars, registered, tokens, call, clock, status, launched,
                   committed>>

\* validateChallengeBinding only looks for the id.
BoundById(t) == \E r \in challenges : r.id = t.id

\* The tool answers by the worker's result, whatever became of the record.
AnswerByWorker(c, recorded) == IF status[c] = "success" THEN "written" ELSE "error"

\* Take reads the challenge and leaves it to the approval-used record.
GoneByPeek(c) == {}

----------------------------------------------------------------------------
(* The environment: sessions, approvers, the clock, crashes               *)

\* A client initializes an MCP session (Gateway models the store).
OpenSession(s) ==
    /\ s \notin drawn
    /\ drawn' = drawn \cup {s}
    /\ live' = live \cup {s}
    /\ UNCHANGED <<mode, crashes, now, file, storeVars, registered, tokens, auditVars, pc, call, clock,
                   status, reply, launched, committed>>

\* Manager.Sign requires an expiry in the future, within reach.
Signable(t) == t.expires > now /\ t.expires <= now + Lifetime

\* approve: an approver signs claims that carry the random id of a challenge,
\* those of the review (which the tool cannot authenticate) or, for a legacy
\* write, any others, with an expiry of his own.
Sign(t) ==
    /\ mode = "server_token" /\ \E r \in registered : r.id = t.id
    /\ t \notin tokens /\ Cardinality(tokens) < MaxTokens
    /\ Signable(t)
    /\ tokens' = tokens \cup {t}
    /\ UNCHANGED <<gateVars, now, file, storeVars, registered, auditVars, pc, call, clock, status,
                   reply, launched, committed>>

Tick ==
    /\ now < MaxNow
    /\ now' = now + 1
    /\ UNCHANGED <<gateVars, file, storeVars, registered, tokens, auditVars, pc, call, clock, status,
                   reply, launched, committed>>

\* The Gateway process dies and is started again.  Sessions and calls are in
\* memory, workers die with it (Pdeathsig); the store and the audit file
\* stay, and the new Logger has not failed.
Crash ==
    /\ crashes < MaxCrashes
    /\ crashes' = crashes + 1
    /\ live' = {}
    /\ failed' = FALSE
    /\ pc' = [c \in Calls |-> IF pc[c] = "idle" THEN "idle" ELSE "done"]
    /\ clock' = [c \in Calls |-> 0] /\ status' = [c \in Calls |-> "none"]
    /\ UNCHANGED <<mode, drawn, now, file, storeVars, registered, tokens, torn, log, call, reply,
                   launched, committed>>

----------------------------------------------------------------------------
(* callWrite, callLegacyWrite: preflight and dry run                       *)

\* The preflight worker reads the target; the edits determine the content
\* after.  A failing or cancelled preflight is recorded and answered, and only
\* an applying call looks at its token.
Preflight(c) ==
    /\ pc[c] = "idle"
    /\ \E s \in live, a \in Contents, t \in (IF c \in Applying THEN tokens ELSE {}) \cup {NoToken} :
         call' = [call EXCEPT ![c] = [apply |-> c \in Applying, session |-> s, before |-> file,
                                      after |-> a, token |-> t]]
    /\ \/ Goto(c, "preflighted") /\ UNCHANGED <<auditVars, reply>>
       \/ Answer(c, "error") /\ RecordBestEffort(c, "error")
    /\ UNCHANGED <<gateVars, now, file, storeVars, registered, tokens, clock, status, launched, committed>>

\* The challenge a dry run registers.
NewChallenge(c, id) ==
    [id |-> id, session |-> call[c].session, before |-> call[c].before, after |-> call[c].after,
     expires |-> now + Lifetime]

\* buildApprovalReview and RegisterChallenge, either of which may fail; in
\* client_managed mode there is nothing to register.
Register(c) ==
    /\ pc[c] = "preflighted" /\ ~call[c].apply
    /\ \/ /\ mode = "server_token"
          /\ \E id \in Ids :
               /\ \A r \in registered : r.id # id
               /\ challenges' = challenges \cup {NewChallenge(c, id)}
               /\ registered' = registered \cup {NewChallenge(c, id)}
          /\ Goto(c, "registered")
       \/ mode = "client_managed" /\ Goto(c, "registered") /\ UNCHANGED <<challenges, registered>>
       \/ Goto(c, "unstored") /\ UNCHANGED <<challenges, registered>>
    /\ UNCHANGED <<gateVars, now, file, used, tokens, auditVars, call, clock, status, reply,
                   launched, committed>>

AnswerDryRun(c) ==
    /\ \/ pc[c] = "registered" /\ RecordBestEffort(c, "success") /\ Answer(c, "challenge")
       \/ pc[c] = "unstored" /\ RecordBestEffort(c, "error") /\ Answer(c, "error")
    /\ UNCHANGED <<gateVars, now, file, storeVars, registered, tokens, call, clock, status, launched,
                   committed>>

----------------------------------------------------------------------------
(* Apply: Inspect, Prewrite, Verify                                        *)

\* authenticate, with the time it read: the token is signed, not expired, not
\* too far in the future, and bound to this call.
Authentic(c, time) ==
    /\ call[c].token # NoToken
    /\ time < call[c].token.expires /\ call[c].token.expires <= time + Lifetime
    /\ SameBinding(call[c].token, call[c])

\* Peek or Take finds the challenge, unexpired at the given time.
Stored(c, time) == \E r \in challenges : r.id = call[c].token.id /\ r.expires > time

\* validateChallengeBinding
Bound(t) == \E r \in challenges : r.id = t.id /\ SameBinding(r, t) /\ t.expires <= r.expires

Inspectable(c, time) == Authentic(c, time) /\ Stored(c, time) /\ Bound(call[c].token)

\* Inspect.  expected_hash may differ from the preflight's before hash, and a
\* refusal is recorded, as is a review that cannot be built.  client_managed
\* mode does not look at the token.
Inspect(c) ==
    /\ pc[c] = "preflighted" /\ call[c].apply
    /\ \/ /\ mode = "client_managed" \/ Inspectable(c, now)
          /\ Goto(c, "inspected")
          /\ UNCHANGED <<auditVars, reply>>
       \/ RecordBestEffort(c, "denied") /\ Answer(c, "denied")
       \/ mode = "server_token" /\ RecordBestEffort(c, "error") /\ Answer(c, "error")
    /\ UNCHANGED <<gateVars, now, file, storeVars, registered, tokens, call, clock, status, launched,
                   committed>>

\* applyClientManagedEdit and applyClientManagedWrite go from the start record
\* straight to the worker.
Recorded == IF mode = "server_token" THEN "prewritten" ELSE "approved"

Prewrite(c) ==
    /\ pc[c] = "inspected"
    /\ \/ /\ Appended(c, "started")
          /\ Goto(c, Recorded)
          /\ UNCHANGED reply
       \/ NotAppended(c, "started") /\ Answer(c, "denied")
    /\ UNCHANGED <<gateVars, now, file, storeVars, registered, tokens, call, clock, status, launched,
                   committed>>

\* Verify authenticates and peeks again; the time it reads now is used for the
\* rest of the verification.
VerifyInspect(c) ==
    /\ pc[c] = "prewritten"
    /\ clock' = [clock EXCEPT ![c] = now]
    /\ \/ Inspectable(c, now) /\ Goto(c, "verifying") /\ UNCHANGED status
       \/ Goto(c, "executed") /\ status' = [status EXCEPT ![c] = "denied"]
    /\ UNCHANGED <<gateVars, now, file, storeVars, registered, tokens, auditVars, call, reply,
                   launched, committed>>

\* What Take deletes.
Gone(c) == {r \in challenges : r.id = call[c].token.id}

\* Take deletes the challenge in the transaction that reads it, before its
\* binding is checked again.  When it is missing or expired the error rolls
\* the transaction back, as an I/O error does.
VerifyTake(c) ==
    /\ pc[c] = "verifying"
    /\ \/ /\ Stored(c, clock[c])
          /\ challenges' = challenges \ Gone(c)
          /\ IF Bound(call[c].token)
             THEN Goto(c, "taken") /\ UNCHANGED status
             ELSE Goto(c, "executed") /\ status' = [status EXCEPT ![c] = "denied"]
       \/ /\ UNCHANGED challenges
          /\ Goto(c, "executed")
          /\ status' = [status EXCEPT ![c] = "denied"]
    /\ UNCHANGED <<gateVars, now, file, used, registered, tokens, auditVars, call, clock, reply,
                   launched, committed>>

\* Bolt.Consume: the record is written and expired ones are removed, against
\* the time read by this verification.
VerifyConsume(c) ==
    /\ pc[c] = "taken"
    /\ LET t == call[c].token
           current == {i \in DOMAIN used : used[i] > clock[c]}
       IN \/ /\ t.id \notin current
             /\ used' = [i \in current \cup {t.id} |-> IF i = t.id THEN t.expires ELSE used[i]]
             /\ Goto(c, "approved")
             /\ UNCHANGED status
          \/ /\ UNCHANGED used          \* already used, or the store is unavailable
             /\ Goto(c, "executed")
             /\ status' = [status EXCEPT ![c] = "denied"]
    /\ clock' = [clock EXCEPT ![c] = 0]
    /\ UNCHANGED <<gateVars, now, file, challenges, registered, tokens, auditVars, call, reply,
                   launched, committed>>

----------------------------------------------------------------------------
(* ProcessExecutor.Execute and transaction.Complete                        *)

\* A context cancelled before the launch is honoured; the capability or the
\* cgroup may fail to be made.
Launch(c) ==
    /\ pc[c] = "approved"
    /\ \/ Goto(c, "running") /\ launched' = launched \cup {c} /\ UNCHANGED status
       \/ /\ Goto(c, "executed")
          /\ status' = [status EXCEPT ![c] = "error"]
          /\ UNCHANGED launched
    /\ UNCHANGED <<gateVars, now, file, storeVars, registered, tokens, auditVars, call, clock, reply,
                   committed>>

\* The worker replaces the file if it still has the hash of the preflight.
Commit(c) ==
    /\ pc[c] = "running" /\ c \notin committed
    /\ file = call[c].before
    /\ file' = call[c].after
    /\ committed' = committed \cup {c}
    /\ UNCHANGED <<gateVars, now, storeVars, registered, tokens, auditVars, pc, call, clock, status,
                   reply, launched>>

\* It reports success, or fails before or after the replacement: a conflict, an
\* I/O error, or the hard timeout (recorded as "cancelled", here an error).
WorkerExit(c) ==
    /\ pc[c] = "running"
    /\ Goto(c, "executed")
    /\ \/ c \in committed /\ status' = [status EXCEPT ![c] = "success"]
       \/ status' = [status EXCEPT ![c] = "error"]
    /\ UNCHANGED <<gateVars, now, file, storeVars, registered, tokens, auditVars, call, clock, reply,
                   launched, committed>>

\* What the client is told, given the worker's outcome and whether the
\* terminal record was written.
ToolAnswer(c, recorded) ==
    CASE status[c] = "denied"  -> "denied"
      [] status[c] = "success" -> IF recorded THEN "written" ELSE "unconfirmed"
      [] OTHER                 -> "error"

Complete(c) ==
    /\ pc[c] = "executed"
    /\ \/ Appended(c, status[c]) /\ Answer(c, ToolAnswer(c, TRUE))
       \/ NotAppended(c, status[c]) /\ Answer(c, ToolAnswer(c, FALSE))
    /\ clock' = [clock EXCEPT ![c] = 0] /\ status' = [status EXCEPT ![c] = "none"]
    /\ UNCHANGED <<gateVars, now, file, storeVars, registered, tokens, call, launched, committed>>

----------------------------------------------------------------------------
CallStep(c) ==
    \/ Preflight(c) \/ Register(c) \/ AnswerDryRun(c)
    \/ Inspect(c) \/ Prewrite(c) \/ VerifyInspect(c) \/ VerifyTake(c) \/ VerifyConsume(c)
    \/ Launch(c) \/ Commit(c) \/ WorkerExit(c) \/ Complete(c)

Next ==
    \/ \E c \in Calls : CallStep(c)
    \/ \E s \in Sessions : OpenSession(s)
    \/ \E t \in Claims : Sign(t)
    \/ Tick \/ Crash

Spec == Init /\ [][Next]_vars
----------------------------------------------------------------------------
Logged(c, what) == \E whole \in BOOLEAN : <<c, what, whole>> \in log

\* An approval starts at most one worker, however many calls carry its token
\* at once, whatever fails between Inspect and Execute, and across restarts.
ApprovalUsedOnce ==
    mode = "server_token" =>
        \A c, d \in launched : c # d => call[c].token.id # call[d].token.id

\* Whatever an approver signed, a worker is started only for a write that an
\* earlier dry run of the same session registered under the token's id with
\* exactly these hashes.
WriteWasReviewed ==
    mode = "server_token" =>
        \A c \in launched : \E r \in registered :
            /\ r.id = call[c].token.id
            /\ SameBinding(r, call[c])
            /\ call[c].token.expires <= r.expires

\* The start record is in the audit file before the approval is consumed and
\* before the target is touched, in both modes, whatever crashes follow.
AuditPrecedesEffect ==
    /\ \A c \in launched : Logged(c, "started")
    /\ \A r \in registered \ challenges : \E c \in Calls :
          call[c].token # NoToken /\ call[c].token.id = r.id /\ Logged(c, "started")

\* A client is told that its content was written only if it was and the
\* terminal record says so; the record never says so otherwise.
AnswerAgreesWithAudit ==
    \A c \in Calls :
        /\ reply[c] = "written" => c \in committed /\ Logged(c, "success")
        /\ call[c].apply /\ Logged(c, "success") => c \in committed
        /\ reply[c] = "denied" => c \notin launched

\* The offers behind the writes that have happened.
Applied == {r \in registered : \E c \in committed : call[c].token.id = r.id}

Approvals == INSTANCE ApprovalService WITH
    Offers <- Claims, Contents <- Contents,
    required <- mode = "server_token", offered <- registered, spent <- registered \ challenges,
    applied <- Applied, file <- file

\* To the reviewer, Inspect, Prewrite, Verify, the replay store, the worker and
\* the restarts between them are the approval service: where approval is
\* required the target only ever goes from the content of a dry run's review to
\* the other content of that review, once, after the review's challenge is gone.
ImplementsApprovals == Approvals!Spec

\* audit.go, Logger.Record: "a failed/partial write permanently fails the
\* logger so a corrupt JSONL tail cannot be silently extended".
TornTailNotExtended == \A e \in log : e[3]
=============================================================================
