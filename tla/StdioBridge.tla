---------------------------- MODULE StdioBridge ----------------------------
(***************************************************************************)
(* The stdio bridge (cmd/stdio-bridge/bridge.go): one goroutine scans the  *)
(* client's lines and queues a job for each, worker goroutines post the    *)
(* jobs to the Gateway and write the answers to stdout.                    *)
(*                                                                         *)
(* A line is named by its number, and so is the job made of it.  The three *)
(* channels are FIFO and filled in line order: a queue is the set of its   *)
(* waiting jobs, taken smallest first.  Steps are the sections between the *)
(* points where a goroutine waits or another one can look: the snapshot of *)
(* the session, the HTTP exchange, the write, abortLifecycle, finish.      *)
(***************************************************************************)
EXTENDS Naturals, Sequences, FiniteSets, FiniteSetsExt

CONSTANTS
    MaxLines,       \* bound on the lines of a script
    Ids,            \* JSON-RPC ids
    NoId,           \* the line has no id
    Scripts,        \* what the client may send: sequences of lines, each a kind and an id
    MaxConcurrency, \* workers of the job queue
    MaxPending,     \* capacity of the job queue
    MaxControl      \* maxControlPending

Kinds == {"initialize", "initialized", "call", "cancel", "invalid"}

ASSUME BoundAssumption == MaxLines \in Nat /\ {MaxConcurrency, MaxPending, MaxControl} \subseteq Nat \ {0}
ASSUME ScriptAssumption ==
    /\ NoId \notin Ids
    /\ \A s \in Scripts : s \in Seq([kind : Kinds, id : Ids \cup {NoId}]) /\ Len(s) <= MaxLines

VARIABLES
    reader,    \* the scan loop: "scan", "sending", "stopped" or "returned"
    msg,       \* the client's lines
    read,      \* how many of them have been read
    pc,        \* progress of each job
    cause,     \* why a job's context is done: context.Cause
    init,      \* bridgeJob.initialization, by the line of its initialize; 0 is nil
    answers,   \* lines written to stdout in answer to a line
    inflight,  \* id -> the job that holds it, or 0
    forwarded, \* jobs whose inflight entry has cancelForwarded
    session,   \* sessionState, initialization and its initializedSeen
    shutdown,  \* Run's context is cancelled
    broken,    \* protocolOutput.err is set
    accepted   \* history: the lifecycle messages the Gateway has accepted

worldVars == <<msg, shutdown, broken>>
scanVars  == <<reader, read>>
jobVars   == <<pc, cause, init>>
tableVars == <<inflight, forwarded>>
vars == <<worldVars, scanVars, jobVars, tableVars, answers, session, accepted>>

Lines == 1..MaxLines
Read  == 1..read

\* newBridge: a configured session id starts the bridge in an initialized session.
Init ==
    /\ msg \in Scripts
    /\ reader = "scan" /\ read = 0
    /\ pc = [j \in Lines |-> "unread"]
    /\ cause = [j \in Lines |-> "none"]
    /\ init = [j \in Lines |-> 0]
    /\ answers = [j \in Lines |-> 0]
    /\ inflight = [i \in Ids |-> 0] /\ forwarded = {}
    /\ \E configured \in BOOLEAN :
          /\ session = [state |-> IF configured THEN "initialized" ELSE "uninitialized",
                        init |-> 0, seen |-> FALSE]
          /\ accepted = IF configured THEN {"initialize", "initialized"} ELSE {}
    /\ shutdown = FALSE /\ broken = FALSE

kind(j)      == msg[j].kind
id(j)        == msg[j].id
Lifecycle(j) == kind(j) \in {"initialize", "initialized"}
\* message.idPresent, of the lines that become requests
Request(j)   == kind(j) \in {"initialize", "call"} /\ id(j) # NoId

\* The channel a job travels through, and its workers.
Channel(j) == CASE kind(j) = "cancel" -> "control"
                [] kind(j) = "initialized" -> "lifecycle"
                [] OTHER -> "jobs"
Workers(c) == IF c = "jobs" THEN MaxConcurrency ELSE 1
Queued(c)  == {j \in Read : pc[j] = "queued" /\ Channel(j) = c}
Busy(c)    == {j \in Read : /\ pc[j] \in {"waiting", "sent", "replying", "failing", "aborting", "finishing"}
                            /\ Channel(j) = c}

\* The states in which a job's context is still consulted.
Pending == {"queued", "sending", "waiting", "sent"}

Goto(j, label) == pc' = [pc EXCEPT ![j] = label]

\* protocolOutput.writeLine: nothing is written after the first error.
Answer(j) == answers' = IF broken THEN answers ELSE [answers EXCEPT ![j] = @ + 1]

\* fail: what is left of execute once a job has failed.  A notification is
\* only logged.
fail(j) == CASE kind(j) = "initialize" -> "failing"
             [] kind(j) = "initialized" -> "aborting"
             [] kind(j) = "call" /\ Request(j) -> "replying"
             [] OTHER -> "finishing"

\* transitionSessionLocked(sessionFailed)
Failed(s) == [s EXCEPT !.state = "failed", !.init = 0, !.seen = FALSE]

failInitialization(j) ==
    IF session.state = "initializing" /\ session.init = init[j] THEN Failed(session) ELSE session

\* A job without an initialization fails whatever session there is.
failInitialized(j) ==
    IF session.state = "failed" \/ (init[j] # 0 /\ session.init # init[j])
    THEN session ELSE Failed(session)

completeInitialization(j) ==
    IF session.state = "initializing" /\ session.init = init[j]
    THEN [session EXCEPT !.state = "waiting"] ELSE session

completeInitialized(j) ==
    IF init[j] # 0 /\ session.state = "waiting" /\ session.init = init[j]
    THEN [state |-> "initialized", init |-> 0, seen |-> FALSE] ELSE session

----------------------------------------------------------------------------
(* Faulty variants of the definitions below.  No specification uses them:  *)
(* each shows that a property can fail.                                    *)

\* Ordinary requests do not wait for notifications/initialized.
IdentityBeforeInitialized(j) ==
    \/ kind(j) = "initialize"
    \/ session.state \in {"waiting", "initialized"}

\* rejectOverloaded does not abort the initialization it was given.
OverloadedKeepsSession(j, s) == s

\* A cancelled request is answered at once, and again by its worker.
CancelAnswers(t) == [answers EXCEPT ![t] = @ + 1]

\* The wait for the session does not look at the job's context.
WaitForever(j) == FALSE

----------------------------------------------------------------------------
(* The scan loop. *)

line == read + 1

\* scanner.Scan returns a line of one of the kinds, and Run goes on.
Scan(kinds) ==
    /\ reader = "scan" /\ line \in DOMAIN msg
    /\ kind(line) \in kinds
    /\ read' = line
    /\ UNCHANGED worldVars

\* The loop answers a line itself: a failing write ends the loop.
ReplyAtOnce == Answer(line) /\ reader' = IF broken THEN "stopped" ELSE reader

\* The line makes no job.
Dropped == Goto(line, "done") /\ UNCHANGED <<cause, init, tableVars, accepted>>

\* Not a JSON object: answered with a null id.
ReadInvalid ==
    /\ ~shutdown /\ Scan({"invalid"})
    /\ ReplyAtOnce /\ Dropped
    /\ UNCHANGED session

\* What handleCancellation writes to stdout: nothing, the cancelled job answers.
CancelReply(t) == answers

\* handleCancellation: the job that holds the id is cancelled once and the
\* notification is forwarded, unless the control queue is full.
ReadCancel ==
    /\ ~shutdown /\ Scan({"cancel"})
    /\ LET t == IF id(line) \in Ids THEN inflight[id(line)] ELSE 0
       IN  IF t = 0 \/ t \in forwarded
           THEN Goto(line, "done") /\ UNCHANGED <<cause, forwarded, answers>>
           ELSE /\ cause' = [cause EXCEPT ![t] = IF @ = "none" THEN "cancelled" ELSE @]
                /\ forwarded' = forwarded \cup {t}
                /\ Goto(line, IF Cardinality(Queued("control")) = MaxControl THEN "done" ELSE "queued")
                /\ answers' = CancelReply(t)
    /\ UNCHANGED <<reader, init, inflight, session, accepted>>

\* newJob: the id is held by an unfinished job.
Duplicate == id(line) \in Ids /\ inflight[id(line)] # 0

ReadDuplicate ==
    /\ ~shutdown /\ Scan({"initialize", "initialized", "call"}) /\ Duplicate
    /\ ReplyAtOnce /\ Dropped
    /\ UNCHANGED session

\* What rejectOverloaded leaves of s, the session after the line's own begin.
OverloadedSession(j, s) == IF kind(j) = "initialize" THEN Failed(s) ELSE s

\* jobs <- job, or rejectOverloaded when the queue is full.
Enqueue(s) ==
    \/ /\ Cardinality(Queued("jobs")) < MaxPending
       /\ Goto(line, "queued")
       /\ inflight' = IF id(line) \in Ids THEN [inflight EXCEPT ![id(line)] = line] ELSE inflight
       /\ session' = s
       /\ UNCHANGED <<reader, answers>>
    \/ /\ Cardinality(Queued("jobs")) = MaxPending
       /\ Goto(line, "done")
       /\ session' = OverloadedSession(line, s)
       /\ IF id(line) \in Ids THEN ReplyAtOnce ELSE UNCHANGED <<reader, answers>>
       /\ UNCHANGED inflight

\* beginInitialization accepts an initialize with an id and a safe protocol
\* version, in an uninitialized session.
ReadInitialize ==
    /\ ~shutdown /\ Scan({"initialize"}) /\ ~Duplicate
    /\ id(line) # NoId /\ session.state = "uninitialized"
    /\ init' = [init EXCEPT ![line] = line]
    /\ Enqueue([state |-> "initializing", init |-> line, seen |-> FALSE])
    /\ UNCHANGED <<cause, forwarded, accepted>>

\* ... and refuses every other one; the parameters may be bad in any state.
RefuseInitialize ==
    /\ ~shutdown /\ Scan({"initialize"}) /\ ~Duplicate
    /\ ReplyAtOnce /\ Dropped
    /\ UNCHANGED session

\* beginInitialized: the sessions in which the notification is sent on.
Awaited == \/ session.state \in {"initializing", "waiting"} /\ ~session.seen
           \/ session.state = "initialized"

LifecycleRoom == Queued("lifecycle") = {}

\* The notification waits for room in the lifecycle queue, and the scan with it.
ReadInitialized ==
    /\ ~shutdown /\ Scan({"initialized"})
    /\ id(line) = NoId /\ Awaited
    /\ init' = [init EXCEPT ![line] = session.init]
    /\ session' = [session EXCEPT !.seen = session.init # 0]
    /\ Goto(line, IF LifecycleRoom THEN "queued" ELSE "sending")
    /\ reader' = IF LifecycleRoom THEN "scan" ELSE "sending"
    /\ UNCHANGED <<cause, tableVars, answers, accepted>>

\* ... and is dropped otherwise: before initialize it fails the session.
RefuseInitialized ==
    /\ ~shutdown /\ Scan({"initialized"}) /\ ~Duplicate
    /\ id(line) # NoId \/ ~Awaited
    /\ session' = IF id(line) = NoId /\ session.state = "uninitialized" THEN Failed(session) ELSE session
    /\ Dropped
    /\ UNCHANGED <<reader, answers>>

SendInitialized(j) ==
    /\ reader = "sending" /\ pc[j] = "sending" /\ LifecycleRoom
    /\ Goto(j, "queued")
    /\ reader' = "scan"
    /\ UNCHANGED <<worldVars, read, cause, init, tableVars, answers, session, accepted>>

ReadCall ==
    /\ ~shutdown /\ Scan({"call"}) /\ ~Duplicate
    /\ Enqueue(session)
    /\ UNCHANGED <<cause, init, forwarded, accepted>>

\* The bridge shuts down while the loop waits for room, or after it has read a
\* line and before it has queued it: the job is given up without an answer.
AbandonSend(j) ==
    /\ shutdown /\ reader = "sending" /\ pc[j] = "sending"
    /\ session' = failInitialized(j)
    /\ Goto(j, "done")
    /\ reader' = "stopped"
    /\ UNCHANGED <<worldVars, read, cause, init, tableVars, answers, accepted>>

AbandonLine ==
    /\ shutdown /\ Scan({"initialize", "initialized", "call", "cancel"})
    /\ kind(line) = "cancel" \/ ~Duplicate
    /\ session' = IF \/ kind(line) = "initialize" /\ id(line) # NoId /\ session.state = "uninitialized"
                     \/ kind(line) = "initialized" /\ id(line) = NoId /\ Awaited
                  THEN Failed(session) ELSE session
    /\ reader' = "stopped"
    /\ Dropped
    /\ UNCHANGED answers

\* cancelAll: the jobs that hold an id are cancelled.
cancelAll(reason) ==
    [j \in Lines |-> IF cause[j] = "none" /\ \E i \in Ids : inflight[i] = j THEN reason ELSE cause[j]]

\* End of input, a closed stdin or a read error; after a read error that is
\* not the shutdown's, cancelAll.
Stop ==
    /\ reader = "scan"
    /\ reader' = "stopped"
    /\ \/ UNCHANGED cause
       \/ ~shutdown /\ cause' = cancelAll("scan")
    /\ UNCHANGED <<worldVars, read, pc, init, tableVars, answers, session, accepted>>

\* workers.Wait
Return ==
    /\ reader = "stopped"
    /\ \A j \in Read : pc[j] = "done"
    /\ reader' = "returned"
    /\ UNCHANGED <<worldVars, read, jobVars, tableVars, answers, session, accepted>>

----------------------------------------------------------------------------
(* The workers: execute. *)

\* A worker takes the next job of its channel.
Start(j) ==
    /\ pc[j] = "queued"
    /\ j = Min(Queued(Channel(j)))
    /\ Cardinality(Busy(Channel(j))) < Workers(Channel(j))
    /\ Goto(j, "waiting")
    /\ UNCHANGED <<worldVars, scanVars, cause, init, tableVars, answers, session, accepted>>

\* requestIdentity: the session lets the job go ...
HasIdentity(j) ==
    \/ kind(j) = "initialize"
    \/ session.state = "initialized"
    \/ session.state = "waiting" /\ kind(j) = "initialized" /\ session.init = init[j]

\* ... or makes it wait, until the session changes or the job's context is done.
GivesUp(j) == ~HasIdentity(j) /\ session.state \in {"initializing", "waiting"} /\ cause[j] # "none"

requestIdentity(j) ==
    /\ pc[j] = "waiting"
    /\ \/ HasIdentity(j) /\ Goto(j, "sent")
       \/ /\ ~HasIdentity(j) /\ session.state \in {"uninitialized", "failed"}
          /\ Goto(j, fail(j))
       \/ GivesUp(j) /\ Goto(j, fail(j))
    /\ UNCHANGED <<worldVars, scanVars, cause, init, tableVars, answers, session, accepted>>

\* The Gateway answers.  An initialize or initialized it accepts moves the
\* session.
InitializeAccepted(j) ==
    /\ kind(j) = "initialize"
    /\ session' = completeInitialization(j)
    /\ accepted' = accepted \cup {"initialize"}
    /\ Goto(j, "replying")

InitializedAccepted(j) ==
    /\ kind(j) = "initialized"
    /\ session' = completeInitialized(j)
    /\ accepted' = accepted \cup {"initialized"}
    /\ Goto(j, "finishing")

\* Any other answer, good or bad, is passed on to a request or turned into an
\* error, and fails a lifecycle message.
OtherAnswer(j) == Goto(j, fail(j)) /\ UNCHANGED <<session, accepted>>

Respond(j) ==
    /\ pc[j] = "sent"
    /\ InitializeAccepted(j) \/ InitializedAccepted(j) \/ OtherAnswer(j)
    /\ UNCHANGED <<worldVars, scanVars, cause, init, tableVars, answers>>

\* client.Do returns an error because of the job's context.  When the bridge
\* is shutting down nothing is written.
RoundTripEnds(j) ==
    /\ pc[j] = "sent" /\ cause[j] # "none"
    /\ Goto(j, IF cause[j] # "shutdown" THEN fail(j)
               ELSE IF Lifecycle(j) THEN "aborting" ELSE "finishing")
    /\ UNCHANGED <<worldVars, scanVars, cause, init, tableVars, answers, session, accepted>>

\* writeRemote, writeError or writeLine
Reply(j) ==
    /\ pc[j] \in {"replying", "failing"}
    /\ Answer(j)
    /\ Goto(j, IF pc[j] = "failing" THEN "aborting" ELSE "finishing")
    /\ UNCHANGED <<worldVars, scanVars, cause, init, tableVars, session, accepted>>

\* The deferred abortLifecycle.
abortLifecycle(j) ==
    /\ pc[j] = "aborting"
    /\ session' = IF kind(j) = "initialize" THEN failInitialization(j) ELSE failInitialized(j)
    /\ Goto(j, "finishing")
    /\ UNCHANGED <<worldVars, scanVars, cause, init, tableVars, answers, accepted>>

\* The job gives its id back; nothing refers to it any more.
finish(j) ==
    /\ pc[j] = "finishing"
    /\ inflight' = [i \in Ids |-> IF inflight[i] = j THEN 0 ELSE inflight[i]]
    /\ forwarded' = forwarded \ {j}
    /\ cause' = [cause EXCEPT ![j] = "none"]
    /\ init' = [init EXCEPT ![j] = 0]
    /\ Goto(j, "done")
    /\ UNCHANGED <<worldVars, scanVars, answers, session, accepted>>

----------------------------------------------------------------------------
(* The contexts and the outside world. *)

\* A job's WithTimeout fires.
Timeout(j) ==
    /\ pc[j] \in Pending /\ cause[j] = "none"
    /\ cause' = [cause EXCEPT ![j] = "timeout"]
    /\ UNCHANGED <<worldVars, scanVars, pc, init, tableVars, answers, session, accepted>>

\* Run's context is cancelled, and with it the context of every job.
Shutdown ==
    /\ ~shutdown /\ reader # "returned"
    /\ shutdown' = TRUE
    /\ cause' = [j \in Lines |-> IF pc[j] \in Pending /\ cause[j] = "none" THEN "shutdown" ELSE cause[j]]
    /\ UNCHANGED <<msg, broken, scanVars, pc, init, tableVars, answers, session, accepted>>

\* The client closes the bridge's stdout.
Break ==
    /\ ~broken /\ reader # "returned"
    /\ broken' = TRUE
    /\ UNCHANGED <<msg, shutdown, scanVars, jobVars, tableVars, answers, session, accepted>>

ReadLine ==
    \/ ReadInvalid \/ ReadCancel \/ ReadDuplicate \/ ReadCall
    \/ ReadInitialize \/ RefuseInitialize
    \/ ReadInitialized \/ RefuseInitialized \/ AbandonLine

Worker(j) == Start(j) \/ requestIdentity(j) \/ Reply(j) \/ abortLifecycle(j) \/ finish(j)

Next ==
    \/ ReadLine \/ Stop \/ Return \/ Shutdown \/ Break
    \/ \E j \in Read : \/ Worker(j) \/ Respond(j) \/ RoundTripEnds(j) \/ Timeout(j)
                       \/ SendInitialized(j) \/ AbandonSend(j)

Spec == Init /\ [][Next]_vars

\* Goroutines run, timers fire, an exchange whose context is done returns.  The
\* client need not send or stop sending, the Gateway need not answer.
Fairness ==
    /\ \A j \in Lines :
          /\ WF_vars(j \in Read /\ Worker(j))
          /\ WF_vars(j \in Read /\ (Timeout(j) \/ RoundTripEnds(j)))
          /\ WF_vars(j \in Read /\ (SendInitialized(j) \/ AbandonSend(j)))
    /\ WF_vars(shutdown /\ Stop)
    /\ WF_vars(Return)
FairSpec == Spec /\ Fairness

----------------------------------------------------------------------------
(* Properties. *)

\* requestIdentity's barrier: no ordinary message reaches the Gateway before the
\* Gateway has accepted initialize and then notifications/initialized, however
\* the three are queued, cancelled, timed out or repeated.
Barrier ==
    \A j \in Read : pc[j] = "sent" /\ ~Lifecycle(j) => {"initialize", "initialized"} \subseteq accepted

\* No session waits for nobody: while it is initializing, the initialize that
\* began it is still on its way, and once initialized has been seen so is that
\* notification.  A job refused by a full queue, cancelled or timed out takes
\* the session with it.
NoOrphanSession ==
    /\ session.state = "initializing" =>
          \E j \in Read : kind(j) = "initialize" /\ init[j] = session.init /\ pc[j] # "done"
    /\ session.state = "waiting" /\ session.seen =>
          \E j \in Read : kind(j) = "initialized" /\ init[j] = session.init /\ pc[j] # "done"

\* A line is answered at most once, and a queued request only while it still
\* holds its id: a client that reuses an id cannot be given another's answer.
UnambiguousAnswers ==
    [][\A j \in Lines : answers'[j] # answers[j] =>
          /\ answers[j] = 0 /\ answers'[j] = 1
          /\ pc[j] # "unread" => inflight[id(j)] = j]_vars

\* Every request taken from stdin is answered, whether the Gateway answers or
\* not, unless the bridge is shut down or its stdout is gone.
EveryRequestAnswered ==
    \A j \in Lines :
        (j \in Read /\ Request(j)) ~> (answers[j] = 1 \/ shutdown \/ broken)
=============================================================================
