------------------------- MODULE StdioBridgeProofs -------------------------
(***************************************************************************)
(* TLAPS proofs about StdioBridge, for any scripts of any length, any      *)
(* number of workers and queues of any capacity.                           *)
(*                                                                         *)
(* A session that is being set up belongs to two jobs: the initialize that *)
(* began it and, once it was seen, the initialized notification.  Neither  *)
(* can end without completing or failing the session, so the session never *)
(* waits for a job that is gone.  A request is answered by whoever holds   *)
(* its id, and an id that is held is not given to another line.            *)
(***************************************************************************)
EXTENDS StdioBridge, TLAPS

Labels == {"unread", "queued", "sending", "waiting", "sent", "replying", "failing", "aborting",
           "finishing", "done"}

States == {"uninitialized", "initializing", "waiting", "initialized", "failed"}

TypeOK ==
    /\ msg \in Scripts
    /\ reader \in {"scan", "sending", "stopped", "returned"}
    /\ read \in 0..Len(msg)
    /\ pc \in [Lines -> Labels]
    /\ cause \in [Lines -> {"none", "cancelled", "scan", "timeout", "shutdown"}]
    /\ init \in [Lines -> 0..MaxLines]
    /\ answers \in [Lines -> Nat]
    /\ inflight \in [Ids -> 0..MaxLines]
    /\ forwarded \subseteq Lines
    /\ session \in [state : States, init : 0..MaxLines, seen : BOOLEAN]
    /\ shutdown \in BOOLEAN /\ broken \in BOOLEAN
    /\ accepted \subseteq {"initialize", "initialized"}

\* The lines that were read are the ones that have a job or are done with.
ReadOnce == \A j \in Lines : pc[j] = "unread" <=> j \notin Read

\* The session is as far as the Gateway has accepted its messages.
SessionAccepted ==
    /\ session.state = "waiting" => "initialize" \in accepted
    /\ session.state = "initialized" => {"initialize", "initialized"} \subseteq accepted

\* A session that is initializing was begun by an initialize that is not yet
\* answered and has not given up; so the session has a name until it is
\* initialized.
BegunByInitialize ==
    /\ session.state \in {"initializing", "waiting"} => session.init \in Read
    /\ session.state = "initializing" =>
          /\ kind(session.init) = "initialize"
          /\ init[session.init] = session.init
          /\ pc[session.init] \in {"queued", "waiting", "sent", "failing", "aborting"}

\* The notification is on its way and will complete or fail the session; it is
\* sent only when the Gateway has accepted the initialize.
OnItsWay(j) ==
    /\ kind(j) = "initialized" /\ init[j] = session.init
    /\ pc[j] \in {"queued", "sending", "waiting", "sent", "aborting"}
    /\ pc[j] = "sent" => session.state = "waiting"

SeenOnItsWay ==
    session.state \in {"initializing", "waiting"} /\ session.seen => \E j \in Read : OnItsWay(j)

\* Only a request is answered by a worker, and an initialize is one.
Answerable ==
    \A j \in Read :
        /\ pc[j] \in {"replying", "failing"} => Request(j)
        /\ kind(j) = "initialize" /\ pc[j] # "done" => id(j) # NoId

\* A request holds its id from the queue to the end of its job.
HoldsId == \A j \in Read : Request(j) /\ pc[j] # "done" => inflight[id(j)] = j

\* A line is not answered before its job is through.
Unanswered ==
    \A j \in Lines :
        pc[j] \in {"unread", "queued", "sending", "waiting", "sent", "replying", "failing"}
            => answers[j] = 0

IInv ==
    /\ TypeOK
    /\ ReadOnce
    /\ SessionAccepted
    /\ Barrier
    /\ BegunByInitialize
    /\ SeenOnItsWay
    /\ Answerable
    /\ HoldsId
    /\ Unanswered
----------------------------------------------------------------------------
\* The variable tuples are expanded everywhere below.
USE DEF vars, worldVars, scanVars, jobVars, tableVars

\* The lines of the script.
LEMMA Shapes ==
    ASSUME TypeOK
    PROVE  /\ Len(msg) \in Nat /\ DOMAIN msg = 1..Len(msg) /\ Len(msg) <= MaxLines
           /\ MaxLines \in Nat
           /\ \A j \in DOMAIN msg : kind(j) \in Kinds /\ id(j) \in Ids \cup {NoId}
           /\ Read \subseteq DOMAIN msg /\ DOMAIN msg \subseteq Lines
  <1> DEFINE L == [kind : Kinds, id : Ids \cup {NoId}]
  <1>1. msg \in Seq(L) /\ Len(msg) <= MaxLines
    BY ScriptAssumption DEF TypeOK
  <1>2. Len(msg) \in Nat /\ DOMAIN msg = 1..Len(msg) /\ MaxLines \in Nat
    BY <1>1, BoundAssumption
  <1>3. \A j \in DOMAIN msg : msg[j] \in L
    <2> HIDE DEF L
    <2> QED BY <1>1, <1>2
  <1>4. \A j \in DOMAIN msg : kind(j) \in Kinds /\ id(j) \in Ids \cup {NoId}
    BY <1>3 DEF kind, id
  <1>5. Read \subseteq DOMAIN msg /\ DOMAIN msg \subseteq Lines
    BY <1>1, <1>2 DEF TypeOK, Read, Lines
  <1> QED BY <1>1, <1>2, <1>4, <1>5

\* The line that is read comes after all the others.
LEMMA Scanned ==
    ASSUME TypeOK, NEW K, Scan(K)
    PROVE  /\ line \in Lines /\ line \in DOMAIN msg /\ line \notin Read
           /\ line # 0 /\ line \in 0..MaxLines
           /\ kind(line) \in K /\ id(line) \in Ids \cup {NoId}
           /\ read' \in 0..Len(msg) /\ Read' = Read \cup {line}
           /\ UNCHANGED worldVars
  <1>1. line \in DOMAIN msg /\ kind(line) \in K /\ read' = line /\ UNCHANGED worldVars
    BY DEF Scan
  <1>2. read \in Nat /\ line = read + 1
    BY Shapes DEF TypeOK, line
  <1>3. Read' = Read \cup {line} /\ line \notin Read
    BY <1>1, <1>2 DEF Read
  <1> QED BY <1>1, <1>2, <1>3, Shapes DEF Lines

----------------------------------------------------------------------------
(* Types *)

\* What the session can become.
LEMMA SessionTypes ==
    ASSUME TypeOK
    PROVE  /\ session.state \in States /\ session.init \in 0..MaxLines
           /\ session.seen \in BOOLEAN
           /\ Failed(session) = [state |-> "failed", init |-> 0, seen |-> FALSE]
           /\ [session EXCEPT !.state = "waiting"] =
                [state |-> "waiting", init |-> session.init, seen |-> session.seen]
           /\ \A b \in BOOLEAN : [session EXCEPT !.seen = b] =
                [state |-> session.state, init |-> session.init, seen |-> b]
  <1>1. session \in [state : States, init : 0..MaxLines, seen : BOOLEAN]
    BY DEF TypeOK
  <1>2. session.state \in States /\ session.init \in 0..MaxLines /\ session.seen \in BOOLEAN
    BY <1>1
  <1>3. Failed(session) = [state |-> "failed", init |-> 0, seen |-> FALSE]
    <2>1. /\ Failed(session) = [x \in DOMAIN session |-> Failed(session)[x]]
          /\ DOMAIN session = {"state", "init", "seen"}
      BY <1>1 DEF Failed
    <2>2. Failed(session).state = "failed" /\ Failed(session).init = 0 /\ Failed(session).seen = FALSE
      BY <1>1 DEF Failed
    <2> HIDE DEF Failed
    <2> QED BY <2>1, <2>2
  <1>4. [session EXCEPT !.state = "waiting"] =
          [state |-> "waiting", init |-> session.init, seen |-> session.seen]
    BY <1>1
  <1>5. \A b \in BOOLEAN : [session EXCEPT !.seen = b] =
          [state |-> session.state, init |-> session.init, seen |-> b]
    BY <1>1
  <1> QED BY <1>2, <1>3, <1>4, <1>5

LEMMA SessionRecords ==
    ASSUME NEW s \in States, NEW i \in 0..MaxLines, NEW b \in BOOLEAN
    PROVE  [state |-> s, init |-> i, seen |-> b] \in [state : States, init : 0..MaxLines, seen : BOOLEAN]
  OBVIOUS

\* Who answers a line does so once; who queues it gives it its id.
LEMMA ReplyTypes ==
    ASSUME TypeOK, NEW j \in Lines, Answer(j)
    PROVE  answers' \in [Lines -> Nat]
  BY DEF TypeOK, Answer

LEMMA AtOnceTypes ==
    ASSUME TypeOK, line \in Lines, ReplyAtOnce
    PROVE  answers' \in [Lines -> Nat] /\ reader' \in {"scan", "sending", "stopped", "returned"}
  BY ReplyTypes DEF TypeOK, ReplyAtOnce

LEMMA EnqueueTypes ==
    ASSUME TypeOK, NEW K, Scan(K), NEW s, Enqueue(s),
           s \in [state : States, init : 0..MaxLines, seen : BOOLEAN]
    PROVE  /\ pc' \in [Lines -> Labels]
           /\ inflight' \in [Ids -> 0..MaxLines]
           /\ answers' \in [Lines -> Nat]
           /\ reader' \in {"scan", "sending", "stopped", "returned"}
           /\ session' \in [state : States, init : 0..MaxLines, seen : BOOLEAN]
  <1>1. Failed(s) \in [state : States, init : 0..MaxLines, seen : BOOLEAN]
    <2>1. DOMAIN Failed(s) = {"state", "init", "seen"} /\ Failed(s) = [x \in DOMAIN s |-> Failed(s)[x]]
      BY DEF Failed
    <2>2. Failed(s).state = "failed" /\ Failed(s).init = 0 /\ Failed(s).seen = FALSE
      BY DEF Failed
    <2>3. Failed(s) = [state |-> "failed", init |-> 0, seen |-> FALSE]
      <3> HIDE DEF Failed
      <3> QED BY <2>1, <2>2
    <2> QED BY <2>3, Shapes, SessionRecords DEF States
  <1>2. pc' \in [Lines -> Labels]
    BY Scanned DEF TypeOK, Enqueue, Goto, Labels
  <1>3. inflight' \in [Ids -> 0..MaxLines]
    BY Scanned DEF TypeOK, Enqueue
  <1>4. session' \in [state : States, init : 0..MaxLines, seen : BOOLEAN]
    BY <1>1 DEF Enqueue, OverloadedSession
  <1>5. answers' \in [Lines -> Nat] /\ reader' \in {"scan", "sending", "stopped", "returned"}
    BY Scanned, AtOnceTypes DEF TypeOK, Enqueue
  <1> QED BY <1>2, <1>3, <1>4, <1>5

\* Every step preserves the types of the variables.
LEMMA TypePreserved == TypeOK /\ [Next]_vars => TypeOK'
  <1> SUFFICES ASSUME TypeOK, [Next]_vars PROVE TypeOK'
    OBVIOUS
  <1> DEFINE S == [state : States, init : 0..MaxLines, seen : BOOLEAN]
  <1>a. session \in S /\ Failed(session) \in S
    <2>1. Failed(session) = [state |-> "failed", init |-> 0, seen |-> FALSE]
      BY SessionTypes
    <2> QED BY <2>1, Shapes, SessionRecords DEF TypeOK, States
  <1>b. ASSUME NEW j \in Lines, NEW l \in Labels, Goto(j, l) PROVE pc' \in [Lines -> Labels]
    BY <1>b DEF TypeOK, Goto
  <1>c. ASSUME NEW j \in Read PROVE j \in Lines /\ fail(j) \in Labels
    BY <1>c, Shapes DEF fail, Labels
  <1> HIDE DEF S
  <1>1. ASSUME ReadInvalid PROVE TypeOK'
    <2>1. pc' \in [Lines -> Labels]
      BY <1>1, <1>b, Scanned DEF ReadInvalid, Dropped, Labels
    <2> QED BY <1>1, <2>1, Scanned, AtOnceTypes DEF TypeOK, ReadInvalid, Dropped
  <1>2. ASSUME ReadCancel PROVE TypeOK'
    <2>1. line \in Lines /\ UNCHANGED worldVars /\ read' \in 0..Len(msg)
      BY <1>2, Scanned DEF ReadCancel
    <2>2. pc' \in [Lines -> Labels]
      BY <1>2, <2>1 DEF TypeOK, ReadCancel, Goto, Labels
    <2> DEFINE t == IF id(line) \in Ids THEN inflight[id(line)] ELSE 0
    <2>3. t \in 0..MaxLines /\ (t # 0 => t \in Lines)
      BY Shapes DEF TypeOK, Lines
    <2>4. UNCHANGED <<cause, forwarded, answers>>
          \/ /\ t # 0
             /\ cause' = [cause EXCEPT ![t] = IF @ = "none" THEN "cancelled" ELSE @]
             /\ forwarded' = forwarded \cup {t}
             /\ answers' = answers
      BY <1>2 DEF ReadCancel, CancelReply
    <2> HIDE DEF t
    <2>5. /\ cause' \in [Lines -> {"none", "cancelled", "scan", "timeout", "shutdown"}]
          /\ forwarded' \subseteq Lines /\ answers' \in [Lines -> Nat]
      BY <2>3, <2>4 DEF TypeOK
    <2> QED BY <1>2, <2>1, <2>2, <2>5 DEF TypeOK, ReadCancel
  <1>3. ASSUME ReadDuplicate PROVE TypeOK'
    <2>1. pc' \in [Lines -> Labels]
      BY <1>3, <1>b, Scanned DEF ReadDuplicate, Dropped, Labels
    <2> QED BY <1>3, <2>1, Scanned, AtOnceTypes DEF TypeOK, ReadDuplicate, Dropped
  <1>4. ASSUME ReadCall PROVE TypeOK'
    <2>1. Scan({"call"}) /\ Enqueue(session) /\ UNCHANGED <<cause, init, forwarded, accepted>>
      BY <1>4 DEF ReadCall
    <2>2. /\ pc' \in [Lines -> Labels] /\ inflight' \in [Ids -> 0..MaxLines]
          /\ answers' \in [Lines -> Nat] /\ reader' \in {"scan", "sending", "stopped", "returned"}
          /\ session' \in [state : States, init : 0..MaxLines, seen : BOOLEAN]
      BY <1>a, <2>1, EnqueueTypes DEF S
    <2> QED BY <2>1, <2>2, Scanned DEF TypeOK
  <1>5. ASSUME ReadInitialize PROVE TypeOK'
    <2> DEFINE new == [state |-> "initializing", init |-> line, seen |-> FALSE]
    <2>1. /\ Scan({"initialize"}) /\ Enqueue(new) /\ UNCHANGED <<cause, forwarded, accepted>>
          /\ init' = [init EXCEPT ![line] = line]
      BY <1>5 DEF ReadInitialize
    <2>2. new \in [state : States, init : 0..MaxLines, seen : BOOLEAN]
      BY <2>1, Scanned DEF States
    <2> HIDE DEF new
    <2>3. /\ pc' \in [Lines -> Labels] /\ inflight' \in [Ids -> 0..MaxLines]
          /\ answers' \in [Lines -> Nat] /\ reader' \in {"scan", "sending", "stopped", "returned"}
          /\ session' \in [state : States, init : 0..MaxLines, seen : BOOLEAN]
      BY <2>1, <2>2, EnqueueTypes
    <2>4. init' \in [Lines -> 0..MaxLines]
      BY <2>1, Scanned DEF TypeOK
    <2> QED BY <2>1, <2>3, <2>4, Scanned DEF TypeOK
  <1>6. ASSUME RefuseInitialize PROVE TypeOK'
    <2>1. pc' \in [Lines -> Labels]
      BY <1>6, <1>b, Scanned DEF RefuseInitialize, Dropped, Labels
    <2> QED BY <1>6, <2>1, Scanned, AtOnceTypes DEF TypeOK, RefuseInitialize, Dropped
  <1>7. ASSUME ReadInitialized PROVE TypeOK'
    <2>1. Scan({"initialized"}) /\ init' = [init EXCEPT ![line] = session.init]
          /\ session' = [session EXCEPT !.seen = session.init # 0]
          /\ pc' \in [Lines -> Labels]
          /\ reader' \in {"scan", "sending"}
          /\ UNCHANGED <<cause, tableVars, answers, accepted>>
      BY <1>7, <1>b, Scanned DEF ReadInitialized, Labels
    <2>2. session' \in S /\ session.init \in 0..MaxLines
      <3>1. session' = [state |-> session.state, init |-> session.init, seen |-> session.init # 0]
        BY <2>1, SessionTypes, Zenon
      <3>2. (session.init # 0) \in BOOLEAN
        OBVIOUS
      <3>3. session' \in S
        BY <3>1, <3>2, SessionTypes, SessionRecords, Zenon DEF S
      <3> QED BY <3>3, SessionTypes
    <2>3. init' \in [Lines -> 0..MaxLines]
      BY <2>1, <2>2, Scanned DEF TypeOK
    <2> QED BY <2>1, <2>2, <2>3, Scanned DEF TypeOK, S
  <1>8. ASSUME RefuseInitialized PROVE TypeOK'
    <2>1. pc' \in [Lines -> Labels]
      BY <1>8, <1>b, Scanned DEF RefuseInitialized, Dropped, Labels
    <2> QED BY <1>8, <1>a, <2>1, Scanned DEF TypeOK, RefuseInitialized, Dropped, S
  <1>9. ASSUME AbandonLine PROVE TypeOK'
    <2>1. pc' \in [Lines -> Labels]
      BY <1>9, <1>b, Scanned DEF AbandonLine, Dropped, Labels
    <2> QED BY <1>9, <1>a, <2>1, Scanned DEF TypeOK, AbandonLine, Dropped, S
  <1>10. ASSUME Stop PROVE TypeOK'
    <2>1. cause' \in [Lines -> {"none", "cancelled", "scan", "timeout", "shutdown"}]
      BY <1>10 DEF TypeOK, Stop, cancelAll
    <2> QED BY <1>10, <2>1 DEF TypeOK, Stop
  <1>11. ASSUME Return PROVE TypeOK'
    BY <1>11 DEF TypeOK, Return
  <1>12. ASSUME Shutdown PROVE TypeOK'
    <2>1. cause' \in [Lines -> {"none", "cancelled", "scan", "timeout", "shutdown"}]
      BY <1>12 DEF TypeOK, Shutdown
    <2> QED BY <1>12, <2>1 DEF TypeOK, Shutdown
  <1>13. ASSUME Break PROVE TypeOK'
    BY <1>13 DEF TypeOK, Break
  <1>14. ASSUME NEW j \in Read, Start(j) PROVE TypeOK'
    <2>1. pc' \in [Lines -> Labels]
      BY <1>14, <1>b, <1>c DEF Start, Labels
    <2> QED BY <1>14, <2>1 DEF TypeOK, Start
  <1>15. ASSUME NEW j \in Read, requestIdentity(j) PROVE TypeOK'
    <2>1. pc' \in [Lines -> Labels]
      BY <1>15, <1>b, <1>c DEF requestIdentity, Labels
    <2> QED BY <1>15, <2>1 DEF TypeOK, requestIdentity
  <1>16. ASSUME NEW j \in Read, Reply(j) PROVE TypeOK'
    <2>1. pc' \in [Lines -> Labels]
      BY <1>16, <1>b, <1>c DEF Reply, Labels
    <2> QED BY <1>16, <1>c, <2>1, ReplyTypes DEF TypeOK, Reply
  <1>17. ASSUME NEW j \in Read, abortLifecycle(j) PROVE TypeOK'
    <2>1. pc' \in [Lines -> Labels]
      BY <1>17, <1>b, <1>c DEF abortLifecycle, Labels
    <2>2. session' \in S
      BY <1>17, <1>a DEF abortLifecycle, failInitialization, failInitialized
    <2> QED BY <1>17, <2>1, <2>2 DEF TypeOK, abortLifecycle, S
  <1>18. ASSUME NEW j \in Read, finish(j) PROVE TypeOK'
    <2>1. pc' \in [Lines -> Labels]
      BY <1>18, <1>b, <1>c DEF finish, Labels
    <2>2. /\ cause' \in [Lines -> {"none", "cancelled", "scan", "timeout", "shutdown"}]
          /\ init' \in [Lines -> 0..MaxLines] /\ inflight' \in [Ids -> 0..MaxLines]
          /\ forwarded' \subseteq Lines
      BY <1>18, <1>c, Shapes DEF TypeOK, finish
    <2> QED BY <1>18, <2>1, <2>2 DEF TypeOK, finish
  <1>19. ASSUME NEW j \in Read, Respond(j) PROVE TypeOK'
    <2>1. pc' \in [Lines -> Labels]
      BY <1>19, <1>b, <1>c DEF Respond, InitializeAccepted, InitializedAccepted, OtherAnswer, Labels
    <2>2. [session EXCEPT !.state = "waiting"] \in S
      <3>1. "waiting" \in States
        BY DEF States
      <3>2. session.init \in 0..MaxLines /\ session.seen \in BOOLEAN
        BY SessionTypes
      <3>3. [state |-> "waiting", init |-> session.init, seen |-> session.seen] \in S
        BY <3>1, <3>2, SessionRecords DEF S
      <3> QED BY <3>3, SessionTypes
    <2>3. [state |-> "initialized", init |-> 0, seen |-> FALSE] \in S
      BY Shapes, SessionRecords DEF S, States
    <2>4. session' \in S /\ accepted' \subseteq {"initialize", "initialized"}
      BY <1>19, <1>a, <2>2, <2>3 DEF TypeOK, Respond, InitializeAccepted, InitializedAccepted,
         OtherAnswer, completeInitialization, completeInitialized
    <2> QED BY <1>19, <2>1, <2>4 DEF TypeOK, Respond, S
  <1>20. ASSUME NEW j \in Read, RoundTripEnds(j) PROVE TypeOK'
    <2>1. pc' \in [Lines -> Labels]
      BY <1>20, <1>b, <1>c DEF RoundTripEnds, Labels
    <2> QED BY <1>20, <2>1 DEF TypeOK, RoundTripEnds
  <1>21. ASSUME NEW j \in Read, Timeout(j) PROVE TypeOK'
    BY <1>21, <1>c DEF TypeOK, Timeout
  <1>22. ASSUME NEW j \in Read, SendInitialized(j) PROVE TypeOK'
    <2>1. pc' \in [Lines -> Labels]
      BY <1>22, <1>b, <1>c DEF SendInitialized, Labels
    <2> QED BY <1>22, <2>1 DEF TypeOK, SendInitialized
  <1>23. ASSUME NEW j \in Read, AbandonSend(j) PROVE TypeOK'
    <2>1. pc' \in [Lines -> Labels]
      BY <1>23, <1>b, <1>c DEF AbandonSend, Labels
    <2>2. session' \in S
      BY <1>23, <1>a DEF AbandonSend, failInitialized
    <2> QED BY <1>23, <2>1, <2>2 DEF TypeOK, AbandonSend, S
  <1>24. CASE UNCHANGED vars
    BY <1>24 DEF TypeOK
  <1> QED BY <1>1, <1>2, <1>3, <1>4, <1>5, <1>6, <1>7, <1>8, <1>9, <1>10, <1>11, <1>12, <1>13,
             <1>14, <1>15, <1>16, <1>17, <1>18, <1>19, <1>20, <1>21, <1>22, <1>23, <1>24
          DEF Next, ReadLine, Worker

----------------------------------------------------------------------------
(* The scan loop. *)

\* Reading a line leaves the jobs of the others alone.
LEMMA OthersStay ==
    ASSUME IInv, NEW K, Scan(K), NEW l, Goto(line, l)
    PROVE  /\ \A j \in Read : j \in Lines /\ j # line /\ pc'[j] = pc[j]
           /\ \A j \in Lines : kind(j)' = kind(j) /\ id(j)' = id(j)
           /\ pc'[line] = l /\ pc[line] = "unread"
  <1>1. line \in Lines /\ line \notin Read /\ UNCHANGED msg
    BY Scanned DEF IInv
  <1>2. \A j \in Read : j \in Lines
    BY Shapes DEF IInv
  <1>3. \A j \in Lines : kind(j)' = kind(j) /\ id(j)' = id(j)
    BY <1>1 DEF kind, id
  <1> QED BY <1>1, <1>2, <1>3 DEF IInv, TypeOK, ReadOnce, Goto

\* What a line that was read needs for the invariants of the jobs: a line that
\* gets a job has an id if it is an initialize, holds its id, which nobody held
\* before, and is not answered.
LEMMA LineRead ==
    ASSUME IInv, NEW K, Scan(K), NEW l \in {"queued", "sending", "done"}, Goto(line, l),
           accepted' = accepted,
           \/ inflight' = inflight
           \/ ~Duplicate /\ id(line) \in Ids /\ inflight' = [inflight EXCEPT ![id(line)] = line],
           l # "done" /\ Request(line) => inflight'[id(line)] = line,
           l # "done" /\ kind(line) = "initialize" => id(line) # NoId,
           l # "done" => answers' = answers,
           \A j \in Lines : j # line => answers'[j] = answers[j]
    PROVE  ReadOnce' /\ Barrier' /\ Answerable' /\ HoldsId' /\ Unanswered'
  <1>1. PICK n \in Lines : n = line
    BY Scanned DEF IInv
  <1>2. n \notin Read /\ Read' = Read \cup {n} /\ UNCHANGED msg /\ n # 0
    BY <1>1, Scanned DEF IInv
  <1>3. /\ \A j \in Read : j \in Lines /\ j # n /\ pc'[j] = pc[j]
        /\ \A j \in Lines : kind(j)' = kind(j) /\ id(j)' = id(j)
        /\ pc'[n] = l /\ pc[n] = "unread"
    BY <1>1, OthersStay
  <1>4. \A j \in Lines : j # n => pc'[j] = pc[j]
    BY <1>1 DEF IInv, TypeOK, Goto
  <1>5. ReadOnce'
    BY <1>2, <1>3, <1>4 DEF IInv, ReadOnce
  <1>6. Barrier'
    BY <1>2, <1>3 DEF IInv, Barrier, Lifecycle
  <1>7. Answerable'
    <2> SUFFICES ASSUME NEW j \in Read'
                 PROVE  /\ pc'[j] \in {"replying", "failing"} => Request(j)'
                        /\ kind(j)' = "initialize" /\ pc'[j] # "done" => id(j)' # NoId
      BY DEF Answerable
    <2>1. CASE j = n
      BY <1>1, <1>3, <2>1
    <2>2. CASE j \in Read
      BY <1>3, <2>2 DEF IInv, Answerable, Request
    <2> QED BY <1>2, <2>1, <2>2
  <1>8. HoldsId'
    <2> SUFFICES ASSUME NEW j \in Read', Request(j)', pc'[j] # "done"
                 PROVE  inflight'[id(j)'] = j
      BY DEF HoldsId
    <2>1. CASE j = n
      BY <1>1, <1>3, <2>1 DEF Request
    <2>2. CASE j \in Read
      <3>1. inflight[id(j)] = j /\ id(j) \in Ids /\ id(j)' = id(j)
        BY <1>3, <2>2, Shapes DEF IInv, HoldsId, Request
      <3>2. CASE inflight' = inflight
        BY <3>1, <3>2
      <3>3. CASE ~Duplicate /\ id(line) \in Ids /\ inflight' = [inflight EXCEPT ![id(line)] = line]
        <4>1. inflight[id(line)] = 0
          BY <3>3 DEF Duplicate
        <4>2. j # 0
          BY <2>2, Shapes DEF IInv, Read, TypeOK
        <4> QED BY <3>1, <3>3, <4>1, <4>2 DEF IInv, TypeOK
      <3> QED BY <3>2, <3>3
    <2> QED BY <1>2, <2>1, <2>2
  <1>9. Unanswered'
    BY <1>1, <1>2, <1>3, <1>4 DEF IInv, Unanswered
  <1> QED BY <1>5, <1>6, <1>7, <1>8, <1>9

\* A session that the line leaves alone, or fails, still has its owners.
LEMMA LineSession ==
    ASSUME IInv, NEW K, Scan(K), NEW l \in {"queued", "sending", "done"}, Goto(line, l),
           accepted' = accepted, init' = init,
           session' = session \/ session'.state = "failed"
    PROVE  SessionAccepted' /\ BegunByInitialize' /\ SeenOnItsWay'
  <1>1. /\ line \in Lines /\ line \notin Read /\ Read' = Read \cup {line} /\ UNCHANGED msg
    BY Scanned DEF IInv
  <1>2. /\ \A j \in Read : j \in Lines /\ j # line /\ pc'[j] = pc[j]
        /\ \A j \in Lines : kind(j)' = kind(j) /\ id(j)' = id(j)
    BY OthersStay
  <1>3. CASE session'.state = "failed"
    BY <1>3 DEF SessionAccepted, BegunByInitialize, SeenOnItsWay
  <1>4. CASE session' = session
    <2>1. SessionAccepted'
      BY <1>4 DEF IInv, SessionAccepted
    <2>2. BegunByInitialize'
      BY <1>1, <1>2, <1>4 DEF IInv, BegunByInitialize, kind
    <2>3. SeenOnItsWay'
      BY <1>1, <1>2, <1>4 DEF IInv, SeenOnItsWay, OnItsWay
    <2> QED BY <2>1, <2>2, <2>3
  <1> QED BY <1>3, <1>4

\* A line that is answered at once, or dropped, has no job.
LEMMA LineDropped ==
    ASSUME IInv, TypeOK', NEW K, Scan(K), Dropped,
           answers' = answers \/ Answer(line),
           session' = session \/ session' = Failed(session)
    PROVE  IInv'
  <1>1. /\ Goto(line, "done") /\ UNCHANGED <<init, inflight, accepted>> /\ line \in Lines
    BY Scanned DEF Dropped, IInv
  <1>2. \A j \in Lines : j # line => answers'[j] = answers[j]
    BY <1>1 DEF IInv, TypeOK, Answer
  <1>3. ReadOnce' /\ Barrier' /\ Answerable' /\ HoldsId' /\ Unanswered'
    BY <1>1, <1>2, LineRead
  <1>4. session' = session \/ session'.state = "failed"
    BY SessionTypes DEF IInv
  <1>5. SessionAccepted' /\ BegunByInitialize' /\ SeenOnItsWay'
    BY <1>1, <1>4, LineSession
  <1> QED BY <1>3, <1>5 DEF IInv

\* A line that is queued, or refused because the queue is full.
LEMMA LineQueued ==
    ASSUME IInv, NEW K, Scan(K), NEW s, Enqueue(s), ~Duplicate, accepted' = accepted,
           kind(line) = "initialize" => id(line) # NoId
    PROVE  /\ ReadOnce' /\ Barrier' /\ Answerable' /\ HoldsId' /\ Unanswered'
           /\ \/ Goto(line, "queued") /\ session' = s
              \/ Goto(line, "done") /\ session' = OverloadedSession(line, s)
  <1>1. line \in Lines /\ id(line) \in Ids \cup {NoId}
    BY Scanned DEF IInv
  <1>2. CASE /\ Goto(line, "queued") /\ session' = s /\ answers' = answers
             /\ inflight' = IF id(line) \in Ids THEN [inflight EXCEPT ![id(line)] = line] ELSE inflight
    <2>1. Request(line) => inflight'[id(line)] = line
      BY <1>1, <1>2 DEF IInv, TypeOK, Request
    <2> QED BY <1>1, <1>2, <2>1, LineRead
  <1>3. CASE /\ Goto(line, "done") /\ session' = OverloadedSession(line, s)
             /\ answers' = answers \/ Answer(line)
             /\ inflight' = inflight
    <2>1. \A j \in Lines : j # line => answers'[j] = answers[j]
      BY <1>1, <1>3 DEF IInv, TypeOK, Answer
    <2> QED BY <1>1, <1>3, <2>1, LineRead
  <1> QED BY <1>2, <1>3 DEF Enqueue, ReplyAtOnce

\* An initialize that begins a session is the session's owner.
LEMMA InitializeRead == IInv /\ TypeOK' /\ ReadInitialize => IInv'
  <1> SUFFICES ASSUME IInv, TypeOK', ReadInitialize PROVE IInv'
    OBVIOUS
  <1> DEFINE new == [state |-> "initializing", init |-> line, seen |-> FALSE]
  <1>1. /\ Scan({"initialize"}) /\ ~Duplicate /\ id(line) # NoId
        /\ init' = [init EXCEPT ![line] = line] /\ Enqueue(new) /\ accepted' = accepted
    BY DEF ReadInitialize
  <1>2. kind(line) = "initialize" /\ line \in Lines /\ Read' = Read \cup {line} /\ msg' = msg
    BY <1>1, Scanned DEF IInv
  <1>3. /\ ReadOnce' /\ Barrier' /\ Answerable' /\ HoldsId' /\ Unanswered'
        /\ \/ Goto(line, "queued") /\ session' = new
           \/ Goto(line, "done") /\ session' = OverloadedSession(line, new)
    <2> HIDE DEF new
    <2> QED BY <1>1, LineQueued
  <1>4. CASE Goto(line, "queued") /\ session' = new
    <2>1. session'.state = "initializing" /\ session'.init = line /\ session'.seen = FALSE
      BY <1>4
    <2>2. PICK n \in Lines : n = line
      BY <1>2
    <2>3. kind(n)' = "initialize" /\ init'[n] = n /\ pc'[n] = "queued" /\ n \in Read'
      BY <1>1, <1>2, <1>4, <2>2 DEF IInv, TypeOK, Goto, kind
    <2>4. session'.init = n
      BY <2>1, <2>2
    <2>5. BegunByInitialize'
      BY <2>1, <2>3, <2>4 DEF BegunByInitialize, kind
    <2>6. SessionAccepted' /\ SeenOnItsWay'
      BY <2>1 DEF SessionAccepted, SeenOnItsWay
    <2> QED BY <1>3, <2>5, <2>6 DEF IInv
  <1>5. CASE session' = OverloadedSession(line, new)
    <2>1. session'.state = "failed"
      BY <1>2, <1>5 DEF OverloadedSession, Failed
    <2> QED BY <1>3, <2>1 DEF IInv, SessionAccepted, BegunByInitialize, SeenOnItsWay
  <1> QED BY <1>3, <1>4, <1>5

\* The notification that is awaited becomes the session's second owner.
LEMMA InitializedRead == IInv /\ TypeOK' /\ ReadInitialized => IInv'
  <1> SUFFICES ASSUME IInv, TypeOK', ReadInitialized PROVE IInv'
    OBVIOUS
  <1>1. /\ Scan({"initialized"}) /\ id(line) = NoId /\ Awaited
        /\ init' = [init EXCEPT ![line] = session.init]
        /\ session' = [session EXCEPT !.seen = session.init # 0]
        /\ UNCHANGED <<inflight, answers, accepted>>
    BY DEF ReadInitialized
  <1>2. PICK l \in {"queued", "sending"} : Goto(line, l)
    BY DEF ReadInitialized
  <1>3. PICK n \in Lines : n = line
    BY <1>1, Scanned DEF IInv
  <1>4. /\ kind(n) = "initialized" /\ id(n) = NoId /\ Read' = Read \cup {n} /\ msg' = msg
        /\ n \notin Read
    BY <1>1, <1>3, Scanned DEF IInv
  <1>5. ReadOnce' /\ Barrier' /\ Answerable' /\ HoldsId' /\ Unanswered'
    BY <1>1, <1>2, <1>3, <1>4, LineRead DEF Request
  <1>6. session'.state = session.state /\ session'.init = session.init
    BY <1>1, SessionTypes DEF IInv, TypeOK
  <1>7. /\ \A j \in Read : j \in Lines /\ j # n /\ pc'[j] = pc[j]
        /\ \A j \in Lines : kind(j)' = kind(j) /\ id(j)' = id(j)
        /\ pc'[n] = l
    BY <1>1, <1>2, <1>3, OthersStay
  <1>8. init'[n] = session.init /\ \A j \in Read : init'[j] = init[j]
    BY <1>1, <1>3, <1>7 DEF IInv, TypeOK
  <1>9. SessionAccepted'
    BY <1>1, <1>6 DEF IInv, SessionAccepted
  <1>10. BegunByInitialize'
    BY <1>4, <1>6, <1>7, <1>8 DEF IInv, BegunByInitialize, kind
  <1>11. SeenOnItsWay'
    BY <1>4, <1>6, <1>7, <1>8 DEF SeenOnItsWay, OnItsWay
  <1> QED BY <1>5, <1>9, <1>10, <1>11 DEF IInv

\* Whatever line is read, the invariant is preserved.
LEMMA ScanPreserves == IInv /\ TypeOK' /\ ReadLine => IInv'
  <1> SUFFICES ASSUME IInv, TypeOK', ReadLine PROVE IInv'
    OBVIOUS
  <1>1. CASE ReadInvalid
    BY <1>1, LineDropped DEF ReadInvalid, ReplyAtOnce
  <1>2. CASE ReadCancel
    <2>1. Scan({"cancel"}) /\ UNCHANGED <<init, inflight, session, accepted>>
      BY <1>2 DEF ReadCancel
    <2>2. answers' = answers
      BY <1>2 DEF ReadCancel, CancelReply
    <2>3. PICK l \in {"queued", "done"} : Goto(line, l)
      BY <1>2 DEF ReadCancel
    <2>4. kind(line) = "cancel" /\ ~Request(line)
      BY <2>1, Scanned DEF IInv, Request
    <2>5. ReadOnce' /\ Barrier' /\ Answerable' /\ HoldsId' /\ Unanswered'
      BY <2>1, <2>2, <2>3, <2>4, LineRead
    <2>6. SessionAccepted' /\ BegunByInitialize' /\ SeenOnItsWay'
      BY <2>1, <2>3, LineSession
    <2> QED BY <2>5, <2>6 DEF IInv
  <1>3. CASE ReadDuplicate
    BY <1>3, LineDropped DEF ReadDuplicate, ReplyAtOnce
  <1>4. CASE ReadCall
    <2>1. Scan({"call"}) /\ ~Duplicate /\ Enqueue(session) /\ UNCHANGED <<init, accepted>>
      BY <1>4 DEF ReadCall
    <2>2. kind(line) = "call"
      BY <2>1, Scanned DEF IInv
    <2>3. /\ ReadOnce' /\ Barrier' /\ Answerable' /\ HoldsId' /\ Unanswered'
          /\ \/ Goto(line, "queued") /\ session' = session
             \/ Goto(line, "done") /\ session' = OverloadedSession(line, session)
      BY <2>1, <2>2, LineQueued
    <2>4. session' = session
      BY <2>2, <2>3 DEF OverloadedSession
    <2>5. SessionAccepted' /\ BegunByInitialize' /\ SeenOnItsWay'
      BY <2>1, <2>3, <2>4, LineSession
    <2> QED BY <2>3, <2>5 DEF IInv
  <1>5. CASE ReadInitialize
    BY <1>5, InitializeRead
  <1>6. CASE RefuseInitialize
    BY <1>6, LineDropped DEF RefuseInitialize, ReplyAtOnce
  <1>7. CASE ReadInitialized
    BY <1>7, InitializedRead
  <1>8. CASE RefuseInitialized
    BY <1>8, LineDropped DEF RefuseInitialized
  <1>9. CASE AbandonLine
    BY <1>9, LineDropped DEF AbandonLine
  <1> QED BY <1>1, <1>2, <1>3, <1>4, <1>5, <1>6, <1>7, <1>8, <1>9 DEF ReadLine

----------------------------------------------------------------------------
(* The jobs. *)

\* What a job's step needs for the invariants of the jobs.
LEMMA JobMoves ==
    ASSUME IInv, NEW j \in Read, NEW l, Goto(j, l), pc[j] # "done", l # "unread",
           UNCHANGED <<msg, read>>, accepted \subseteq accepted',
           l = "sent" /\ ~Lifecycle(j) => {"initialize", "initialized"} \subseteq accepted,
           l \in {"replying", "failing"} => Request(j),
           \/ inflight' = inflight
           \/ l = "done" /\ inflight' = [i \in Ids |-> IF inflight[i] = j THEN 0 ELSE inflight[i]],
           \/ answers' = answers /\ pc[j] \notin {"aborting", "finishing"}
           \/ answers' = answers /\ l \in {"finishing", "done"}
           \/ Answer(j) /\ l \in {"aborting", "finishing"}
    PROVE  ReadOnce' /\ Barrier' /\ Answerable' /\ HoldsId' /\ Unanswered'
  <1>1. j \in Lines /\ Read' = Read /\ Read \subseteq Lines
    BY Shapes DEF IInv, Read
  <1>2. \A k \in Lines : kind(k)' = kind(k) /\ id(k)' = id(k)
    BY DEF kind, id
  <1>3. pc'[j] = l /\ \A k \in Lines : k # j => pc'[k] = pc[k]
    BY <1>1 DEF IInv, TypeOK, Goto
  <1>4. pc[j] # "unread"
    BY <1>1 DEF IInv, ReadOnce
  <1>5. ReadOnce'
    BY <1>1, <1>3 DEF IInv, ReadOnce
  <1>6. Barrier'
    BY <1>1, <1>2, <1>3 DEF IInv, Barrier, Lifecycle
  <1>7. Answerable'
    BY <1>1, <1>2, <1>3 DEF IInv, Answerable, Request
  <1>8. HoldsId'
    <2> SUFFICES ASSUME NEW k \in Read, Request(k), pc'[k] # "done"
                 PROVE  inflight'[id(k)] = k
      BY <1>1, <1>2 DEF HoldsId, Request
    <2>1. pc[k] # "done" /\ k \in Lines
      BY <1>1, <1>3
    <2>2. inflight[id(k)] = k /\ id(k) \in Ids
      BY <2>1, Shapes DEF IInv, HoldsId, Request
    <2>3. CASE inflight' = inflight
      BY <2>2, <2>3
    <2>4. CASE l = "done" /\ inflight' = [i \in Ids |-> IF inflight[i] = j THEN 0 ELSE inflight[i]]
      <3>1. k # j
        BY <1>3, <2>4
      <3> QED BY <2>2, <2>4, <3>1
    <2> QED BY <2>3, <2>4
  <1>9. Unanswered'
    <2>1. \A k \in Lines : k # j => answers'[k] = answers[k]
      BY <1>1 DEF IInv, TypeOK, Answer
    <2>2. l \in {"unread", "queued", "sending", "waiting", "sent", "replying", "failing"} => answers'[j] = 0
      BY <1>1, <1>4 DEF IInv, TypeOK, Labels, Unanswered
    <2> QED BY <1>3, <2>1, <2>2 DEF IInv, Unanswered
  <1> QED BY <1>5, <1>6, <1>7, <1>8, <1>9

\* A session that a job's step leaves alone keeps its owners, if the job does
\* not stop being one.
LEMMA SessionStays ==
    ASSUME IInv, NEW j \in Read, NEW l, Goto(j, l), UNCHANGED <<msg, read, session>>,
           accepted \subseteq accepted',
           \A k \in Lines : k # j => init'[k] = init[k],
           session.state = "initializing" /\ session.init = j =>
               init'[j] = init[j] /\ l \in {"queued", "waiting", "sent", "failing", "aborting"},
           session.state \in {"initializing", "waiting"} /\ OnItsWay(j) =>
               /\ init'[j] = init[j] /\ l \in {"queued", "sending", "waiting", "sent", "aborting"}
               /\ l = "sent" => session.state = "waiting"
    PROVE  SessionAccepted' /\ BegunByInitialize' /\ SeenOnItsWay'
  <1>1. j \in Lines /\ Read' = Read /\ Read \subseteq Lines
    BY Shapes DEF IInv, Read
  <1>2. \A k \in Lines : kind(k)' = kind(k)
    BY DEF kind
  <1>3. pc'[j] = l /\ \A k \in Lines : k # j => pc'[k] = pc[k]
    BY <1>1 DEF IInv, TypeOK, Goto
  <1>4. SessionAccepted'
    BY DEF IInv, SessionAccepted
  <1>5. BegunByInitialize'
    <2>1. session.state \in {"initializing", "waiting"} => session.init \in Read'
      BY <1>1 DEF IInv, BegunByInitialize
    <2>2. ASSUME session.state = "initializing"
          PROVE  /\ msg[session.init].kind = "initialize"
                 /\ init'[session.init] = session.init
                 /\ pc'[session.init] \in {"queued", "waiting", "sent", "failing", "aborting"}
      <3>1. /\ session.init \in Lines /\ msg[session.init].kind = "initialize"
            /\ init[session.init] = session.init
            /\ pc[session.init] \in {"queued", "waiting", "sent", "failing", "aborting"}
        BY <1>1, <2>2 DEF IInv, BegunByInitialize, kind
      <3> QED BY <1>3, <2>2, <3>1
    <2> QED BY <2>1, <2>2 DEF BegunByInitialize, kind
  <1>6. SeenOnItsWay'
    <2> SUFFICES ASSUME session.state \in {"initializing", "waiting"}, session.seen
                 PROVE  \E k \in Read : OnItsWay(k)'
      BY <1>1 DEF SeenOnItsWay
    <2>1. PICK k \in Read : OnItsWay(k)
      BY DEF IInv, SeenOnItsWay
    <2>2. OnItsWay(k)'
      BY <1>1, <1>2, <1>3, <2>1 DEF OnItsWay
    <2> QED BY <2>2
  <1> QED BY <1>4, <1>5, <1>6

\* What is left of a job that has failed.
LEMMA FailedJob ==
    ASSUME IInv, NEW j \in Read, pc[j] \in {"waiting", "sent"}
    PROVE  /\ fail(j) \in {"failing", "aborting", "replying", "finishing"}
           /\ fail(j) \in {"replying", "failing"} => Request(j)
           /\ kind(j) = "initialize" => fail(j) = "failing"
           /\ kind(j) = "initialized" => fail(j) = "aborting"
  BY DEF IInv, Answerable, Request, fail

LEMMA StartPreserves ==
    ASSUME IInv, TypeOK', NEW j \in Read, Start(j)
    PROVE  IInv'
  <1>1. /\ pc[j] = "queued" /\ Goto(j, "waiting")
        /\ UNCHANGED <<msg, read, init, inflight, answers, session, accepted>>
    BY DEF Start
  <1>2. ReadOnce' /\ Barrier' /\ Answerable' /\ HoldsId' /\ Unanswered'
    BY <1>1, JobMoves
  <1>3. SessionAccepted' /\ BegunByInitialize' /\ SeenOnItsWay'
    BY <1>1, SessionStays
  <1> QED BY <1>2, <1>3 DEF IInv

\* A job that may not be sent yet is not; an owner that gives up fails.
LEMMA IdentityPreserves ==
    ASSUME IInv, TypeOK', NEW j \in Read, requestIdentity(j)
    PROVE  IInv'
  <1>1. /\ pc[j] = "waiting"
        /\ UNCHANGED <<msg, read, init, inflight, answers, session, accepted>>
        /\ \/ HasIdentity(j) /\ Goto(j, "sent")
           \/ ~HasIdentity(j) /\ Goto(j, fail(j))
    BY DEF requestIdentity, GivesUp
  <1>2. CASE HasIdentity(j) /\ Goto(j, "sent")
    <2>1. ~Lifecycle(j) => {"initialize", "initialized"} \subseteq accepted
      BY <1>2 DEF HasIdentity, Lifecycle, IInv, SessionAccepted
    <2>2. ReadOnce' /\ Barrier' /\ Answerable' /\ HoldsId' /\ Unanswered'
      BY <1>1, <1>2, <2>1, JobMoves
    <2>3. session.state \in {"initializing", "waiting"} /\ OnItsWay(j) => session.state = "waiting"
      BY <1>2 DEF HasIdentity, OnItsWay
    <2>4. SessionAccepted' /\ BegunByInitialize' /\ SeenOnItsWay'
      BY <1>1, <1>2, <2>3, SessionStays
    <2> QED BY <2>2, <2>4 DEF IInv
  <1>3. CASE ~HasIdentity(j) /\ Goto(j, fail(j))
    <2>1. kind(j) # "initialize"
      BY <1>3 DEF HasIdentity
    <2>2. /\ fail(j) \in {"failing", "aborting", "replying", "finishing"}
          /\ fail(j) \in {"replying", "failing"} => Request(j)
          /\ kind(j) = "initialized" => fail(j) = "aborting"
      BY <1>1, FailedJob
    <2>3. ReadOnce' /\ Barrier' /\ Answerable' /\ HoldsId' /\ Unanswered'
      BY <1>1, <1>3, <2>2, JobMoves
    <2>4. ~(session.state = "initializing" /\ session.init = j)
      BY <2>1 DEF IInv, BegunByInitialize
    <2>5. SessionAccepted' /\ BegunByInitialize' /\ SeenOnItsWay'
      BY <1>1, <1>3, <2>2, <2>4, SessionStays DEF OnItsWay
    <2> QED BY <2>3, <2>5 DEF IInv
  <1> QED BY <1>1, <1>2, <1>3

LEMMA ReplyPreserves ==
    ASSUME IInv, TypeOK', NEW j \in Read, Reply(j)
    PROVE  IInv'
  <1>1. /\ pc[j] \in {"replying", "failing"} /\ Answer(j)
        /\ UNCHANGED <<msg, read, init, inflight, session, accepted>>
    BY DEF Reply
  <1>2. PICK l \in {"aborting", "finishing"} : Goto(j, l) /\ (pc[j] = "failing" => l = "aborting")
    BY DEF Reply
  <1>3. ReadOnce' /\ Barrier' /\ Answerable' /\ HoldsId' /\ Unanswered'
    BY <1>1, <1>2, JobMoves
  <1>4. SessionAccepted' /\ BegunByInitialize' /\ SeenOnItsWay'
    BY <1>1, <1>2, SessionStays DEF IInv, BegunByInitialize, OnItsWay
  <1> QED BY <1>3, <1>4 DEF IInv

\* An owner that is aborted takes the session with it.
LEMMA AbortPreserves ==
    ASSUME IInv, TypeOK', NEW j \in Read, abortLifecycle(j)
    PROVE  IInv'
  <1>1. /\ pc[j] = "aborting" /\ Goto(j, "finishing")
        /\ UNCHANGED <<msg, read, init, inflight, answers, accepted>>
        /\ session' = IF kind(j) = "initialize" THEN failInitialization(j) ELSE failInitialized(j)
    BY DEF abortLifecycle
  <1>2. ReadOnce' /\ Barrier' /\ Answerable' /\ HoldsId' /\ Unanswered'
    BY <1>1, JobMoves
  <1>3. CASE session' = Failed(session)
    <2>1. session'.state = "failed"
      BY <1>3, SessionTypes DEF IInv
    <2> QED BY <1>2, <2>1 DEF IInv, SessionAccepted, BegunByInitialize, SeenOnItsWay
  <1>4. CASE session' # Failed(session)
    <2>1. session' = session
      BY <1>1, <1>4 DEF failInitialization, failInitialized
    <2>2. ~(session.state = "initializing" /\ session.init = j)
      BY <1>1, <1>4 DEF IInv, BegunByInitialize, failInitialization
    <2>3. ~(session.state \in {"initializing", "waiting"} /\ OnItsWay(j))
      BY <1>1, <1>4 DEF OnItsWay, failInitialized
    <2>4. SessionAccepted' /\ BegunByInitialize' /\ SeenOnItsWay'
      BY <1>1, <2>1, <2>2, <2>3, SessionStays
    <2> QED BY <1>2, <2>4 DEF IInv
  <1> QED BY <1>3, <1>4

LEMMA FinishPreserves ==
    ASSUME IInv, TypeOK', NEW j \in Read, finish(j)
    PROVE  IInv'
  <1>1. /\ pc[j] = "finishing" /\ Goto(j, "done")
        /\ UNCHANGED <<msg, read, answers, session, accepted>>
        /\ inflight' = [i \in Ids |-> IF inflight[i] = j THEN 0 ELSE inflight[i]]
        /\ init' = [init EXCEPT ![j] = 0]
    BY DEF finish
  <1>2. ReadOnce' /\ Barrier' /\ Answerable' /\ HoldsId' /\ Unanswered'
    BY <1>1, JobMoves
  <1>3. \A k \in Lines : k # j => init'[k] = init[k]
    BY <1>1 DEF IInv, TypeOK
  <1>4. SessionAccepted' /\ BegunByInitialize' /\ SeenOnItsWay'
    BY <1>1, <1>3, SessionStays DEF IInv, BegunByInitialize, OnItsWay
  <1> QED BY <1>2, <1>4 DEF IInv

\* The Gateway's answer completes the session of its owner, and no other.
LEMMA RespondPreserves ==
    ASSUME IInv, TypeOK', NEW j \in Read, Respond(j)
    PROVE  IInv'
  <1>1. pc[j] = "sent" /\ UNCHANGED <<msg, read, init, inflight, answers>>
    BY DEF Respond
  <1>2. j \in Lines /\ Read' = Read /\ Read \subseteq Lines
    BY <1>1, Shapes DEF IInv, Read
  <1>3. CASE InitializeAccepted(j)
    <2>1. /\ kind(j) = "initialize" /\ session' = completeInitialization(j)
          /\ accepted' = accepted \cup {"initialize"} /\ Goto(j, "replying")
      BY <1>3 DEF InitializeAccepted
    <2>2. Request(j)
      BY <1>1, <2>1 DEF IInv, Answerable, Request
    <2>3. ReadOnce' /\ Barrier' /\ Answerable' /\ HoldsId' /\ Unanswered'
      BY <1>1, <2>1, <2>2, JobMoves
    <2>4. CASE session.state = "initializing" /\ session.init = init[j]
      <3>1. session' = [state |-> "waiting", init |-> session.init, seen |-> session.seen]
        BY <2>1, <2>4, SessionTypes DEF IInv, completeInitialization
      <3>2. session'.state = "waiting" /\ session'.init = session.init
        BY <3>1
      <3>3. session'.seen = session.seen
        BY <3>1
      <3>4. SessionAccepted' /\ BegunByInitialize'
        BY <1>2, <2>1, <2>4, <3>2 DEF IInv, SessionAccepted, BegunByInitialize
      <3>5. SeenOnItsWay'
        <4> SUFFICES ASSUME session.seen PROVE \E k \in Read : OnItsWay(k)'
          BY <1>2, <3>3 DEF SeenOnItsWay
        <4>1. PICK k \in Read : OnItsWay(k)
          BY <2>4 DEF IInv, SeenOnItsWay
        <4>2. k # j /\ pc'[k] = pc[k] /\ kind(k)' = kind(k)
          BY <1>1, <1>2, <2>1, <4>1 DEF OnItsWay, IInv, TypeOK, Goto, kind
        <4>3. OnItsWay(k)'
          BY <1>1, <3>2, <4>1, <4>2 DEF OnItsWay
        <4> QED BY <4>3
      <3> QED BY <2>3, <3>4, <3>5 DEF IInv
    <2>5. CASE ~(session.state = "initializing" /\ session.init = init[j])
      <3>1. session' = session
        BY <2>1, <2>5 DEF completeInitialization
      <3>2. ~(session.state = "initializing" /\ session.init = j)
        BY <2>5 DEF IInv, BegunByInitialize
      <3>3. ~OnItsWay(j)
        BY <2>1 DEF OnItsWay
      <3>4. SessionAccepted' /\ BegunByInitialize' /\ SeenOnItsWay'
        BY <1>1, <2>1, <3>1, <3>2, <3>3, SessionStays
      <3> QED BY <2>3, <3>4 DEF IInv
    <2> QED BY <2>4, <2>5
  <1>4. CASE InitializedAccepted(j)
    <2>1. /\ kind(j) = "initialized" /\ session' = completeInitialized(j)
          /\ accepted' = accepted \cup {"initialized"} /\ Goto(j, "finishing")
      BY <1>4 DEF InitializedAccepted
    <2>2. ReadOnce' /\ Barrier' /\ Answerable' /\ HoldsId' /\ Unanswered'
      BY <1>1, <2>1, JobMoves
    <2>3. CASE init[j] # 0 /\ session.state = "waiting" /\ session.init = init[j]
      <3>1. session' = [state |-> "initialized", init |-> 0, seen |-> FALSE]
        BY <2>1, <2>3 DEF completeInitialized
      <3>2. session'.state = "initialized"
        BY <3>1
      <3>3. "initialize" \in accepted
        BY <2>3 DEF IInv, SessionAccepted
      <3> QED BY <2>1, <2>2, <3>2, <3>3 DEF IInv, SessionAccepted, BegunByInitialize, SeenOnItsWay
    <2>4. CASE ~(init[j] # 0 /\ session.state = "waiting" /\ session.init = init[j])
      <3>1. session' = session
        BY <2>1, <2>4 DEF completeInitialized
      <3>2. ~(session.state = "initializing" /\ session.init = j)
        BY <2>1 DEF IInv, BegunByInitialize
      <3>3. ~(session.state \in {"initializing", "waiting"} /\ OnItsWay(j))
        <4> SUFFICES ASSUME session.state \in {"initializing", "waiting"}, OnItsWay(j) PROVE FALSE
          OBVIOUS
        <4>1. session.state = "waiting" /\ init[j] = session.init
          BY <1>1 DEF OnItsWay
        <4>2. session.init # 0
          BY <4>1 DEF IInv, TypeOK, BegunByInitialize, Read
        <4> QED BY <2>4, <4>1, <4>2
      <3>4. SessionAccepted' /\ BegunByInitialize' /\ SeenOnItsWay'
        BY <1>1, <2>1, <3>1, <3>2, <3>3, SessionStays
      <3> QED BY <2>2, <3>4 DEF IInv
    <2> QED BY <2>3, <2>4
  <1>5. CASE OtherAnswer(j)
    <2>1. Goto(j, fail(j)) /\ UNCHANGED <<session, accepted>>
      BY <1>5 DEF OtherAnswer
    <2>2. /\ fail(j) \in {"failing", "aborting", "replying", "finishing"}
          /\ fail(j) \in {"replying", "failing"} => Request(j)
          /\ kind(j) = "initialize" => fail(j) = "failing"
          /\ kind(j) = "initialized" => fail(j) = "aborting"
      BY <1>1, FailedJob
    <2>3. ReadOnce' /\ Barrier' /\ Answerable' /\ HoldsId' /\ Unanswered'
      BY <1>1, <2>1, <2>2, JobMoves
    <2>4. SessionAccepted' /\ BegunByInitialize' /\ SeenOnItsWay'
      <3>1. session.state = "initializing" /\ session.init = j => kind(j) = "initialize"
        BY DEF IInv, BegunByInitialize
      <3> QED BY <1>1, <2>1, <2>2, <3>1, SessionStays DEF OnItsWay
    <2> QED BY <2>3, <2>4 DEF IInv
  <1> QED BY <1>3, <1>4, <1>5 DEF Respond

LEMMA RoundTripPreserves ==
    ASSUME IInv, TypeOK', NEW j \in Read, RoundTripEnds(j)
    PROVE  IInv'
  <1>1. pc[j] = "sent" /\ UNCHANGED <<msg, read, init, inflight, answers, session, accepted>>
    BY DEF RoundTripEnds
  <1>2. /\ fail(j) \in {"failing", "aborting", "replying", "finishing"}
        /\ fail(j) \in {"replying", "failing"} => Request(j)
        /\ kind(j) = "initialize" => fail(j) = "failing"
        /\ kind(j) = "initialized" => fail(j) = "aborting"
    BY <1>1, FailedJob
  <1>3. PICK l \in {"failing", "aborting", "replying", "finishing"} :
            /\ Goto(j, l)
            /\ l \in {"replying", "failing"} => Request(j)
            /\ kind(j) = "initialize" => l \in {"failing", "aborting"}
            /\ kind(j) = "initialized" => l = "aborting"
    BY <1>2 DEF RoundTripEnds, Lifecycle
  <1>4. ReadOnce' /\ Barrier' /\ Answerable' /\ HoldsId' /\ Unanswered'
    BY <1>1, <1>3, JobMoves
  <1>5. session.state = "initializing" /\ session.init = j => kind(j) = "initialize"
    BY DEF IInv, BegunByInitialize
  <1>6. SessionAccepted' /\ BegunByInitialize' /\ SeenOnItsWay'
    BY <1>1, <1>3, <1>5, SessionStays DEF OnItsWay
  <1> QED BY <1>4, <1>6 DEF IInv

LEMMA SendPreserves ==
    ASSUME IInv, TypeOK', NEW j \in Read, SendInitialized(j)
    PROVE  IInv'
  <1>1. /\ pc[j] = "sending" /\ Goto(j, "queued")
        /\ UNCHANGED <<msg, read, init, inflight, answers, session, accepted>>
    BY DEF SendInitialized
  <1>2. ReadOnce' /\ Barrier' /\ Answerable' /\ HoldsId' /\ Unanswered'
    BY <1>1, JobMoves
  <1>3. SessionAccepted' /\ BegunByInitialize' /\ SeenOnItsWay'
    BY <1>1, SessionStays
  <1> QED BY <1>2, <1>3 DEF IInv

LEMMA AbandonPreserves ==
    ASSUME IInv, TypeOK', NEW j \in Read, AbandonSend(j)
    PROVE  IInv'
  <1>1. /\ pc[j] = "sending" /\ Goto(j, "done") /\ session' = failInitialized(j)
        /\ UNCHANGED <<msg, read, init, inflight, answers, accepted>>
    BY DEF AbandonSend
  <1>2. ReadOnce' /\ Barrier' /\ Answerable' /\ HoldsId' /\ Unanswered'
    BY <1>1, JobMoves
  <1>3. CASE session' = Failed(session)
    <2>1. session'.state = "failed"
      BY <1>3, SessionTypes DEF IInv
    <2> QED BY <1>2, <2>1 DEF IInv, SessionAccepted, BegunByInitialize, SeenOnItsWay
  <1>4. CASE session' # Failed(session)
    <2>1. session' = session
      BY <1>1, <1>4 DEF failInitialized
    <2>2. ~(session.state = "initializing" /\ session.init = j)
      BY <1>1 DEF IInv, BegunByInitialize
    <2>3. ~(session.state \in {"initializing", "waiting"} /\ OnItsWay(j))
      BY <1>1, <1>4 DEF OnItsWay, failInitialized
    <2>4. SessionAccepted' /\ BegunByInitialize' /\ SeenOnItsWay'
      BY <1>1, <2>1, <2>2, <2>3, SessionStays
    <2> QED BY <1>2, <2>4 DEF IInv
  <1> QED BY <1>3, <1>4

\* Contexts, timers, the shutdown and the end of the input touch no job's
\* progress and no session.
LEMMA OutsidePreserves ==
    ASSUME IInv, TypeOK',
           UNCHANGED <<msg, read, pc, init, inflight, answers, session, accepted>>
    PROVE  IInv'
  <1>1. Read' = Read /\ \A j \in Lines : kind(j)' = kind(j) /\ id(j)' = id(j)
    BY DEF Read, kind, id
  <1>2. ReadOnce' /\ Unanswered' /\ SessionAccepted'
    BY <1>1 DEF IInv, ReadOnce, Unanswered, SessionAccepted
  <1>3. Barrier' /\ Answerable' /\ HoldsId'
    BY <1>1, Shapes DEF IInv, Barrier, Answerable, HoldsId, Request, Lifecycle
  <1>4. BegunByInitialize' /\ SeenOnItsWay'
    BY <1>1, Shapes DEF IInv, BegunByInitialize, SeenOnItsWay, OnItsWay, kind
  <1> QED BY <1>2, <1>3, <1>4 DEF IInv

----------------------------------------------------------------------------
(* The invariant. *)

LEMMA InitEstablishes == Init => IInv
  <1> SUFFICES ASSUME Init PROVE IInv
    OBVIOUS
  <1>1. Len(msg) \in Nat /\ MaxLines \in Nat
    BY BoundAssumption, ScriptAssumption DEF Init
  <1>2. PICK configured \in BOOLEAN :
          /\ session = [state |-> IF configured THEN "initialized" ELSE "uninitialized",
                        init |-> 0, seen |-> FALSE]
          /\ accepted = IF configured THEN {"initialize", "initialized"} ELSE {}
    BY DEF Init
  <1>3. (IF configured THEN "initialized" ELSE "uninitialized") \in States
    BY DEF States
  <1>4. session \in [state : States, init : 0..MaxLines, seen : BOOLEAN]
    BY <1>1, <1>2, <1>3, SessionRecords
  <1>5. accepted \subseteq {"initialize", "initialized"}
    BY <1>2
  <1>6. TypeOK
    <2>1. /\ msg \in Scripts /\ reader = "scan" /\ read = 0 /\ pc = [j \in Lines |-> "unread"]
          /\ cause = [j \in Lines |-> "none"] /\ init = [j \in Lines |-> 0]
          /\ answers = [j \in Lines |-> 0] /\ inflight = [i \in Ids |-> 0] /\ forwarded = {}
          /\ shutdown = FALSE /\ broken = FALSE
      BY DEF Init
    <2>2. read \in 0..Len(msg) /\ 0 \in 0..MaxLines
      BY <1>1, <2>1
    <2> QED BY <1>4, <1>5, <2>1, <2>2 DEF TypeOK, Labels
  <1>7. Read = {}
    BY DEF Init, Read
  <1>8. session.state \in {"uninitialized", "initialized"}
    BY <1>2
  <1>9. session.state = "initialized" => accepted = {"initialize", "initialized"}
    BY <1>2
  <1>10. SessionAccepted /\ BegunByInitialize /\ SeenOnItsWay
    BY <1>8, <1>9 DEF SessionAccepted, BegunByInitialize, SeenOnItsWay
  <1>11. ReadOnce /\ Barrier /\ Answerable /\ HoldsId /\ Unanswered
    BY <1>7 DEF Init, ReadOnce, Barrier, Answerable, HoldsId, Unanswered
  <1> QED BY <1>6, <1>10, <1>11 DEF IInv

LEMMA StepPreserves == IInv /\ [Next]_vars => IInv'
  <1> SUFFICES ASSUME IInv, [Next]_vars PROVE IInv'
    OBVIOUS
  <1>1. TypeOK'
    BY TypePreserved DEF IInv
  <1>2. CASE ReadLine
    BY <1>1, <1>2, ScanPreserves
  <1>3. CASE Stop \/ Return \/ Shutdown \/ Break \/ UNCHANGED vars
    BY <1>1, <1>3, OutsidePreserves DEF Stop, Return, Shutdown, Break
  <1>4. ASSUME NEW j \in Read, Worker(j) PROVE IInv'
    BY <1>1, <1>4, StartPreserves, IdentityPreserves, ReplyPreserves, AbortPreserves, FinishPreserves
       DEF Worker
  <1>5. ASSUME NEW j \in Read,
               Respond(j) \/ RoundTripEnds(j) \/ SendInitialized(j) \/ AbandonSend(j)
        PROVE  IInv'
    BY <1>1, <1>5, RespondPreserves, RoundTripPreserves, SendPreserves, AbandonPreserves
  <1>6. ASSUME NEW j \in Read, Timeout(j) PROVE IInv'
    BY <1>1, <1>6, OutsidePreserves DEF Timeout
  <1> QED BY <1>2, <1>3, <1>4, <1>5, <1>6 DEF Next

\* The invariant holds in every reachable state of the bridge.
THEOREM Inductive == Spec => []IInv
  <1>1. IInv /\ [Next]_vars => IInv'
    BY StepPreserves
  <1> QED BY <1>1, InitEstablishes, PTL DEF Spec

\* The bridge's variables keep their types.
THEOREM TypeCorrect == Spec => []TypeOK
  <1>1. IInv => TypeOK
    BY DEF IInv
  <1> QED BY <1>1, Inductive, PTL

\* requestIdentity's barrier, for any lines, workers and queue capacities: a
\* message that is not of the lifecycle is with the Gateway only if the Gateway
\* has accepted initialize and notifications/initialized.
THEOREM BarrierHolds == Spec => []Barrier
  <1>1. IInv => Barrier
    BY DEF IInv
  <1> QED BY <1>1, Inductive, PTL

\* rejectOverloaded, abortLifecycle and the completions leave no session behind:
\* one that is initializing still has its initialize, one that has seen the
\* notification still has it.
THEOREM SessionHasOwners == Spec => []NoOrphanSession
  <1>1. IInv => NoOrphanSession
    <2> SUFFICES ASSUME IInv PROVE NoOrphanSession
      OBVIOUS
    <2>1. ASSUME session.state = "initializing"
          PROVE  \E j \in Read : kind(j) = "initialize" /\ init[j] = session.init /\ pc[j] # "done"
      <3>1. /\ session.init \in Read /\ kind(session.init) = "initialize"
            /\ init[session.init] = session.init /\ pc[session.init] # "done"
        BY <2>1 DEF IInv, BegunByInitialize
      <3> QED BY <3>1
    <2>2. ASSUME session.state = "waiting", session.seen
          PROVE  \E j \in Read : kind(j) = "initialized" /\ init[j] = session.init /\ pc[j] # "done"
      BY <2>2 DEF IInv, SeenOnItsWay, OnItsWay
    <2> QED BY <2>1, <2>2 DEF NoOrphanSession
  <1> QED BY <1>1, Inductive, PTL

----------------------------------------------------------------------------
(* Answers *)

\* A line that is answered was not answered before, and holds its id if it has
\* a job.
OneAnswer ==
    \A j \in Lines : answers'[j] # answers[j] =>
        /\ answers[j] = 0 /\ answers'[j] = 1
        /\ pc[j] # "unread" => inflight[id(j)] = j

\* The scan loop answers only the line that it reads.
LEMMA LineAnswered ==
    ASSUME IInv, NEW K, Scan(K), answers' = answers \/ Answer(line)
    PROVE  OneAnswer
  <1>1. line \in Lines /\ line \notin Read
    BY Scanned DEF IInv
  <1>2. pc[line] = "unread" /\ answers[line] = 0
    BY <1>1 DEF IInv, ReadOnce, Unanswered
  <1>3. \A j \in Lines : answers'[j] # answers[j] => j = line /\ answers'[j] = answers[j] + 1
    BY <1>1 DEF IInv, TypeOK, Answer
  <1> QED BY <1>2, <1>3 DEF OneAnswer

LEMMA StepAnswers == IInv /\ [Next]_vars => OneAnswer
  <1> SUFFICES ASSUME IInv, [Next]_vars PROVE OneAnswer
    OBVIOUS
  <1>1. CASE ReadLine
    <2>1. PICK K : Scan(K)
      BY <1>1 DEF ReadLine, ReadInvalid, ReadCancel, ReadDuplicate, ReadCall, ReadInitialize,
         RefuseInitialize, ReadInitialized, RefuseInitialized, AbandonLine
    <2>2. answers' = answers \/ Answer(line)
      BY <1>1 DEF ReadLine, ReadInvalid, ReadCancel, ReadDuplicate, ReadCall, ReadInitialize,
         RefuseInitialize, ReadInitialized, RefuseInitialized, AbandonLine, ReplyAtOnce, Enqueue,
         CancelReply
    <2> QED BY <2>1, <2>2, LineAnswered
  <1>2. ASSUME NEW j \in Read, Reply(j) PROVE OneAnswer
    <2>1. pc[j] \in {"replying", "failing"} /\ Answer(j) /\ j \in Lines
      BY <1>2, Shapes DEF Reply, IInv
    <2>2. answers[j] = 0 /\ inflight[id(j)] = j
      BY <2>1 DEF IInv, Unanswered, Answerable, HoldsId
    <2>3. \A k \in Lines : answers'[k] # answers[k] => k = j /\ answers'[k] = answers[k] + 1
      BY <2>1 DEF IInv, TypeOK, Answer
    <2> QED BY <2>2, <2>3 DEF OneAnswer
  <1>3. CASE answers' = answers
    BY <1>3 DEF OneAnswer
  <1> QED BY <1>1, <1>2, <1>3 DEF Next, Worker, Stop, Return, Shutdown, Break, Start, requestIdentity,
             abortLifecycle, finish, Respond, RoundTripEnds, Timeout, SendInitialized, AbandonSend

\* writeLine is called at most once for a line, and for a line with a job only
\* while the inflight table still gives its id to that job.
THEOREM AnsweredOnce == Spec => UnambiguousAnswers
  <1>1. IInv /\ [Next]_vars => OneAnswer
    BY StepAnswers
  <1>2. UnambiguousAnswers <=> [][OneAnswer]_vars
    BY DEF UnambiguousAnswers, OneAnswer
  <1> QED BY <1>1, <1>2, Inductive, PTL DEF Spec
=============================================================================
