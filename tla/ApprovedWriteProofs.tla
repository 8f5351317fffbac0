------------------------ MODULE ApprovedWriteProofs ------------------------
(***************************************************************************)
(* TLAPS proofs about ApprovedWrite, for any calls, ids, sessions and      *)
(* contents, any lifetime, and any number of tokens and crashes.           *)
(*                                                                         *)
(* The argument for single use is the order of two facts of the store: an  *)
(* id is registered once, and Take removes its challenge before a worker   *)
(* can be started.  So a call past Take has used up the only challenge its *)
(* id will ever have, and that challenge is what it was checked against.   *)
(***************************************************************************)
EXTENDS ApprovedWrite, TLAPS

Labels == {"idle", "preflighted", "registered", "unstored", "inspected", "prewritten",
           "verifying", "taken", "approved", "running", "executed", "done"}

Requests == [apply : BOOLEAN, session : Sessions, before : Contents, after : Contents,
             token : Claims \cup {NoToken}]

TypeOK ==
    /\ mode \in Modes
    /\ now \in 0..MaxNow
    /\ file \in Contents
    /\ live \subseteq drawn /\ drawn \subseteq Sessions
    /\ crashes \in 0..MaxCrashes
    /\ challenges \subseteq registered /\ registered \subseteq Claims
    /\ DOMAIN used \subseteq Ids
    /\ tokens \subseteq Claims
    /\ failed \in BOOLEAN /\ torn \in BOOLEAN
    /\ pc \in [Calls -> Labels]
    /\ call \in [Calls -> Requests \cup {NoCall}]
    /\ \A c \in Calls : pc[c] # "idle" => call[c] \in Requests
    /\ \A c \in Calls : pc[c] \in {"verifying", "taken"} => call[c].token # NoToken
    /\ clock \in [Calls -> 0..MaxNow]
    /\ status \in [Calls -> {"none", "denied", "error", "success"}]
    /\ reply \in [Calls -> {"none", "challenge", "denied", "error", "written", "unconfirmed"}]
    /\ launched \subseteq Calls /\ committed \subseteq Calls

\* Where a call can be, given what it has done so far.
Progress ==
    \A c \in Calls :
        /\ pc[c] = "idle" => ~Logged(c, "started") /\ ~Logged(c, "success")
        /\ reply[c] # "none" => pc[c] = "done"
        /\ status[c] # "none" => pc[c] = "executed"
        /\ status[c] = "denied" => c \notin launched
        /\ status[c] = "success" => c \in committed
        /\ c \in launched => pc[c] \in {"running", "executed", "done"}
        /\ pc[c] \in {"registered", "unstored"} => ~call[c].apply
        /\ pc[c] = "verifying" => SameBinding(call[c].token, call[c])

\* From the record on, the call is announced in the audit file.
StartRecorded ==
    \A c \in Calls :
        pc[c] \in {"prewritten", "verifying", "taken", "approved", "running"} \/ c \in launched
            => Logged(c, "started")

\* A challenge that has gone was taken by a call that is announced.
TakenIsRecorded ==
    \A r \in registered \ challenges : \E c \in Calls :
        call[c].token # NoToken /\ call[c].token.id = r.id /\ Logged(c, "started")

\* The call has taken its challenge.
PastTake(c) ==
    /\ mode = "server_token"
    /\ pc[c] \in {"taken", "approved", "running"} \/ c \in launched

\* It was the challenge of this write ...
TakenWasReviewed ==
    \A c \in Calls : PastTake(c) =>
        \E r \in registered :
            /\ r.id = call[c].token.id
            /\ SameBinding(r, call[c])
            /\ call[c].token.expires <= r.expires

\* ... there is no other of its id, and no other call has taken one.
TakenIsGone ==
    /\ \A c \in Calls : PastTake(c) => \A r \in challenges : r.id # call[c].token.id
    /\ \A c, d \in Calls : PastTake(c) /\ PastTake(d) /\ c # d => call[c].token.id # call[d].token.id

IInv ==
    /\ TypeOK
    /\ Progress
    /\ StartRecorded
    /\ TakenIsRecorded
    /\ TakenWasReviewed
    /\ TakenIsGone
    /\ AnswerAgreesWithAudit

----------------------------------------------------------------------------
\* The variable tuples are expanded everywhere below.
USE DEF vars, auditVars, storeVars, gateVars

\* What the logger may have done to the file: lines are only added, and only
\* the line it was given.
Grows(c, what) ==
    /\ \A d, w : Logged(d, w) => Logged(d, w)'
    /\ \A d, w : Logged(d, w)' => Logged(d, w) \/ (d = c /\ w = what)

\* Logger.record adds its line or nothing, whatever it returns, and has added
\* it when it returns without an error.
LEMMA RecordGrows ==
    ASSUME NEW c, NEW what
    PROVE  /\ RecordBestEffort(c, what) => Grows(c, what)
           /\ Appended(c, what) => Grows(c, what) /\ Logged(c, what)'
           /\ NotAppended(c, what) => Grows(c, what)
  BY DEF RecordBestEffort, Appended, NotAppended, Grows, Logged

\* Every initial state satisfies the inductive invariant.
LEMMA InitEstablishes == Init => IInv
  <1> SUFFICES ASSUME Init PROVE IInv
    OBVIOUS
  <1>1. TypeOK
    <2>1. DOMAIN used = {}
      BY DEF Init
    <2>2. call \in [Calls -> Requests \cup {NoCall}]
      BY DEF Init
    <2>3. /\ pc \in [Calls -> Labels] /\ \A c \in Calls : pc[c] = "idle"
          /\ clock \in [Calls -> 0..MaxNow]
      BY LimitAssumption DEF Init, Labels
    <2>4. /\ status \in [Calls -> {"none", "denied", "error", "success"}]
          /\ reply \in [Calls -> {"none", "challenge", "denied", "error", "written", "unconfirmed"}]
      BY DEF Init
    <2>5. failed \in BOOLEAN /\ torn \in BOOLEAN
      BY DEF Init
    <2>6. now \in 0..MaxNow /\ crashes \in 0..MaxCrashes
      BY LimitAssumption DEF Init
    <2>7. /\ mode \in Modes /\ file \in Contents /\ live \subseteq drawn /\ drawn \subseteq Sessions
          /\ challenges \subseteq registered /\ registered \subseteq Claims /\ tokens \subseteq Claims
          /\ launched \subseteq Calls /\ committed \subseteq Calls
      BY DEF Init
    <2> QED BY <2>1, <2>2, <2>3, <2>4, <2>5, <2>6, <2>7 DEF TypeOK
  <1>2. Progress /\ StartRecorded /\ TakenIsRecorded
    BY DEF Init, Progress, StartRecorded, TakenIsRecorded, Logged
  <1>3. TakenWasReviewed /\ TakenIsGone /\ AnswerAgreesWithAudit
    BY DEF Init, PastTake, TakenWasReviewed, TakenIsGone, AnswerAgreesWithAudit, Logged
  <1> QED BY <1>1, <1>2, <1>3 DEF IInv

\* Every step preserves the types of the variables.
LEMMA TypePreserved == TypeOK /\ [Next]_vars => TypeOK'
  <1> SUFFICES ASSUME TypeOK, [Next]_vars PROVE TypeOK'
    OBVIOUS
  <1> USE LimitAssumption DEF TypeOK, Labels
  <1>1. ASSUME NEW c \in Calls, Preflight(c) PROVE TypeOK'
    <2>1. call' \in [Calls -> Requests \cup {NoCall}] /\ call'[c] \in Requests
      BY <1>1 DEF Preflight, Requests
    <2>2. UNCHANGED auditVars \/ RecordBestEffort(c, "error")
      BY <1>1 DEF Preflight
    <2>3. failed' \in BOOLEAN /\ torn' \in BOOLEAN
      BY <2>2 DEF RecordBestEffort, Appended, NotAppended
    <2> QED BY <1>1, <2>1, <2>3 DEF Preflight, Goto, Answer
  <1>2. ASSUME NEW c \in Calls, Register(c) PROVE TypeOK'
    BY <1>2 DEF Register, Goto, NewChallenge, Claims, Requests
  <1>3. ASSUME NEW c \in Calls, AnswerDryRun(c) PROVE TypeOK'
    BY <1>3 DEF AnswerDryRun, Answer, Goto, RecordBestEffort, Appended, NotAppended
  <1>4. ASSUME NEW c \in Calls, Inspect(c) PROVE TypeOK'
    BY <1>4 DEF Inspect, Goto, Answer, RecordBestEffort, Appended, NotAppended
  <1>5. ASSUME NEW c \in Calls, Prewrite(c) PROVE TypeOK'
    BY <1>5 DEF Prewrite, Goto, Answer, Recorded, RecordBestEffort, Appended, NotAppended
  <1>6. ASSUME NEW c \in Calls, VerifyInspect(c) PROVE TypeOK'
    BY <1>6 DEF VerifyInspect, Goto, Inspectable, Authentic
  <1>7. ASSUME NEW c \in Calls, VerifyTake(c) PROVE TypeOK'
    BY <1>7 DEF VerifyTake, Goto
  <1>8. ASSUME NEW c \in Calls, VerifyConsume(c) PROVE TypeOK'
    <2>1. call[c].token \in Claims
      BY <1>8 DEF VerifyConsume, Requests
    <2>2. call[c].token.id \in Ids
      BY <2>1 DEF Claims
    <2>3. DOMAIN used' \subseteq Ids
      BY <1>8, <2>2 DEF VerifyConsume
    <2> QED BY <1>8, <2>3 DEF VerifyConsume, Goto
  <1>9. ASSUME NEW c \in Calls, Launch(c) PROVE TypeOK'
    BY <1>9 DEF Launch, Goto
  <1>10. ASSUME NEW c \in Calls, Commit(c) PROVE TypeOK'
    <2>1. call[c] \in Requests
      BY <1>10 DEF Commit
    <2>2. call[c].after \in Contents
      BY <2>1 DEF Requests
    <2> QED BY <1>10, <2>2 DEF Commit
  <1>11. ASSUME NEW c \in Calls, WorkerExit(c) PROVE TypeOK'
    BY <1>11 DEF WorkerExit, Goto
  <1>12. ASSUME NEW c \in Calls, Complete(c) PROVE TypeOK'
    <2>1. /\ ToolAnswer(c, TRUE) \in {"denied", "written", "error"}
          /\ ToolAnswer(c, FALSE) \in {"denied", "unconfirmed", "error"}
      BY DEF ToolAnswer
    <2>2. failed' \in BOOLEAN /\ torn' \in BOOLEAN
      BY <1>12 DEF Complete, Appended, NotAppended
    <2>3. reply' \in [Calls -> {"none", "challenge", "denied", "error", "written", "unconfirmed"}]
      BY <1>12, <2>1 DEF Complete, Answer
    <2>4. pc' = [pc EXCEPT ![c] = "done"]
      BY <1>12 DEF Complete, Answer, Goto
    <2> QED BY <1>12, <2>2, <2>3, <2>4 DEF Complete
  <1>13. ASSUME NEW s \in Sessions, OpenSession(s) PROVE TypeOK'
    BY <1>13 DEF OpenSession
  <1>14. ASSUME NEW t \in Claims, Sign(t) PROVE TypeOK'
    BY <1>14 DEF Sign
  <1>15. ASSUME Tick PROVE TypeOK'
    BY <1>15 DEF Tick
  <1>16. ASSUME Crash PROVE TypeOK'
    <2>1. crashes' \in 0..MaxCrashes /\ clock' \in [Calls -> 0..MaxNow]
      BY <1>16 DEF Crash
    <2>2. pc' \in [Calls -> Labels] /\ status' \in [Calls -> {"none", "denied", "error", "success"}]
      BY <1>16 DEF Crash
    <2> QED BY <1>16, <2>1, <2>2 DEF Crash
  <1>17. CASE UNCHANGED vars
    BY <1>17
  <1> QED
    BY <1>1, <1>2, <1>3, <1>4, <1>5, <1>6, <1>7, <1>8, <1>9, <1>10, <1>11, <1>12, <1>13,
       <1>14, <1>15, <1>16, <1>17 DEF Next, CallStep

\* A step that leaves the store's challenges, the audit file and the calls alone
\* preserves the invariant.
LEMMA Untouched ==
    ASSUME IInv, TypeOK',
           UNCHANGED <<mode, challenges, registered, log, pc, call, status, reply, launched, committed>>
    PROVE  IInv'
  <1>1. Progress' /\ StartRecorded' /\ TakenIsRecorded'
    BY DEF IInv, Progress, StartRecorded, TakenIsRecorded, Logged
  <1>2. \A c \in Calls : PastTake(c)' = PastTake(c)
    BY DEF PastTake
  <1>3. TakenWasReviewed'
    BY <1>2 DEF IInv, TakenWasReviewed
  <1>4. TakenIsGone'
    BY <1>2 DEF IInv, TakenIsGone
  <1>5. AnswerAgreesWithAudit'
    BY DEF IInv, AnswerAgreesWithAudit, Logged
  <1> QED BY <1>1, <1>3, <1>4, <1>5 DEF IInv

\* Every step preserves the inductive invariant.
LEMMA StepPreserves == IInv /\ [Next]_vars => IInv'
  <1> SUFFICES ASSUME IInv, [Next]_vars PROVE IInv'
    OBVIOUS
  <1>0. TypeOK /\ TypeOK'
    BY TypePreserved DEF IInv
  <1> USE DEF TypeOK
  <1>1. ASSUME NEW c \in Calls, Preflight(c) PROVE IInv'
    <2>1. Grows(c, "error")
      BY <1>1, RecordGrows DEF Preflight, Grows, Logged
    <2>2. Progress'
      BY <1>0, <1>1, <2>1 DEF IInv, Progress, SameBinding, Grows, Preflight, Goto, Answer
    <2>3. StartRecorded'
      BY <1>0, <1>1, <2>1 DEF IInv, StartRecorded, Progress, Grows, Preflight, Goto,
         Answer
    <2>4. TakenIsRecorded'
      BY <1>0, <1>1, <2>1 DEF IInv, TakenIsRecorded, Progress, Grows, Preflight, Goto,
         Answer
    <2>5. TakenWasReviewed'
      BY <1>0, <1>1, <2>1 DEF IInv, TakenWasReviewed, PastTake, Progress, Grows,
         Preflight, Goto, Answer
    <2>6. TakenIsGone'
      BY <1>0, <1>1, <2>1 DEF IInv, TakenIsGone, PastTake, Progress, Grows, Preflight,
         Goto, Answer
    <2>7. AnswerAgreesWithAudit'
      BY <1>0, <1>1, <2>1 DEF IInv, AnswerAgreesWithAudit, Progress, Grows, Preflight,
         Goto, Answer
    <2> QED BY <1>0, <2>2, <2>3, <2>4, <2>5, <2>6, <2>7 DEF IInv
  <1>2. ASSUME NEW c \in Calls, Register(c) PROVE IInv'
    <2>1. Progress'
      BY <1>0, <1>2, SMTT(20) DEF IInv, Progress, SameBinding, Logged, Register, Goto, NewChallenge
    <2>2. StartRecorded'
      BY <1>0, <1>2 DEF IInv, StartRecorded, Progress, Logged, Register, Goto,
         NewChallenge
    <2>3. TakenIsRecorded'
      BY <1>0, <1>2 DEF IInv, TakenIsRecorded, Progress, Logged, Register, Goto,
         NewChallenge
    <2>4. TakenWasReviewed'
      BY <1>0, <1>2 DEF IInv, TakenWasReviewed, PastTake, Progress, Register, Goto,
         NewChallenge
    <2>5. TakenIsGone'
      BY <1>0, <1>2 DEF IInv, TakenIsGone, PastTake, Progress, TakenWasReviewed, Register,
         Goto, NewChallenge
    <2>6. AnswerAgreesWithAudit'
      BY <1>0, <1>2 DEF IInv, AnswerAgreesWithAudit, PastTake, Logged, Register
    <2> QED BY <1>0, <2>1, <2>2, <2>3, <2>4, <2>5, <2>6 DEF IInv
  <1>3. ASSUME NEW c \in Calls, AnswerDryRun(c) PROVE IInv'
    <2>1. IF pc[c] = "registered" THEN Grows(c, "success") ELSE Grows(c, "error")
      BY <1>3, RecordGrows DEF AnswerDryRun
    <2>2. Progress'
      BY <1>0, <1>3, <2>1 DEF IInv, Progress, SameBinding, Grows, AnswerDryRun, Answer,
         Goto
    <2>3. StartRecorded'
      BY <1>0, <1>3, <2>1 DEF IInv, StartRecorded, Progress, Grows, AnswerDryRun, Answer,
         Goto
    <2>4. TakenIsRecorded'
      BY <1>0, <1>3, <2>1 DEF IInv, TakenIsRecorded, Progress, Grows, AnswerDryRun,
         Answer, Goto
    <2>5. TakenWasReviewed'
      BY <1>0, <1>3, <2>1 DEF IInv, TakenWasReviewed, PastTake, Progress, Grows,
         AnswerDryRun, Answer, Goto
    <2>6. TakenIsGone'
      BY <1>0, <1>3, <2>1 DEF IInv, TakenIsGone, PastTake, Progress, Grows, AnswerDryRun,
         Answer, Goto
    <2>7. AnswerAgreesWithAudit'
      BY <1>0, <1>3, <2>1 DEF IInv, AnswerAgreesWithAudit, Progress, Grows, AnswerDryRun,
         Answer, Goto
    <2> QED BY <1>0, <2>2, <2>3, <2>4, <2>5, <2>6, <2>7 DEF IInv
  <1>4. ASSUME NEW c \in Calls, Inspect(c) PROVE IInv'
    <2>1. Grows(c, "denied") \/ Grows(c, "error")
      <3>1. CASE UNCHANGED auditVars
        BY <3>1 DEF Grows, Logged
      <3>2. CASE RecordBestEffort(c, "denied") \/ RecordBestEffort(c, "error")
        BY <3>2, RecordGrows
      <3> QED BY <1>4, <3>1, <3>2 DEF Inspect
    <2>2. Progress'
      BY <1>0, <1>4, <2>1 DEF IInv, Progress, SameBinding, Grows, Inspect, Goto, Answer,
         Inspectable, Authentic, Stored, Bound, SameBinding
    <2>3. StartRecorded'
      BY <1>0, <1>4, <2>1 DEF IInv, StartRecorded, Progress, Grows, Inspect, Goto, Answer,
         Inspectable, Authentic, Stored, Bound, SameBinding
    <2>4. TakenIsRecorded'
      BY <1>0, <1>4, <2>1 DEF IInv, TakenIsRecorded, Progress, Grows, Inspect, Goto,
         Answer, Inspectable, Authentic, Stored, Bound, SameBinding
    <2>5. TakenWasReviewed'
      BY <1>0, <1>4, <2>1 DEF IInv, TakenWasReviewed, PastTake, Progress, Grows, Inspect,
         Goto, Answer, Inspectable, Authentic, Stored, Bound, SameBinding
    <2>6. TakenIsGone'
      BY <1>0, <1>4, <2>1 DEF IInv, TakenIsGone, PastTake, Progress, Grows, Inspect, Goto,
         Answer, Inspectable, Authentic, Stored, Bound, SameBinding
    <2>7. AnswerAgreesWithAudit'
      BY <1>0, <1>4, <2>1 DEF IInv, AnswerAgreesWithAudit, Progress, Grows, Inspect, Goto,
         Answer, Inspectable, Authentic, Stored, Bound, SameBinding
    <2> QED BY <1>0, <2>2, <2>3, <2>4, <2>5, <2>6, <2>7 DEF IInv
  <1>5. ASSUME NEW c \in Calls, Prewrite(c) PROVE IInv'
    <2>1. Grows(c, "started") /\ (pc'[c] = "done" \/ Logged(c, "started")')
      BY <1>0, <1>5, RecordGrows DEF Prewrite, Answer, Goto
    <2>2. Progress'
      BY <1>0, <1>5, <2>1 DEF IInv, Progress, SameBinding, Grows, Prewrite, Goto, Answer,
         Recorded
    <2>3. StartRecorded'
      BY <1>0, <1>5, <2>1 DEF IInv, StartRecorded, Progress, Grows, Prewrite, Goto,
         Answer, Recorded
    <2>4. TakenIsRecorded'
      BY <1>0, <1>5, <2>1 DEF IInv, TakenIsRecorded, Progress, Grows, Prewrite, Goto,
         Answer, Recorded
    <2>5. TakenWasReviewed'
      BY <1>0, <1>5, <2>1 DEF IInv, TakenWasReviewed, PastTake, Progress, Grows, Prewrite,
         Goto, Answer, Recorded
    <2>6. TakenIsGone'
      BY <1>0, <1>5, <2>1 DEF IInv, TakenIsGone, PastTake, Progress, Grows, Prewrite,
         Goto, Answer, Recorded
    <2>7. AnswerAgreesWithAudit'
      BY <1>0, <1>5, <2>1 DEF IInv, AnswerAgreesWithAudit, Progress, Grows, Prewrite,
         Goto, Answer, Recorded
    <2> QED BY <1>0, <2>2, <2>3, <2>4, <2>5, <2>6, <2>7 DEF IInv
  <1>6. ASSUME NEW c \in Calls, VerifyInspect(c) PROVE IInv'
    <2>1. Progress'
      BY <1>0, <1>6 DEF IInv, Progress, SameBinding, Logged, VerifyInspect, Goto,
         Inspectable, Authentic, Stored, Bound, SameBinding
    <2>2. StartRecorded'
      BY <1>0, <1>6 DEF IInv, StartRecorded, Progress, Logged, VerifyInspect, Goto,
         Inspectable, Authentic, Stored, Bound, SameBinding
    <2>3. TakenWasReviewed'
      BY <1>0, <1>6 DEF IInv, TakenWasReviewed, PastTake, Progress, VerifyInspect, Goto,
         Inspectable, Authentic, Stored, Bound, SameBinding
    <2>4. TakenIsGone'
      BY <1>0, <1>6 DEF IInv, TakenIsGone, PastTake, Progress, VerifyInspect, Goto,
         Inspectable, Authentic, Stored, Bound, SameBinding
    <2>5. TakenIsRecorded' /\ AnswerAgreesWithAudit'
      BY <1>0, <1>6 DEF IInv, TakenIsRecorded, AnswerAgreesWithAudit, PastTake, Logged,
         VerifyInspect
    <2> QED BY <1>0, <2>1, <2>2, <2>3, <2>4, <2>5 DEF IInv
  <1>7. ASSUME NEW c \in Calls, VerifyTake(c) PROVE IInv'
    <2>1. Progress'
      BY <1>0, <1>7 DEF IInv, Progress, SameBinding, Logged, VerifyTake, Goto, Stored,
         Bound, SameBinding
    <2>2. StartRecorded'
      BY <1>0, <1>7 DEF IInv, StartRecorded, Progress, Logged, VerifyTake, Goto, Stored,
         Bound, SameBinding
    <2>3. TakenIsRecorded'
      <3> SUFFICES ASSUME NEW r \in registered' \ challenges'
                   PROVE  \E d \in Calls : /\ call'[d].token # NoToken /\ call'[d].token.id = r.id
                                            /\ Logged(d, "started")'
        BY DEF TakenIsRecorded
      <3>1. UNCHANGED <<log, call, registered>>
        BY <1>7 DEF VerifyTake
      <3>2. CASE r \in challenges
        <4>1. r.id = call[c].token.id
          BY <1>7, <3>2 DEF VerifyTake, Gone
        <4>2. call[c].token # NoToken /\ Logged(c, "started")
          BY <1>0, <1>7 DEF IInv, StartRecorded, VerifyTake
        <4> QED BY <3>1, <4>1, <4>2 DEF Logged
      <3>3. CASE r \notin challenges
        BY <3>1, <3>3 DEF IInv, TakenIsRecorded, Logged
      <3> QED BY <3>2, <3>3
    <2>4. TakenWasReviewed'
      BY <1>0, <1>7 DEF IInv, TakenWasReviewed, PastTake, Progress, VerifyTake, Goto,
         Stored, Bound, SameBinding
    <2>5. TakenIsGone'
      BY <1>0, <1>7 DEF IInv, TakenIsGone, PastTake, Progress, VerifyTake, Gone, Goto, Stored,
         Bound, SameBinding
    <2>6. AnswerAgreesWithAudit'
      BY <1>0, <1>7 DEF IInv, AnswerAgreesWithAudit, PastTake, Logged, VerifyTake
    <2> QED BY <1>0, <2>1, <2>2, <2>3, <2>4, <2>5, <2>6 DEF IInv
  <1>8. ASSUME NEW c \in Calls, VerifyConsume(c) PROVE IInv'
    <2>1. /\ pc[c] = "taken"
          /\ \/ pc' = [pc EXCEPT ![c] = "approved"] /\ UNCHANGED status
             \/ pc' = [pc EXCEPT ![c] = "executed"] /\ status' = [status EXCEPT ![c] = "denied"]
          /\ UNCHANGED <<mode, challenges, registered, log, call, reply, launched, committed>>
      BY <1>8 DEF VerifyConsume, Goto
    <2>2. Progress'
      <3>1. \A d \in Calls : pc'[d] \in {"idle", "verifying"} => pc[d] = pc'[d]
        BY <1>0, <2>1
      <3>2. \A d \in Calls : pc'[d] = "idle" => ~Logged(d, "started")' /\ ~Logged(d, "success")'
        BY <2>1, <3>1 DEF IInv, Progress, Logged
      <3>3. \A d \in Calls : pc'[d] = "verifying" => SameBinding(call[d].token, call[d])'
        BY <2>1, <3>1 DEF IInv, Progress, SameBinding
      <3>4. c \notin launched
        BY <2>1 DEF IInv, Progress
      <3> QED BY <1>0, <2>1, <3>2, <3>3, <3>4 DEF IInv, Progress
    <2>3. StartRecorded'
      BY <1>0, <2>1 DEF IInv, StartRecorded, Progress, Logged
    <2>4. TakenWasReviewed'
      BY <1>0, <2>1 DEF IInv, TakenWasReviewed, PastTake, Progress
    <2>5. TakenIsGone'
      BY <1>0, <2>1 DEF IInv, TakenIsGone, PastTake, Progress
    <2>6. TakenIsRecorded' /\ AnswerAgreesWithAudit'
      BY <1>0, <1>8 DEF IInv, TakenIsRecorded, AnswerAgreesWithAudit, PastTake, Logged,
         VerifyConsume
    <2> QED BY <1>0, <2>2, <2>3, <2>4, <2>5, <2>6 DEF IInv
  <1>9. ASSUME NEW c \in Calls, Launch(c) PROVE IInv'
    <2>1. Progress'
      BY <1>0, <1>9 DEF IInv, Progress, SameBinding, Logged, Launch, Goto
    <2>2. StartRecorded'
      BY <1>0, <1>9, SMTT(20) DEF IInv, StartRecorded, Progress, Logged, Launch, Goto
    <2>3. TakenWasReviewed'
      BY <1>0, <1>9 DEF IInv, TakenWasReviewed, PastTake, Progress, Launch, Goto
    <2>4. TakenIsGone'
      BY <1>0, <1>9 DEF IInv, TakenIsGone, PastTake, Progress, Launch, Goto
    <2>5. AnswerAgreesWithAudit'
      BY <1>0, <1>9, ZenonT(30) DEF IInv, AnswerAgreesWithAudit, Progress, Logged, Launch, Goto
    <2>6. TakenIsRecorded'
      BY <1>0, <1>9 DEF IInv, TakenIsRecorded, PastTake, Logged, Launch
    <2> QED BY <1>0, <2>1, <2>2, <2>3, <2>4, <2>5, <2>6 DEF IInv
  <1>10. ASSUME NEW c \in Calls, Commit(c) PROVE IInv'
    <2>1. Progress'
      BY <1>0, <1>10 DEF IInv, Progress, SameBinding, Logged, Commit
    <2>2. AnswerAgreesWithAudit'
      BY <1>0, <1>10 DEF IInv, AnswerAgreesWithAudit, Progress, Logged, Commit
    <2>3. StartRecorded' /\ TakenIsRecorded' /\ TakenWasReviewed' /\ TakenIsGone'
      BY <1>0, <1>10, SMTT(20) DEF IInv, StartRecorded, TakenIsRecorded, TakenWasReviewed,
         TakenIsGone, PastTake, Logged, Commit
    <2> QED BY <1>0, <2>1, <2>2, <2>3 DEF IInv
  <1>11. ASSUME NEW c \in Calls, WorkerExit(c) PROVE IInv'
    <2>1. Progress'
      <3>1. /\ pc[c] = "running" /\ pc' = [pc EXCEPT ![c] = "executed"]
            /\ status' \in {[status EXCEPT ![c] = "error"], [status EXCEPT ![c] = "success"]}
            /\ status' = [status EXCEPT ![c] = "success"] => c \in committed
            /\ UNCHANGED <<log, call, reply, launched, committed>>
        BY <1>0, <1>11 DEF WorkerExit, Goto
      <3>2. \A d \in Calls : pc'[d] \in {"idle", "verifying"} => pc[d] = pc'[d]
        BY <1>0, <3>1
      <3>3. \A d \in Calls : pc'[d] = "idle" => ~Logged(d, "started")' /\ ~Logged(d, "success")'
        BY <3>1, <3>2 DEF IInv, Progress, Logged
      <3>4. \A d \in Calls : pc'[d] = "verifying" => SameBinding(call[d].token, call[d])'
        BY <3>1, <3>2 DEF IInv, Progress, SameBinding
      <3> QED BY <1>0, <3>1, <3>3, <3>4 DEF IInv, Progress
    <2>2. StartRecorded'
      BY <1>0, <1>11 DEF IInv, StartRecorded, Progress, Logged, WorkerExit, Goto
    <2>3. TakenWasReviewed'
      BY <1>0, <1>11 DEF IInv, TakenWasReviewed, PastTake, Progress, WorkerExit, Goto
    <2>4. TakenIsGone'
      BY <1>0, <1>11 DEF IInv, TakenIsGone, PastTake, Progress, WorkerExit, Goto
    <2>5. TakenIsRecorded' /\ AnswerAgreesWithAudit'
      BY <1>0, <1>11 DEF IInv, TakenIsRecorded, AnswerAgreesWithAudit, PastTake, Logged,
         WorkerExit
    <2> QED BY <1>0, <2>1, <2>2, <2>3, <2>4, <2>5 DEF IInv
  <1>12. ASSUME NEW c \in Calls, Complete(c) PROVE IInv'
    <2>1. Grows(c, status[c])
      BY <1>12, RecordGrows DEF Complete
    <2>2. reply' = [reply EXCEPT ![c] = reply'[c]] /\ pc' = [pc EXCEPT ![c] = "done"]
      BY <1>0, <1>12 DEF Complete, Answer, Goto
    <2>3. /\ reply'[c] = "written" => status[c] = "success" /\ Logged(c, "success")'
          /\ reply'[c] = "denied" => status[c] = "denied"
      BY <1>0, <1>12, RecordGrows DEF Complete, Answer, ToolAnswer
    <2>4. pc[c] = "executed" /\ status' = [status EXCEPT ![c] = "none"] /\ UNCHANGED <<mode, challenges, registered, call, launched, committed>>
      BY <1>12 DEF Complete
    <2>5. Progress'
      BY <1>0, <2>1, <2>2, <2>3, <2>4 DEF IInv, Progress, SameBinding, Grows
    <2>6. StartRecorded'
      BY <1>0, <2>1, <2>2, <2>3, <2>4 DEF IInv, StartRecorded, Progress, Grows
    <2>7. TakenIsRecorded'
      BY <1>0, <2>1, <2>2, <2>3, <2>4 DEF IInv, TakenIsRecorded, Progress, Grows
    <2>8. TakenWasReviewed'
      BY <1>0, <2>1, <2>2, <2>3, <2>4 DEF IInv, TakenWasReviewed, PastTake, Progress,
         Grows
    <2>9. TakenIsGone'
      BY <1>0, <2>1, <2>2, <2>3, <2>4 DEF IInv, TakenIsGone, PastTake, Progress, Grows
    <2>10. AnswerAgreesWithAudit'
      <3> SUFFICES ASSUME NEW d \in Calls
                   PROVE  /\ reply'[d] = "written" => d \in committed' /\ Logged(d, "success")'
                          /\ call'[d].apply /\ Logged(d, "success")' => d \in committed'
                          /\ reply'[d] = "denied" => d \notin launched'
        BY DEF AnswerAgreesWithAudit
      <3>1. CASE d = c
        <4>1. Logged(c, "success")' => Logged(c, "success") \/ status[c] = "success"
          BY <2>1 DEF Grows
        <4>2. /\ status[c] = "denied" => c \notin launched
              /\ status[c] = "success" => c \in committed
          BY DEF IInv, Progress
        <4>3. call[c].apply /\ Logged(c, "success") => c \in committed
          BY DEF IInv, AnswerAgreesWithAudit
        <4>4. call' = call /\ committed' = committed /\ launched' = launched
          BY <2>4
        <4> HIDE DEF TypeOK
        <4>5. /\ reply'[c] = "written" => c \in committed' /\ Logged(c, "success")'
              /\ reply'[c] = "denied" => c \notin launched'
          BY <4>2, <4>4, <2>3
        <4>6. call'[c].apply /\ Logged(c, "success")' => c \in committed'
          BY <4>1, <4>2, <4>3, <4>4
        <4> QED BY <3>1, <4>5, <4>6 DEF Logged
      <3>2. CASE d # c
        <4>1. Logged(d, "success")' <=> Logged(d, "success")
          BY <3>2, <2>1 DEF Grows
        <4>2. reply'[d] = reply[d]
          BY <1>0, <3>2, <2>2
        <4> QED BY <3>2, <4>1, <4>2, <2>4 DEF IInv, AnswerAgreesWithAudit
      <3> QED BY <3>1, <3>2
    <2> QED BY <1>0, <2>5, <2>6, <2>7, <2>8, <2>9, <2>10 DEF IInv
  <1>13. ASSUME NEW s \in Sessions, OpenSession(s) PROVE IInv'
    BY <1>0, <1>13, Untouched DEF OpenSession
  <1>14. ASSUME NEW t \in Claims, Sign(t) PROVE IInv'
    BY <1>0, <1>14, Untouched DEF Sign
  <1>15. ASSUME Tick PROVE IInv'
    BY <1>0, <1>15, Untouched DEF Tick
  <1>16. ASSUME Crash PROVE IInv'
    <2>1. Progress'
      BY <1>0, <1>16 DEF IInv, Progress, SameBinding, Logged, Crash
    <2>2. StartRecorded'
      BY <1>0, <1>16 DEF IInv, StartRecorded, Progress, Logged, Crash
    <2>3. TakenWasReviewed'
      BY <1>0, <1>16 DEF IInv, TakenWasReviewed, PastTake, Progress, Crash
    <2>4. TakenIsGone'
      BY <1>0, <1>16 DEF IInv, TakenIsGone, PastTake, Progress, Crash
    <2>5. TakenIsRecorded' /\ AnswerAgreesWithAudit'
      BY <1>0, <1>16 DEF IInv, TakenIsRecorded, AnswerAgreesWithAudit, PastTake, Logged,
         Crash
    <2> QED BY <1>0, <2>1, <2>2, <2>3, <2>4, <2>5 DEF IInv
  <1>17. CASE UNCHANGED vars
    BY <1>0, <1>17, Untouched
  <1> QED
    BY <1>1, <1>2, <1>3, <1>4, <1>5, <1>6, <1>7, <1>8, <1>9, <1>10, <1>11, <1>12, <1>13,
       <1>14, <1>15, <1>16, <1>17 DEF Next, CallStep

\* The inductive invariant holds in every reachable state.
THEOREM Inductive == Spec => []IInv
  BY InitEstablishes, StepPreserves, PTL DEF Spec

\* Every variable keeps its type, and a call that has arrived its arguments.
THEOREM TypeCorrect == Spec => []TypeOK
  BY Inductive, PTL DEF IInv

\* Verify, Take and Consume: an approval starts at most one worker, however many
\* calls carry its token, whatever fails in between, across restarts.
THEOREM SingleUse == Spec => []ApprovalUsedOnce
  <1>1. IInv => ApprovalUsedOnce
    BY DEF IInv, TypeOK, TakenIsGone, PastTake, ApprovalUsedOnce
  <1> QED BY <1>1, Inductive, PTL

\* validateChallengeBinding: a worker is started only for the write an earlier
\* dry run of the same session registered under the token's id.
THEOREM Reviewed == Spec => []WriteWasReviewed
  <1>1. IInv => WriteWasReviewed
    BY DEF IInv, TypeOK, TakenWasReviewed, PastTake, WriteWasReviewed
  <1> QED BY <1>1, Inductive, PTL

\* Prewrite: the start record is in the audit file before the approval is
\* consumed and before the worker is started.
THEOREM AuditedFirst == Spec => []AuditPrecedesEffect
  <1>1. IInv => AuditPrecedesEffect
    BY DEF IInv, TypeOK, StartRecorded, TakenIsRecorded, AuditPrecedesEffect
  <1> QED BY <1>1, Inductive, PTL

\* transaction.Complete: the answer to the client and the terminal record say
\* the same as the target.
THEOREM AnswersAgree == Spec => []AnswerAgreesWithAudit
  <1>1. IInv => AnswerAgreesWithAudit
    BY DEF IInv
  <1> QED BY <1>1, Inductive, PTL
----------------------------------------------------------------------------
(* ApprovedWrite implements ApprovalService.                               *)

\* An id is drawn once, and only where approval is required.
OffersOnce ==
    /\ \A r, s \in registered : r.id = s.id => r = s
    /\ registered # {} => mode = "server_token"

\* Who replaces the file was launched.
CommitsLaunched ==
    \A c \in Calls : pc[c] = "running" \/ c \in committed => c \in launched

RInv == OffersOnce /\ CommitsLaunched

LEMMA OffersPreserved == IInv /\ RInv /\ [Next]_vars => OffersOnce'
  <1> SUFFICES ASSUME IInv, RInv, [Next]_vars PROVE OffersOnce'
    OBVIOUS
  <1>1. CASE UNCHANGED <<mode, registered>>
    BY <1>1 DEF RInv, OffersOnce
  <1>2. ASSUME NEW c \in Calls, Register(c) PROVE OffersOnce'
    <2>1. CASE UNCHANGED registered
      BY <1>1, <1>2, <2>1 DEF Register
    <2>2. CASE registered' # registered
      <3>1. PICK id \in Ids : /\ mode = "server_token" /\ \A r \in registered : r.id # id
                              /\ registered' = registered \cup {NewChallenge(c, id)}
        BY <1>2, <2>2 DEF Register
      <3>2. NewChallenge(c, id).id = id /\ mode' = mode
        BY <1>2 DEF NewChallenge, Register
      <3> HIDE DEF NewChallenge
      <3> QED BY <3>1, <3>2 DEF RInv, OffersOnce
    <2> QED BY <2>1, <2>2
  <1> QED
    BY <1>1, <1>2 DEF Next, CallStep, Preflight, AnswerDryRun, Inspect, Prewrite, VerifyInspect,
       VerifyTake, VerifyConsume, Launch, Commit, WorkerExit, Complete, OpenSession, Sign, Tick, Crash

\* A call's step to another label than "running" starts no worker.
LEMMA CommitsPreserved == IInv /\ RInv /\ [Next]_vars => CommitsLaunched'
  <1> SUFFICES ASSUME IInv, RInv, [Next]_vars PROVE CommitsLaunched'
    OBVIOUS
  <1>0. pc \in [Calls -> Labels]
    BY DEF IInv, TypeOK
  <1>1. ASSUME NEW c \in Calls, NEW l, Goto(c, l), l # "running", UNCHANGED <<launched, committed>>
        PROVE  CommitsLaunched'
    BY <1>0, <1>1 DEF RInv, CommitsLaunched, Goto
  <1>2. CASE UNCHANGED <<pc, launched, committed>>
    BY <1>2 DEF RInv, CommitsLaunched
  <1>3. ASSUME NEW c \in Calls, Launch(c) PROVE CommitsLaunched'
    <2>1. CASE Goto(c, "running") /\ launched' = launched \cup {c}
      BY <1>0, <1>3, <2>1 DEF RInv, CommitsLaunched, Goto, Launch
    <2> QED BY <1>1, <1>3, <2>1 DEF Launch
  <1>4. ASSUME NEW c \in Calls, Commit(c) PROVE CommitsLaunched'
    BY <1>4 DEF RInv, CommitsLaunched, Commit
  <1>5. CASE Crash
    BY <1>5 DEF RInv, CommitsLaunched, Crash
  <1>6. ASSUME NEW c \in Calls, Preflight(c) \/ Register(c) \/ AnswerDryRun(c) \/ Inspect(c)
        PROVE  CommitsLaunched'
    BY <1>1, <1>6 DEF Preflight, Register, AnswerDryRun, Inspect, Answer
  <1>7. ASSUME NEW c \in Calls, Prewrite(c) \/ VerifyInspect(c) \/ VerifyTake(c) \/ VerifyConsume(c)
        PROVE  CommitsLaunched'
    BY <1>1, <1>7 DEF Prewrite, VerifyInspect, VerifyTake, VerifyConsume, Answer, Recorded
  <1>8. ASSUME NEW c \in Calls, WorkerExit(c) \/ Complete(c) PROVE CommitsLaunched'
    BY <1>1, <1>8 DEF WorkerExit, Complete, Answer
  <1> QED
    BY <1>2, <1>3, <1>4, <1>5, <1>6, <1>7, <1>8 DEF Next, CallStep, OpenSession, Sign, Tick

\* The calls whose write has happened took their challenge before.
LEMMA Behind ==
    ASSUME IInv, RInv, NEW c \in Calls, pc[c] = "running" \/ c \in committed, mode = "server_token"
    PROVE  /\ PastTake(c)
           /\ \E r \in registered \ challenges : r.id = call[c].token.id /\ SameBinding(r, call[c])
  <1>1. PastTake(c)
    BY DEF RInv, CommitsLaunched, PastTake
  <1>2. PICK r \in registered : r.id = call[c].token.id /\ SameBinding(r, call[c])
    BY <1>1 DEF IInv, TakenWasReviewed
  <1>3. r \notin challenges
    BY <1>1, <1>2 DEF IInv, TakenIsGone
  <1> QED BY <1>1, <1>2, <1>3

\* Most steps are not seen from outside.
LEMMA Invisible ==
    ASSUME IInv, RInv, UNCHANGED <<mode, registered, challenges, committed, file>>,
           \A c \in committed : call'[c] = call[c]
    PROVE  UNCHANGED Approvals!serviceVars
  <1>1. Applied' = Applied
    BY DEF Applied
  <1> QED BY <1>1 DEF Approvals!serviceVars

LEMMA StepImplements == IInv /\ RInv /\ [Next]_vars => [Approvals!Next]_Approvals!serviceVars
  <1> SUFFICES ASSUME IInv, RInv, [Next]_vars PROVE [Approvals!Next]_Approvals!serviceVars
    OBVIOUS
  <1>0. /\ call \in [Calls -> Requests \cup {NoCall}] /\ committed \subseteq Calls
        /\ challenges \subseteq registered /\ registered \subseteq Claims
    BY DEF IInv, TypeOK
  <1>1. CASE UNCHANGED <<mode, registered, challenges, committed, file, call>>
    BY <1>1, Invisible
  <1>2. ASSUME NEW c \in Calls, Preflight(c) PROVE [Approvals!Next]_Approvals!serviceVars
    <2>1. c \notin committed
      BY <1>2 DEF IInv, RInv, Progress, CommitsLaunched, Preflight
    <2>2. /\ UNCHANGED <<mode, registered, challenges, committed, file>>
          /\ \E v : call' = [call EXCEPT ![c] = v]
      BY <1>2 DEF Preflight
    <2>3. \A d \in committed : call'[d] = call[d]
      BY <1>0, <2>1, <2>2
    <2> QED BY <2>2, <2>3, Invisible
  <1>3. ASSUME NEW c \in Calls, Register(c) PROVE [Approvals!Next]_Approvals!serviceVars
    <2>1. CASE UNCHANGED <<challenges, registered>>
      BY <1>1, <1>3, <2>1 DEF Register
    <2>2. ASSUME NEW id \in Ids, mode = "server_token", \A r \in registered : r.id # id,
                 challenges' = challenges \cup {NewChallenge(c, id)},
                 registered' = registered \cup {NewChallenge(c, id)}
          PROVE  Approvals!Next
      <3> DEFINE new == NewChallenge(c, id)
      <3>1. new.id = id /\ UNCHANGED <<mode, committed, file, call>>
        BY <1>3 DEF NewChallenge, Register
      <3>2. new \in Claims
        <4>1. registered' \subseteq Claims
          BY TypePreserved DEF IInv, TypeOK
        <4> QED BY <2>2, <4>1
      <3> HIDE DEF new
      <3>3. registered' = registered \cup {new} /\ challenges' = challenges \cup {new}
        BY <2>2 DEF new
      <3>4. \A o \in registered : o.id # new.id
        BY <2>2, <3>1
      <3>5. registered' \ challenges' = registered \ challenges
        BY <3>3, <3>4
      <3>6. Applied' = Applied
        <4>1. \A d \in committed : call[d].token.id # new.id
          BY <1>0, <2>2, <3>4, Behind
        <4> QED BY <3>1, <3>3, <4>1 DEF Applied
      <3>7. Approvals!Offer(new)
        BY <2>2, <3>1, <3>3, <3>4, <3>5, <3>6 DEF Approvals!Offer
      <3> QED BY <3>2, <3>7 DEF Approvals!Next
    <2> QED BY <1>3, <2>1, <2>2 DEF Register
  <1>4. ASSUME NEW c \in Calls, VerifyTake(c) PROVE [Approvals!Next]_Approvals!serviceVars
    <2>1. CASE UNCHANGED challenges
      BY <1>1, <1>4, <2>1 DEF VerifyTake
    <2>2. CASE Stored(c, clock[c]) /\ challenges' = challenges \ Gone(c)
      <3>1. PICK r \in challenges : r.id = call[c].token.id
        BY <2>2 DEF Stored
      <3>2. Gone(c) = {r}
        BY <1>0, <3>1 DEF Gone, RInv, OffersOnce
      <3>3. UNCHANGED <<mode, registered, committed, file, call>>
        BY <1>4 DEF VerifyTake
      <3>4. Applied' = Applied
        BY <3>3 DEF Applied
      <3>5. registered' \ challenges' = (registered \ challenges) \cup {r}
        BY <1>0, <2>2, <3>1, <3>2, <3>3
      <3>6. Approvals!Spend(r)
        BY <1>0, <3>1, <3>3, <3>4, <3>5 DEF Approvals!Spend
      <3> QED BY <1>0, <3>1, <3>6 DEF Approvals!Next
    <2> QED BY <1>4, <2>1, <2>2 DEF VerifyTake
  <1>5. ASSUME NEW c \in Calls, Commit(c) PROVE [Approvals!Next]_Approvals!serviceVars
    <2>1. /\ pc[c] = "running" /\ c \notin committed /\ file = call[c].before /\ file' = call[c].after
          /\ committed' = committed \cup {c}
          /\ UNCHANGED <<mode, registered, challenges, call>>
      BY <1>5 DEF Commit
    <2>2. CASE mode = "server_token"
      <3>1. PICK r \in registered \ challenges : r.id = call[c].token.id /\ SameBinding(r, call[c])
        BY <2>1, <2>2, Behind
      <3>2. PastTake(c) /\ \A d \in committed : PastTake(d)
        BY <1>0, <2>1, <2>2, Behind
      <3>3. \A d \in committed : call[d].token.id # r.id
        BY <1>0, <2>1, <3>1, <3>2 DEF IInv, TakenIsGone
      <3>4. r \notin Applied
        BY <3>3 DEF Applied
      <3>5. Applied' = Applied \cup {r}
        <4>1. \A s \in registered : s.id = call[c].token.id <=> s = r
          BY <3>1 DEF RInv, OffersOnce
        <4> QED BY <2>1, <3>1, <4>1 DEF Applied
      <3>6. file = r.before /\ file' = r.after
        BY <2>1, <3>1 DEF SameBinding
      <3>7. Approvals!Apply(r)
        BY <2>1, <3>1, <3>4, <3>5, <3>6 DEF Approvals!Apply
      <3> QED BY <1>0, <3>1, <3>7 DEF Approvals!Next
    <2>3. CASE mode # "server_token"
      <3>1. registered = {}
        BY <2>3 DEF RInv, OffersOnce
      <3>2. Applied' = Applied
        BY <2>1, <3>1 DEF Applied
      <3>3. file' \in Contents
        BY TypePreserved DEF IInv, TypeOK
      <3>4. Approvals!ApplyUnasked
        BY <2>1, <2>3, <3>2, <3>3 DEF Approvals!ApplyUnasked
      <3> QED BY <3>4 DEF Approvals!Next
    <2> QED BY <2>2, <2>3
  <1> QED
    BY <1>1, <1>2, <1>3, <1>4, <1>5 DEF Next, CallStep, AnswerDryRun, Inspect, Prewrite, VerifyInspect,
       VerifyConsume, Launch, WorkerExit, Complete, OpenSession, Sign, Tick, Crash

\* ApprovedWrite implements ApprovalService: where approval is required, the
\* target changes only by a reviewed write, once for each review, after its
\* challenge was taken, and from the content that was reviewed.
THEOREM ApprovalsRefined == Spec => ImplementsApprovals
  <1>1. Init => Approvals!Init
    BY DEF Init, Approvals!Init, Applied
  <1>2. Init => RInv
    BY DEF Init, RInv, OffersOnce, CommitsLaunched
  <1>3. IInv /\ RInv /\ [Next]_vars => RInv'
    BY OffersPreserved, CommitsPreserved DEF RInv
  <1>4. IInv /\ RInv /\ [Next]_vars => [Approvals!Next]_Approvals!serviceVars
    BY StepImplements
  <1> QED BY <1>1, <1>2, <1>3, <1>4, Inductive, PTL DEF Spec, Approvals!Spec, ImplementsApprovals
=============================================================================
