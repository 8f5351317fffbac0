-------------------------- MODULE FileCommitProofs --------------------------
(***************************************************************************)
(* TLAPS proofs about FileCommit, for any number of workers and editors    *)
(* writing to the same files, and batches of any length.                   *)
(*                                                                         *)
(* The rollback is about two facts: content a worker has put in place is   *)
(* the approved content of a target it has reached, so a target whose      *)
(* content is another one holds nothing of it; and the targets behind the  *)
(* rollback's index have been dealt with as long as it is intact.          *)
(*                                                                         *)
(* The invariant speaks of one worker at a time.  Workers share only the   *)
(* files, so a step of someone else is, for a worker, a file that has a    *)
(* higher version and another author (Foreign).                            *)
(*                                                                         *)
(* The second part is about TextFile, the text that a commit writes.       *)
(***************************************************************************)
EXTENDS FileCommit, TLAPS

Labels == {"idle", "check", "open", "temp", "validate", "rename", "fsync", "written", "failed",
           "done", "killed"}

Jobs == [kind : {"write", "edit"}, batch : Batches, before : [Files -> Hashes],
         after : [Files -> Hashes]]

Authors == (Workers \X {"apply", "restore"}) \cup {Outside}

\* The worker has a job.
Busy(w) == pc[w] \notin {"idle", "killed"}

TypeOK ==
    /\ file \in [Files -> [data : Hashes, ver : Nat, by : Authors]]
    /\ edits \in Nat
    /\ pc \in [Workers -> Labels]
    /\ job \in [Workers -> Jobs \cup {NoJob}]
    /\ phase \in [Workers -> {"apply", "restore"}]
    /\ index \in [Workers -> Nat]
    /\ opened \in [Workers -> Nat]
    /\ tmp \in [Workers -> BOOLEAN]
    /\ intact \in [Workers -> BOOLEAN]
    /\ reply \in [Workers -> {"none", "success", "error", "rolledback", "incomplete"}]
    /\ \A w \in Workers : IF Busy(w) THEN job[w] \in Jobs /\ index[w] \in 1..Len(job[w].batch)
                                       ELSE index[w] = 1

\* Where a worker can be: an idle one has nothing to restore, and the
\* temporary file exists from its creation to the rename.
Progress(w) ==
    /\ reply[w] # "none" => pc[w] = "done"
    /\ pc[w] = "idle" => phase[w] = "apply"
    /\ tmp[w] => pc[w] \in {"validate", "rename", "killed"}

\* Versions only grow, so the one seen at the open is never ahead; if it is
\* still the same at the rename, so is the content.
Validated(w) ==
    /\ pc[w] \in {"temp", "validate", "rename"} => opened[w] <= file[Path(w)].ver
    /\ pc[w] = "rename" /\ Expected(w) # Absent /\ file[Path(w)].ver = opened[w]
          => file[Path(w)].data = Expected(w)

\* Content put in place by the apply phase is the approved one of a target the
\* worker has reached.
AppliedContent(w) ==
    pc[w] # "killed" =>
        \A f \in Files : file[f].by = <<w, "apply">> =>
            /\ pc[w] # "idle"
            /\ file[f].data = job[w].after[f]
            /\ \E i \in 1..Len(job[w].batch) :
                  job[w].batch[i] = f /\ (phase[w] = "apply" => i <= index[w])

\* Nothing of the apply phase is left in the file.
Undone(w, f) == file[f].by = <<w, "apply">> => file[f].data = job[w].before[f]

\* The rollback has undone the targets behind its index, and the one at the
\* index once it has been restored.
RestoredSoFar(w) ==
    Busy(w) /\ phase[w] = "restore" =>
        /\ intact[w] => \A i \in 1..Len(job[w].batch) : i > index[w] => Undone(w, job[w].batch[i])
        /\ pc[w] \in {"fsync", "written"} => Undone(w, Path(w))

\* The worker's response is true of its targets.
RolledBack(w) == reply[w] = "rolledback" => \A f \in Files : Undone(w, f)

WInv(w) == Progress(w) /\ Validated(w) /\ AppliedContent(w) /\ RestoredSoFar(w) /\ RolledBack(w)

IInv == TypeOK /\ \A w \in Workers : WInv(w)

----------------------------------------------------------------------------
(* Types                                                                   *)

\* The target of a busy worker is a file.
LEMMA TargetIsFile ==
    ASSUME TypeOK, NEW w \in Workers, Busy(w)
    PROVE  /\ job[w] \in Jobs /\ job[w].batch \in Seq(Files) /\ index[w] \in 1..Len(job[w].batch)
           /\ Path(w) \in Files /\ Data(w) \in Hashes /\ Expected(w) \in Hashes
           /\ \A i \in 1..Len(job[w].batch) : job[w].batch[i] \in Files
           /\ \A i, j \in 1..Len(job[w].batch) : job[w].batch[i] = job[w].batch[j] => i = j
  <1>1. job[w] \in Jobs /\ index[w] \in 1..Len(job[w].batch)
    BY DEF TypeOK
  <1>2. job[w].batch \in Batches /\ job[w].before \in [Files -> Hashes] /\ job[w].after \in [Files -> Hashes]
    BY <1>1 DEF Jobs
  <1>3. /\ job[w].batch \in Seq(Files)
        /\ \A i, j \in DOMAIN job[w].batch : job[w].batch[i] = job[w].batch[j] => i = j
    BY <1>2, BatchAssumption
  <1>4. DOMAIN job[w].batch = 1..Len(job[w].batch)
    BY <1>3
  <1>5. \A i \in 1..Len(job[w].batch) : job[w].batch[i] \in Files
    BY <1>3
  <1>6. Path(w) \in Files
    BY <1>1, <1>5 DEF Path
  <1>7. Data(w) \in Hashes /\ Expected(w) \in Hashes
    BY <1>2, <1>6 DEF Data, Expected
  <1> QED BY <1>1, <1>3, <1>4, <1>5, <1>6, <1>7

\* Every step preserves the types of the variables.
LEMMA TypePreserved == TypeOK /\ [Next]_vars => TypeOK'
  <1> SUFFICES ASSUME TypeOK, [Next]_vars PROVE TypeOK'
    OBVIOUS
  <1> USE DEF TypeOK, Labels, Busy
  <1>1. ASSUME NEW w \in Workers, Start(w) PROVE TypeOK'
    <2> DEFINE Before(b)   == [f \in Files |-> IF f \in Targets(b) THEN file[f].data ELSE Absent]
               After(b, a) == [f \in Files |-> IF f \in Targets(b) THEN a[f] ELSE Absent]
               New(k, b, a) == [kind |-> k, batch |-> b, before |-> Before(b), after |-> After(b, a)]
    <2>1. \E k \in Kinds, b \in Batches : \E a \in [Targets(b) -> Contents] :
             job' = [job EXCEPT ![w] = New(k, b, a)]
      <3> HIDE DEF TypeOK, Labels, Busy
      <3> QED BY <1>1, ZenonT(30) DEF Start
    <2>2. PICK k \in Kinds, b \in Batches : \E a \in [Targets(b) -> Contents] :
             job' = [job EXCEPT ![w] = New(k, b, a)]
      BY <2>1, Zenon
    <2>3. PICK a \in [Targets(b) -> Contents] : job' = [job EXCEPT ![w] = New(k, b, a)]
      BY <2>2, Zenon
    <2>4. Before(b) \in [Files -> Hashes] /\ After(b, a) \in [Files -> Hashes]
      BY DEF Hashes
    <2>5. New(k, b, a) \in Jobs /\ New(k, b, a).batch = b
      BY <2>4, KindAssumption DEF Jobs
    <2> HIDE DEF New
    <2>6. /\ job' \in [Workers -> Jobs \cup {NoJob}] /\ job'[w] \in Jobs /\ job'[w].batch = b
          /\ \A v \in Workers : v # w => job'[v] = job[v]
      BY <2>3, <2>5
    <2>7. 1 \in 1..Len(b)
      BY BatchAssumption
    <2>8. index'[w] = 1 /\ pc' = [pc EXCEPT ![w] = "check"]
      BY <1>1 DEF Start, Goto
    <2>9. \A v \in Workers : IF Busy(v)' THEN job'[v] \in Jobs /\ index'[v] \in 1..Len(job'[v].batch)
                                         ELSE index'[v] = 1
      BY <1>1, <2>6, <2>7, <2>8 DEF Start
    <2> QED BY <1>1, <2>6, <2>8, <2>9 DEF Start
  <1>2. ASSUME NEW w \in Workers, CheckHash(w) PROVE TypeOK'
    BY <1>2 DEF CheckHash, Goto, Fail
  <1>3. ASSUME NEW w \in Workers, OpenTarget(w) PROVE TypeOK'
    <2>1. OpenedState(w) \in Nat
      BY <1>3, TargetIsFile DEF OpenTarget, OpenedState
    <2> QED BY <1>3, <2>1, ZenonT(30) DEF OpenTarget, Goto, Fail
  <1>4. ASSUME NEW w \in Workers, WriteTemp(w) PROVE TypeOK'
    BY <1>4 DEF WriteTemp, Goto, Fail
  <1>5. ASSUME NEW w \in Workers, Validate(w) PROVE TypeOK'
    BY <1>5 DEF Validate, Goto, Fail
  <1>6. ASSUME NEW w \in Workers, Rename(w) PROVE TypeOK'
    <2>1. Path(w) \in Files /\ Data(w) \in Hashes
      BY <1>6, TargetIsFile DEF Rename
    <2>2. <<w, phase[w]>> \in Authors
      BY DEF Authors
    <2>3. [data |-> Data(w), ver |-> file[Path(w)].ver + 1, by |-> <<w, phase[w]>>]
             \in [data : Hashes, ver : Nat, by : Authors]
      BY <2>1, <2>2
    <2>4. file' \in [Files -> [data : Hashes, ver : Nat, by : Authors]]
      BY <1>6, <2>1, <2>3 DEF Rename
    <2> QED BY <1>6, <2>4 DEF Rename, Goto, Fail
  <1>7. ASSUME NEW w \in Workers, SyncDir(w) PROVE TypeOK'
    BY <1>7 DEF SyncDir, Goto, Fail
  <1>8. ASSUME NEW w \in Workers, NEW ok \in BOOLEAN, RestorePrevious(w, ok), pc[w] \in {"written", "failed"},
               UNCHANGED <<file, edits, job, opened, tmp>>
        PROVE  TypeOK'
    <2>1. RollbackReply(ok) \in {"rolledback", "incomplete"}
      BY DEF RollbackReply
    <2>2. /\ pc' \in [Workers -> Labels] /\ index' \in [Workers -> Nat]
          /\ \A v \in Workers : v # w => pc'[v] = pc[v] /\ index'[v] = index[v]
          /\ pc'[w] \in {"check", "done"} /\ index'[w] \in 1..index[w]
      <3>1. Busy(w)
        BY <1>8
      <3>2. index[w] \in 1..Len(job[w].batch) /\ Len(job[w].batch) \in Nat
        BY <3>1, TargetIsFile
      <3>3. CASE index[w] > 1
        <4>1. index' = [index EXCEPT ![w] = @ - 1] /\ pc' = [pc EXCEPT ![w] = "check"]
          BY <1>8, <3>3 DEF RestorePrevious, Goto
        <4> QED BY <3>2, <3>3, <4>1
      <3>4. CASE ~(index[w] > 1)
        <4>1. index' = index /\ pc' = [pc EXCEPT ![w] = "done"]
          BY <1>8, <3>4 DEF RestorePrevious, Respond, Goto
        <4> QED BY <3>2, <3>4, <4>1
      <3> QED BY <3>3, <3>4
    <2>3. /\ reply' \in [Workers -> {"none", "success", "error", "rolledback", "incomplete"}]
          /\ phase' \in [Workers -> {"apply", "restore"}] /\ intact' \in [Workers -> BOOLEAN]
      BY <1>8, <2>1 DEF RestorePrevious, Respond
    <2> QED BY <1>8, <2>2, <2>3
  <1>9. ASSUME NEW w \in Workers, TargetWritten(w) PROVE TypeOK'
    <2>1. CASE phase[w] = "restore" /\ RestorePrevious(w, intact[w])
      BY <1>8, <1>9, <2>1 DEF TargetWritten
    <2>2. CASE /\ phase[w] = "apply" /\ index[w] < Len(job[w].batch)
               /\ index' = [index EXCEPT ![w] = @ + 1]
               /\ Goto(w, "check")
               /\ UNCHANGED <<phase, intact, reply>>
      <3>1. Len(job[w].batch) \in Nat
        BY <1>9, TargetIsFile DEF TargetWritten
      <3> QED BY <1>9, <2>2, <3>1 DEF TargetWritten, Goto
    <2>3. CASE Respond(w, "success") /\ UNCHANGED <<phase, index, intact>>
      BY <1>9, <2>3 DEF TargetWritten, Respond, Goto
    <2> QED BY <1>9, <2>1, <2>2, <2>3 DEF TargetWritten
  <1>10. ASSUME NEW w \in Workers, WriteFailed(w) PROVE TypeOK'
    BY <1>10 DEF WriteFailed, Respond, Goto
  <1>11. ASSUME NEW w \in Workers, EditFailed(w) PROVE TypeOK'
    <2>1. CASE \E ok \in BOOLEAN : RestorePrevious(w, ok)
      BY <1>8, <1>11, <2>1 DEF EditFailed
    <2>2. CASE /\ phase' = [phase EXCEPT ![w] = "restore"]
               /\ Goto(w, "check")
               /\ UNCHANGED <<index, intact, reply>>
      BY <1>11, <2>2 DEF EditFailed, Goto
    <2> QED BY <1>11, <2>1, <2>2 DEF EditFailed
  <1>12. ASSUME NEW w \in Workers, RestoreFailed(w) PROVE TypeOK'
    <2>1. \E ok \in BOOLEAN : RestorePrevious(w, ok)
      BY <1>12 DEF RestoreFailed
    <2> QED BY <1>8, <1>12, <2>1 DEF RestoreFailed
  <1>13. ASSUME NEW w \in Workers, Kill(w) PROVE TypeOK'
    BY <1>13 DEF Kill, Goto
  <1>14. ASSUME NEW f \in Files, EditOutside(f) PROVE TypeOK'
    <2>1. Outside \in Authors
      BY DEF Authors
    <2> QED BY <1>14, <2>1, KindAssumption DEF EditOutside
  <1>15. CASE UNCHANGED vars
    BY <1>15 DEF vars
  <1> QED
    BY <1>1, <1>2, <1>3, <1>4, <1>5, <1>6, <1>7, <1>9, <1>10, <1>11, <1>12, <1>13, <1>14, <1>15
       DEF Next, WorkerStep

----------------------------------------------------------------------------
(* What a step of someone else is for a worker                             *)

\* The worker itself did nothing ...
Own(w) ==
    /\ pc'[w] = pc[w] /\ job'[w] = job[w] /\ phase'[w] = phase[w] /\ index'[w] = index[w]
    /\ opened'[w] = opened[w] /\ tmp'[w] = tmp[w] /\ intact'[w] = intact[w] /\ reply'[w] = reply[w]

\* ... and a file that changed has a higher version and another author.
Foreign(w) ==
    \A f \in Files : \/ file'[f] = file[f]
                     \/ file'[f].ver > file[f].ver /\ file'[f].by # <<w, "apply">>

\* Workers share the files only.
LEMMA OthersStep ==
    ASSUME TypeOK, NEW v \in Workers, WorkerStep(v), NEW w \in Workers, w # v
    PROVE  Own(w) /\ Foreign(w)
  <1> USE DEF TypeOK
  <1>1. CASE Rename(v)
    <2>1. Own(w)
      BY <1>1 DEF Rename, Own, Goto, Fail
    <2>2. Path(v) \in Files
      BY <1>1, TargetIsFile DEF Rename, Busy
    <2>3. UNCHANGED file \/ /\ \A f \in Files \ {Path(v)} : file'[f] = file[f]
                            /\ file'[Path(v)].ver = file[Path(v)].ver + 1
                            /\ file'[Path(v)].by = <<v, phase[v]>>
      BY <1>1, <2>2 DEF Rename
    <2>4. Foreign(w)
      BY <2>2, <2>3 DEF Foreign
    <2> QED BY <2>1, <2>4
  <1>2. CASE Start(v)
    BY <1>2 DEF Start, Goto, Own, Foreign
  <1>3. CASE CheckHash(v)
    BY <1>3 DEF CheckHash, Goto, Fail, Own, Foreign
  <1>4. CASE OpenTarget(v)
    BY <1>4 DEF OpenTarget, Goto, Fail, Own, Foreign
  <1>5. CASE WriteTemp(v)
    BY <1>5 DEF WriteTemp, Goto, Fail, Own, Foreign
  <1>6. CASE Validate(v)
    BY <1>6 DEF Validate, Goto, Fail, Own, Foreign
  <1>7. CASE SyncDir(v)
    BY <1>7 DEF SyncDir, Goto, Fail, Own, Foreign
  <1>8. CASE TargetWritten(v)
    BY <1>8 DEF TargetWritten, RestorePrevious, Respond, Goto, Own, Foreign
  <1>9. CASE WriteFailed(v)
    BY <1>9 DEF WriteFailed, Respond, Goto, Own, Foreign
  <1>10. CASE EditFailed(v)
    BY <1>10, ZenonT(30) DEF EditFailed, RestorePrevious, Respond, Goto, Own, Foreign
  <1>11. CASE RestoreFailed(v)
    BY <1>11 DEF RestoreFailed, RestorePrevious, Respond, Goto, Own, Foreign
  <1>12. CASE Kill(v)
    BY <1>12 DEF Kill, Goto, Own, Foreign
  <1> QED BY <1>1, <1>2, <1>3, <1>4, <1>5, <1>6, <1>7, <1>8, <1>9, <1>10, <1>11, <1>12
          DEF WorkerStep

\* A step of someone else preserves what the invariant says of a worker.
LEMMA OthersPreserve ==
    ASSUME TypeOK, TypeOK', NEW w \in Workers, WInv(w), Own(w), Foreign(w)
    PROVE  WInv(w)'
  <1>1. Progress(w)'
    BY DEF WInv, Progress, Own
  <1>2. Validated(w)'
    <2>1. CASE Busy(w)
      <3>1. Path(w) \in Files /\ Path(w)' = Path(w) /\ Expected(w)' = Expected(w)
        BY <2>1, TargetIsFile DEF Own, Path, Expected
      <3>2. file[Path(w)].ver \in Nat /\ file'[Path(w)].ver \in Nat /\ opened[w] \in Nat
        BY <3>1 DEF TypeOK
      <3> QED BY <3>1, <3>2 DEF WInv, Validated, Own, Foreign
    <2>2. CASE ~Busy(w)
      BY <2>2 DEF Validated, Busy, Own
    <2> QED BY <2>1, <2>2
  <1>3. AppliedContent(w)'
    <2>1. \A f \in Files : file'[f].by = <<w, "apply">> => file'[f] = file[f]
      BY DEF Foreign
    <2> QED BY <2>1 DEF WInv, AppliedContent, Own
  <1>4. \A f \in Files : Undone(w, f) => Undone(w, f)'
    BY DEF Foreign, Undone, Own
  <1>5. RestoredSoFar(w)'
    <2> SUFFICES ASSUME Busy(w), phase[w] = "restore" PROVE RestoredSoFar(w)'
      BY DEF RestoredSoFar, Busy, Own
    <2>1. Path(w) \in Files /\ Path(w)' = Path(w) /\ \A i \in 1..Len(job[w].batch) : job[w].batch[i] \in Files
      BY TargetIsFile DEF Own, Path
    <2>2. intact[w] => \A i \in 1..Len(job[w].batch) : i > index[w] => Undone(w, job[w].batch[i])
      BY DEF WInv, RestoredSoFar
    <2>3. pc[w] \in {"fsync", "written"} => Undone(w, Path(w))
      BY DEF WInv, RestoredSoFar
    <2> QED BY <1>4, <2>1, <2>2, <2>3 DEF RestoredSoFar, Own, Undone
  <1>6. RolledBack(w)'
    BY <1>4 DEF WInv, RolledBack, Own
  <1> QED BY <1>1, <1>2, <1>3, <1>5, <1>6 DEF WInv

----------------------------------------------------------------------------
(* A worker's own steps                                                    *)

\* Inside WriteFile, before and after the rename, only the checks matter.
LEMMA InsideWriteFile ==
    ASSUME TypeOK, NEW w \in Workers, WInv(w), Busy(w), Busy(w)', file' = file,
           job'[w] = job[w], phase'[w] = phase[w], index'[w] = index[w], intact'[w] = intact[w],
           reply'[w] = reply[w], pc'[w] \in {"fsync", "written"} => pc[w] \in {"fsync", "written"}
    PROVE  AppliedContent(w)' /\ RestoredSoFar(w)' /\ RolledBack(w)'
  <1>1. AppliedContent(w)'
    BY DEF WInv, AppliedContent, Busy
  <1>2. RestoredSoFar(w)'
    BY DEF WInv, RestoredSoFar, Undone, Path
  <1>3. RolledBack(w)'
    BY DEF WInv, RolledBack, Undone
  <1> QED BY <1>1, <1>2, <1>3

\* The rollback goes on to the previous target when the one at its index has
\* been dealt with.
LEMMA RollbackStep ==
    ASSUME TypeOK, NEW w \in Workers, WInv(w), pc[w] \in {"written", "failed"},
           NEW ok \in BOOLEAN, RestorePrevious(w, ok), UNCHANGED <<file, edits, job, opened, tmp>>,
           ok => /\ Undone(w, Path(w))
                 /\ \A i \in 1..Len(job[w].batch) : i > index[w] => Undone(w, job[w].batch[i])
    PROVE  WInv(w)'
  <1>1. Busy(w)
    BY DEF Busy
  <1>2. /\ index[w] \in 1..Len(job[w].batch) /\ Len(job[w].batch) \in Nat
        /\ \A i \in 1..Len(job[w].batch) : job[w].batch[i] \in Files
    BY <1>1, TargetIsFile
  <1>3. reply[w] = "none" /\ ~tmp[w]
    BY DEF WInv, Progress
  <1>4. phase'[w] = "restore" /\ intact'[w] = ok
    BY DEF RestorePrevious, TypeOK
  <1>5. \/ pc'[w] = "check" /\ index[w] > 1 /\ index'[w] = index[w] - 1 /\ reply'[w] = reply[w]
        \/ pc'[w] = "done" /\ index[w] = 1 /\ index'[w] = index[w] /\ reply'[w] = RollbackReply(ok)
    <2>1. CASE index[w] > 1
      BY <2>1 DEF RestorePrevious, Goto, TypeOK
    <2>2. CASE ~(index[w] > 1)
      <3>1. index[w] = 1
        BY <1>2, <2>2
      <3> QED BY <2>2, <3>1 DEF RestorePrevious, Respond, Goto, TypeOK
    <2> QED BY <2>1, <2>2
  <1>6. Progress(w)'
    BY <1>3, <1>5 DEF Progress
  <1>7. Validated(w)'
    BY <1>5 DEF Validated
  <1>8. AppliedContent(w)'
    BY <1>4, <1>5 DEF WInv, AppliedContent
  <1>9. ok => \A i \in 1..Len(job[w].batch) : i >= index[w] => Undone(w, job[w].batch[i])
    <2> SUFFICES ASSUME ok, NEW i \in 1..Len(job[w].batch), i >= index[w]
                 PROVE  Undone(w, job[w].batch[i])
      OBVIOUS
    <2>1. CASE i = index[w]
      BY <2>1 DEF Path
    <2>2. CASE i > index[w]
      BY <2>2
    <2> QED BY <1>2, <2>1, <2>2
  <1>10. RestoredSoFar(w)'
    <2>1. \A i \in 1..Len(job[w].batch) : i > index'[w] => i >= index[w]
      BY <1>2, <1>5
    <2>2. ok => \A i \in 1..Len(job[w].batch) : i > index'[w] => Undone(w, job[w].batch[i])
      BY <1>9, <2>1
    <2> QED BY <1>4, <1>5, <2>2 DEF RestoredSoFar, Undone
  <1>11. RolledBack(w)'
    <2> SUFFICES ASSUME reply'[w] = "rolledback", NEW f \in Files, file[f].by = <<w, "apply">>
                 PROVE  file[f].data = job[w].before[f]
      BY DEF RolledBack, Undone
    <2>1. ok /\ index[w] = 1
      BY <1>3, <1>5 DEF RollbackReply
    <2>2. PICK i \in 1..Len(job[w].batch) : job[w].batch[i] = f
      BY DEF WInv, AppliedContent
    <2> QED BY <1>9, <2>1, <2>2 DEF Undone
  <1> QED BY <1>6, <1>7, <1>8, <1>10, <1>11 DEF WInv

\* A worker's own step preserves what the invariant says of it.
LEMMA OwnPreserves ==
    ASSUME TypeOK, TypeOK', NEW w \in Workers, WInv(w), WorkerStep(w)
    PROVE  WInv(w)'
  <1>1. CASE Start(w)
    <2>1. \A f \in Files : file[f].by # <<w, "apply">>
      BY <1>1 DEF WInv, AppliedContent, Start
    <2>2. pc'[w] = "check" /\ phase'[w] = "apply" /\ reply'[w] = "none" /\ ~tmp'[w]
      BY <1>1 DEF TypeOK, WInv, Progress, Start, Goto
    <2>3. file' = file
      BY <1>1 DEF Start
    <2> QED BY <2>1, <2>2, <2>3 DEF WInv, Progress, Validated, AppliedContent, RestoredSoFar, RolledBack
  <1>2. CASE CheckHash(w)
    <2>1. Busy(w) /\ Busy(w)' /\ pc'[w] \in {"open", "failed"}
      BY <1>2 DEF TypeOK, CheckHash, Goto, Fail, Busy
    <2>2. AppliedContent(w)' /\ RestoredSoFar(w)' /\ RolledBack(w)'
      BY <1>2, <2>1, InsideWriteFile DEF CheckHash
    <2>3. Progress(w)'
      BY <1>2 DEF TypeOK, WInv, Progress, CheckHash, Goto, Fail
    <2> QED BY <2>1, <2>2, <2>3 DEF WInv, Validated
  <1>3. CASE OpenTarget(w)
    <2>1. Busy(w) /\ Busy(w)' /\ pc'[w] \in {"temp", "failed"}
      BY <1>3 DEF TypeOK, OpenTarget, Goto, Fail, Busy
    <2>2. AppliedContent(w)' /\ RestoredSoFar(w)' /\ RolledBack(w)'
      BY <1>3, <2>1, InsideWriteFile DEF OpenTarget
    <2>3. Progress(w)'
      BY <1>3 DEF TypeOK, WInv, Progress, OpenTarget, Goto, Fail
    <2>4. pc'[w] = "temp" => opened'[w] = file[Path(w)].ver
      BY <1>3 DEF TypeOK, OpenTarget, OpenedState, Goto, Fail
    <2>5. file[Path(w)].ver \in Nat /\ Path(w)' = Path(w) /\ file' = file
      BY <1>3, <2>1, TargetIsFile DEF TypeOK, OpenTarget, Path
    <2>6. Validated(w)'
      BY <2>1, <2>4, <2>5 DEF Validated
    <2> QED BY <2>2, <2>3, <2>6 DEF WInv
  <1>4. CASE WriteTemp(w)
    <2>1. Busy(w) /\ Busy(w)' /\ pc'[w] \in {"validate", "failed"}
      BY <1>4 DEF TypeOK, WriteTemp, Goto, Fail, Busy
    <2>2. AppliedContent(w)' /\ RestoredSoFar(w)' /\ RolledBack(w)'
      BY <1>4, <2>1, InsideWriteFile DEF WriteTemp
    <2>3. Progress(w)'
      BY <1>4 DEF TypeOK, WInv, Progress, WriteTemp, Goto, Fail
    <2>4. Validated(w)'
      BY <1>4, <2>1 DEF WInv, Validated, WriteTemp, Path
    <2> QED BY <2>2, <2>3, <2>4 DEF WInv
  <1>5. CASE Validate(w)
    <2>1. Busy(w) /\ Busy(w)' /\ pc'[w] \in {"rename", "failed"}
      BY <1>5 DEF TypeOK, Validate, Goto, Fail, Busy
    <2>2. AppliedContent(w)' /\ RestoredSoFar(w)' /\ RolledBack(w)'
      BY <1>5, <2>1, InsideWriteFile DEF Validate
    <2>3. Progress(w)'
      BY <1>5 DEF TypeOK, WInv, Progress, Validate, Goto, Fail
    <2>4. Path(w)' = Path(w) /\ Expected(w)' = Expected(w) /\ file' = file /\ opened' = opened
      BY <1>5 DEF Validate, Path, Expected
    <2>5. pc'[w] = "rename" /\ Expected(w) # Absent => file[Path(w)].data = Expected(w)
      BY <1>5 DEF TypeOK, Validate, Unchanged, Goto, Fail
    <2>6. Validated(w)'
      BY <1>5, <2>1, <2>4, <2>5 DEF WInv, Validated, Validate
    <2> QED BY <2>2, <2>3, <2>6 DEF WInv
  <1>6. CASE Rename(w)
    <2>1. Busy(w) /\ Busy(w)' /\ pc'[w] \in {"fsync", "failed"}
      BY <1>6 DEF TypeOK, Rename, Goto, Fail, Busy
    <2>2. Progress(w)'
      BY <1>6 DEF TypeOK, WInv, Progress, Rename, Goto, Fail
    <2>3. Validated(w)'
      BY <2>1 DEF Validated
    <2>4. CASE file' = file /\ pc'[w] = "failed"
      <3>1. AppliedContent(w)' /\ RestoredSoFar(w)' /\ RolledBack(w)'
        BY <1>6, <2>1, <2>4, InsideWriteFile DEF Rename
      <3> QED BY <2>2, <2>3, <3>1 DEF WInv
    <2>5. CASE /\ file' = [file EXCEPT ![Path(w)] =
                             [data |-> Data(w), ver |-> @.ver + 1, by |-> <<w, phase[w]>>]]
               /\ pc'[w] = "fsync"
      <3>1. /\ Path(w) \in Files /\ index[w] \in 1..Len(job[w].batch) /\ job[w].batch[index[w]] = Path(w)
            /\ Len(job[w].batch) \in Nat /\ \A i \in 1..Len(job[w].batch) : job[w].batch[i] \in Files
        BY <2>1, TargetIsFile DEF Path
      <3>2. /\ file'[Path(w)].by = <<w, phase[w]>> /\ file'[Path(w)].data = Data(w)
            /\ \A f \in Files \ {Path(w)} : file'[f] = file[f]
        BY <2>5, <3>1 DEF TypeOK
      <3>3. /\ job'[w] = job[w] /\ phase'[w] = phase[w] /\ index'[w] = index[w]
            /\ intact'[w] = intact[w] /\ reply'[w] = "none" /\ Path(w)' = Path(w)
        BY <1>6 DEF WInv, Progress, Rename, Path
      <3>4. AppliedContent(w)'
        <4> SUFFICES ASSUME NEW f \in Files, file'[f].by = <<w, "apply">>
                     PROVE  /\ file'[f].data = job[w].after[f]
                            /\ \E i \in 1..Len(job[w].batch) :
                                  job[w].batch[i] = f /\ (phase[w] = "apply" => i <= index[w])
          BY <2>5, <3>3 DEF AppliedContent
        <4>1. CASE f = Path(w)
          <5>1. phase[w] = "apply"
            BY <3>2, <4>1
          <5> QED BY <3>1, <3>2, <4>1, <5>1 DEF Data
        <4>2. CASE f # Path(w)
          BY <1>6, <3>2, <4>2 DEF WInv, AppliedContent, Rename
        <4> QED BY <4>1, <4>2
      <3>5. phase[w] = "restore" => \A f \in Files : f = Path(w) \/ Undone(w, f) => Undone(w, f)'
        BY <3>2, <3>3 DEF Undone
      <3>6. RestoredSoFar(w)'
        <4> SUFFICES ASSUME phase[w] = "restore" PROVE RestoredSoFar(w)'
          BY <3>3 DEF RestoredSoFar
        <4>1. intact[w] => \A i \in 1..Len(job[w].batch) : i > index[w] => Undone(w, job[w].batch[i])
          BY <2>1 DEF WInv, RestoredSoFar
        <4>2. intact[w] => \A i \in 1..Len(job[w].batch) : i > index[w] => Undone(w, job[w].batch[i])'
          BY <3>1, <3>3, <3>5, <4>1, SMTT(20) DEF Undone
        <4>3. Undone(w, Path(w))'
          BY <3>1, <3>3, <3>5 DEF Undone
        <4> QED BY <3>3, <4>2, <4>3 DEF RestoredSoFar, Undone
      <3>7. RolledBack(w)'
        BY <3>3 DEF RolledBack
      <3> QED BY <2>2, <2>3, <3>4, <3>6, <3>7 DEF WInv
    <2> QED BY <1>6, <2>4, <2>5 DEF TypeOK, Rename, Goto, Fail
  <1>7. CASE SyncDir(w)
    <2>1. Busy(w) /\ Busy(w)' /\ pc'[w] \in {"written", "failed"}
      BY <1>7 DEF TypeOK, SyncDir, Goto, Fail, Busy
    <2>2. AppliedContent(w)' /\ RestoredSoFar(w)' /\ RolledBack(w)'
      BY <1>7, <2>1, InsideWriteFile DEF SyncDir
    <2>3. Progress(w)'
      BY <1>7 DEF TypeOK, WInv, Progress, SyncDir, Goto, Fail
    <2> QED BY <2>1, <2>2, <2>3 DEF WInv, Validated
  <1>8. CASE TargetWritten(w)
    <2>1. Busy(w) /\ reply[w] = "none" /\ ~tmp[w] /\ file' = file /\ job' = job /\ tmp' = tmp
      BY <1>8 DEF TargetWritten, WInv, Progress, Busy
    <2>2. CASE phase[w] = "restore" /\ RestorePrevious(w, intact[w])
      <3>1. intact[w] \in BOOLEAN
        BY DEF TypeOK
      <3>2. Undone(w, Path(w)) /\
            (intact[w] => \A i \in 1..Len(job[w].batch) : i > index[w] => Undone(w, job[w].batch[i]))
        BY <1>8, <2>1, <2>2 DEF TargetWritten, WInv, RestoredSoFar
      <3> QED BY <1>8, <2>2, <3>1, <3>2, RollbackStep DEF TargetWritten
    <2>3. CASE /\ phase[w] = "apply" /\ index[w] < Len(job[w].batch)
               /\ index' = [index EXCEPT ![w] = @ + 1]
               /\ Goto(w, "check")
               /\ UNCHANGED <<phase, intact, reply>>
      <3>1. /\ pc'[w] = "check" /\ phase'[w] = "apply" /\ index'[w] = index[w] + 1 /\ reply'[w] = "none"
            /\ index[w] \in Nat
        BY <2>1, <2>3 DEF Goto, TypeOK
      <3>2. AppliedContent(w)'
        BY <1>8, <2>1, <2>3, <3>1 DEF WInv, AppliedContent, TargetWritten
      <3> QED BY <2>1, <3>1, <3>2 DEF WInv, Progress, Validated, RestoredSoFar, RolledBack
    <2>4. CASE phase[w] = "apply" /\ Respond(w, "success") /\ UNCHANGED <<phase, index, intact>>
      <3>1. pc'[w] = "done" /\ phase'[w] = "apply" /\ reply'[w] = "success" /\ index' = index
        BY <2>4 DEF Respond, Goto, TypeOK
      <3>2. AppliedContent(w)'
        BY <1>8, <2>1, <2>4, <3>1 DEF WInv, AppliedContent, TargetWritten
      <3> QED BY <2>1, <3>1, <3>2 DEF WInv, Progress, Validated, RestoredSoFar, RolledBack
    <2> QED BY <1>8, <2>2, <2>3, <2>4 DEF TargetWritten
  <1>9. CASE WriteFailed(w)
    <2>1. Busy(w) /\ Busy(w)' /\ pc'[w] = "done" /\ reply'[w] = "error" /\ ~tmp[w]
      BY <1>9 DEF TypeOK, WInv, Progress, WriteFailed, Respond, Goto, Busy
    <2>2. Progress(w)' /\ Validated(w)' /\ RolledBack(w)'
      BY <1>9, <2>1 DEF Progress, Validated, RolledBack, WriteFailed
    <2>3. AppliedContent(w)'
      BY <1>9, <2>1 DEF WInv, AppliedContent, WriteFailed, Busy
    <2>4. RestoredSoFar(w)'
      BY <1>9, <2>1 DEF WInv, RestoredSoFar, WriteFailed, Undone
    <2> QED BY <2>2, <2>3, <2>4 DEF WInv
  <1>10. CASE EditFailed(w)
    <2>1. Busy(w) /\ reply[w] = "none" /\ ~tmp[w] /\ phase[w] = "apply" /\ UNCHANGED <<file, edits, job, opened, tmp>>
      BY <1>10 DEF EditFailed, WInv, Progress, Busy
    <2>2. \A i \in 1..Len(job[w].batch) : i > index[w] => file[job[w].batch[i]].by # <<w, "apply">>
      <3> SUFFICES ASSUME NEW i \in 1..Len(job[w].batch), i > index[w],
                          file[job[w].batch[i]].by = <<w, "apply">>
                   PROVE  FALSE
        OBVIOUS
      <3>1. /\ job[w].batch[i] \in Files /\ Len(job[w].batch) \in Nat /\ index[w] \in Nat
            /\ \A j \in 1..Len(job[w].batch) : job[w].batch[i] = job[w].batch[j] => i = j
        BY <2>1, TargetIsFile
      <3>2. PICK j \in 1..Len(job[w].batch) : job[w].batch[j] = job[w].batch[i] /\ j <= index[w]
        BY <2>1, <3>1 DEF WInv, AppliedContent, Busy
      <3> QED BY <3>1, <3>2
    <2>3. \A i \in 1..Len(job[w].batch) : i > index[w] => Undone(w, job[w].batch[i])
      BY <2>2 DEF Undone
    <2>4. CASE RestorePrevious(w, FALSE)
      BY <1>10, <2>1, <2>4, RollbackStep DEF EditFailed
    <2>5. CASE NothingToUndo(w) /\ RestorePrevious(w, file[Path(w)].data = job[w].before[Path(w)])
      <3>1. Path(w) \in Files
        BY <2>1, TargetIsFile
      <3>2. Undone(w, Path(w))
        BY <2>1, <2>5, <3>1 DEF WInv, AppliedContent, Undone, NothingToUndo, Busy
      <3> QED BY <1>10, <2>1, <2>3, <2>5, <3>2, RollbackStep DEF EditFailed
    <2>6. CASE phase' = [phase EXCEPT ![w] = "restore"] /\ Goto(w, "check") /\ UNCHANGED <<index, intact, reply>>
      <3>1. pc'[w] = "check" /\ phase'[w] = "restore" /\ index' = index /\ reply'[w] = "none"
        BY <2>1, <2>6 DEF Goto, TypeOK
      <3>2. AppliedContent(w)'
        BY <2>1, <3>1 DEF WInv, AppliedContent, Busy
      <3>3. RestoredSoFar(w)'
        BY <2>1, <2>3, <3>1 DEF RestoredSoFar, Undone
      <3> QED BY <2>1, <3>1, <3>2, <3>3 DEF WInv, Progress, Validated, RolledBack
    <2> QED BY <1>10, <2>4, <2>5, <2>6 DEF EditFailed
  <1>11. CASE RestoreFailed(w)
    <2>1. Busy(w) /\ phase[w] = "restore" /\ UNCHANGED <<file, edits, job, opened, tmp>>
      BY <1>11 DEF RestoreFailed, Busy
    <2>2. CASE RestorePrevious(w, FALSE)
      BY <1>11, <2>1, <2>2, RollbackStep DEF RestoreFailed
    <2>3. CASE RestorePrevious(w, intact[w] /\ file[Path(w)].data = job[w].before[Path(w)])
      <3>1. intact[w] => \A i \in 1..Len(job[w].batch) : i > index[w] => Undone(w, job[w].batch[i])
        BY <2>1 DEF WInv, RestoredSoFar
      <3>2. file[Path(w)].data = job[w].before[Path(w)] => Undone(w, Path(w))
        BY DEF Undone
      <3> QED BY <1>11, <2>1, <2>3, <3>1, <3>2, RollbackStep DEF RestoreFailed
    <2> QED BY <1>11, <2>2, <2>3 DEF RestoreFailed
  <1>12. CASE Kill(w)
    <2>1. pc'[w] = "killed" /\ reply'[w] = "none"
      BY <1>12 DEF TypeOK, WInv, Progress, Kill, Goto
    <2> QED BY <2>1 DEF WInv, Progress, Validated, AppliedContent, RestoredSoFar, RolledBack, Busy
  <1> QED BY <1>1, <1>2, <1>3, <1>4, <1>5, <1>6, <1>7, <1>8, <1>9, <1>10, <1>11, <1>12 DEF WorkerStep

----------------------------------------------------------------------------
(* The inductive invariant and what follows from it                        *)

\* Every initial state satisfies the inductive invariant.
LEMMA InitEstablishes == Init => IInv
  <1> SUFFICES ASSUME Init PROVE IInv
    OBVIOUS
  <1>1. TypeOK
    <2>1. file \in [Files -> [data : Hashes, ver : Nat, by : Authors]]
      BY DEF Init, Authors
    <2>2. tmp \in [Workers -> BOOLEAN] /\ intact \in [Workers -> BOOLEAN]
      BY DEF Init
    <2>3. edits \in Nat /\ index \in [Workers -> Nat] /\ opened \in [Workers -> Nat]
      BY DEF Init
    <2>4. /\ pc \in [Workers -> Labels] /\ phase \in [Workers -> {"apply", "restore"}]
          /\ reply \in [Workers -> {"none", "success", "error", "rolledback", "incomplete"}]
      BY DEF Init, Labels
    <2>5. job \in [Workers -> Jobs \cup {NoJob}]
      BY DEF Init
    <2>6. \A w \in Workers : ~Busy(w) /\ index[w] = 1
      BY DEF Init, Busy
    <2> QED BY <2>1, <2>2, <2>3, <2>4, <2>5, <2>6 DEF TypeOK
  <1>2. ASSUME NEW w \in Workers PROVE WInv(w)
    <2>1. pc[w] = "idle" /\ phase[w] = "apply" /\ reply[w] = "none" /\ ~tmp[w]
      BY DEF Init
    <2>2. Outside # <<w, "apply">>
      BY DEF Outside
    <2>3. \A f \in Files : file[f].by # <<w, "apply">>
      BY <2>2 DEF Init
    <2> QED BY <2>1, <2>3 DEF WInv, Progress, Validated, AppliedContent, RestoredSoFar, RolledBack
  <1> QED BY <1>1, <1>2 DEF IInv

\* Every step preserves the inductive invariant.
LEMMA StepPreserves == IInv /\ [Next]_vars => IInv'
  <1> SUFFICES ASSUME IInv, [Next]_vars PROVE IInv'
    OBVIOUS
  <1>0. TypeOK /\ TypeOK'
    BY TypePreserved DEF IInv
  <1> SUFFICES ASSUME NEW w \in Workers PROVE WInv(w)'
    BY <1>0 DEF IInv
  <1>1. WInv(w)
    BY DEF IInv
  <1>2. CASE WorkerStep(w)
    BY <1>0, <1>1, <1>2, OwnPreserves
  <1>3. ASSUME NEW v \in Workers, WorkerStep(v), v # w PROVE WInv(w)'
    <2>1. Own(w) /\ Foreign(w)
      BY <1>0, <1>3, OthersStep
    <2> QED BY <1>0, <1>1, <2>1, OthersPreserve
  <1>4. ASSUME NEW f \in Files, EditOutside(f) PROVE WInv(w)'
    <2>1. Outside # <<w, "apply">>
      BY DEF Outside
    <2>2. Own(w)
      BY <1>4 DEF EditOutside, Own
    <2>3. /\ \A g \in Files \ {f} : file'[g] = file[g]
          /\ file'[f].ver = file[f].ver + 1 /\ file'[f].by = Outside
      BY <1>0, <1>4 DEF EditOutside, TypeOK
    <2>4. file[f].ver \in Nat
      BY <1>0 DEF TypeOK
    <2>5. Foreign(w)
      <3>1. file'[f].ver > file[f].ver /\ file'[f].by # <<w, "apply">>
        BY <2>1, <2>3, <2>4
      <3>2. \A g \in Files : g = f \/ file'[g] = file[g]
        BY <2>3
      <3> QED BY <3>1, <3>2 DEF Foreign
    <2> QED BY <1>0, <1>1, <2>2, <2>5, OthersPreserve
  <1>5. CASE UNCHANGED vars
    <2>1. Own(w) /\ Foreign(w)
      BY <1>5 DEF vars, Own, Foreign
    <2> QED BY <1>0, <1>1, <2>1, OthersPreserve
  <1> QED BY <1>2, <1>3, <1>4, <1>5 DEF Next

\* The inductive invariant holds in every reachable state.
THEOREM Inductive == Spec => []IInv
  BY InitEstablishes, StepPreserves, PTL DEF Spec

\* Every variable keeps its type, and a busy worker's index is inside its batch.
THEOREM TypeCorrect == Spec => []TypeOK
  BY Inductive, PTL DEF IInv

\* Service.edit and the deferred cleanup: a worker that answers that its writes
\* were rolled back has left none of its content behind, and none that answered
\* its temporary file.
THEOREM NothingLeft == Spec => []NothingLeftBehind
  <1>1. IInv => NothingLeftBehind
    BY DEF IInv, WInv, Progress, RolledBack, Undone, NothingLeftBehind
  <1> QED BY <1>1, Inductive, PTL

\* secureAtomicWrite: the content a rename is about to replace is the expected
\* one, unless it was changed after the final validation.
THEOREM ExpectedReplaced == Spec => []ReplacesExpectedContent
  <1>1. IInv => ReplacesExpectedContent
    BY DEF IInv, WInv, Validated, ReplacesExpectedContent
  <1> QED BY <1>1, Inductive, PTL

\* RENAME_NOREPLACE: a write without expected_hash never replaces a file, not even
\* one created after the last check.
THEOREM NeverReplaces == Spec => CreateNeverReplaces
  <1> DEFINE Kept(w, f) == /\ pc[w] = "rename" /\ Path(w) = f /\ Expected(w) = Absent
                           /\ file'[f] # file[f] /\ file'[f].by = <<w, phase[w]>>
                           => file[f].data = Absent
  <1>1. TypeOK /\ [Next]_vars => [\A w \in Workers, f \in Files : Kept(w, f)]_vars
    <2> SUFFICES ASSUME TypeOK, [Next]_vars, NEW w \in Workers, NEW f \in Files,
                        pc[w] = "rename", Path(w) = f, Expected(w) = Absent,
                        file'[f] # file[f], file'[f].by = <<w, phase[w]>>
                 PROVE  file[f].data = Absent
      OBVIOUS
    <2>1. ASSUME NEW v \in Workers, Rename(v) PROVE file[f].data = Absent
      <3>1. Path(v) \in Files
        BY <2>1, TargetIsFile DEF Rename, Busy
      <3>2. file'[f].by = <<v, phase[v]>> /\ (Expected(v) # Absent \/ NameFree(v))
        BY <2>1, <3>1 DEF TypeOK, Rename
      <3>3. v = w
        BY <3>2
      <3> QED BY <3>2, <3>3 DEF NameFree
    <2>2. ASSUME NEW g \in Files, EditOutside(g) PROVE FALSE
      <3>1. PICK d \in Hashes : file' = [file EXCEPT ![g] = [data |-> d, ver |-> @.ver + 1, by |-> Outside]]
        BY <2>2 DEF EditOutside
      <3>2. f = g /\ file'[f].by = Outside
        BY <3>1 DEF TypeOK
      <3>3. phase[w] \in {"apply", "restore"}
        BY DEF TypeOK
      <3> QED BY <3>2, <3>3 DEF Outside
    <2>3. CASE UNCHANGED file
      BY <2>3
    <2> QED BY <2>1, <2>2, <2>3 DEF Next, WorkerStep, vars, Start, CheckHash, OpenTarget, WriteTemp,
               Validate, SyncDir, TargetWritten, WriteFailed, EditFailed, RestoreFailed, Kill
  <1> QED BY <1>1, TypeCorrect, PTL DEF Spec, CreateNeverReplaces

----------------------------------------------------------------------------
(***************************************************************************)
(* The text of a file, which preflightEdits decodes, edits and encodes     *)
(* before the commit: TextFile, for any files and edits.                   *)
(*                                                                         *)
(* Every encoding that detection may choose is undone by encodeLimited:    *)
(* UTF-16 is accepted only after the round trip gave its bytes back, a     *)
(* mark is set apart and put back, and everything else is passed through.  *)
(* The round trip refuses only what is malformed.                          *)
(***************************************************************************)
CONSTANTS Inputs, EditLists, MaxMatches, MaxDecoded, Context

VARIABLES data, text, request, plan

Text == INSTANCE TextFile WITH file <- text

Bytes == 0..255

\* A pair of bytes is the unit they make.
LEMMA UnitBytes ==
    ASSUME NEW a \in Bytes, NEW b \in Bytes
    PROVE  (a + 256 * b) % 256 = a /\ (a + 256 * b) \div 256 = b
  BY DEF Bytes

\* A position of the bytes belongs to a unit.
LEMMA Halves ==
    ASSUME NEW n \in Nat, NEW k \in 1..(2 * n)
    PROVE  /\ (k + 1) \div 2 \in 1..n
           /\ k % 2 = 1 => k = 2 * ((k + 1) \div 2) - 1
           /\ k % 2 # 1 => k = 2 * ((k + 1) \div 2)
  OBVIOUS

\* The round trip with which detectAndDecode looks for malformed UTF-16 refuses
\* no file that is well formed: bytes of any length that are whole units with
\* no lone surrogate come back from encodeLimited as they were.
THEOREM WellFormedRoundTrips ==
    ASSUME NEW b \in Seq(Bytes), Len(b) % 2 # 1, NEW e \in {"utf-16le", "utf-16be"},
           \A u \in 1..Text!Units(b) : ~Text!Lone(b, e, u)
    PROVE  Text!RoundTrips(b, e)
  <1> DEFINE n == Len(b) \div 2
             d == Text!DecodeUTF16(b, e)
  <1>1. n \in Nat /\ Len(b) = 2 * n
    <2>1. Len(b) \in Nat
      OBVIOUS
    <2> QED BY <2>1
  <1>2. Text!Units(b) = n
    BY DEF Text!Units
  <1>3. d = [u \in 1..n |-> IF e = "utf-16le" THEN b[2 * u - 1] + 256 * b[2 * u]
                                              ELSE 256 * b[2 * u - 1] + b[2 * u]]
    <2>1. Len(b) % 2 = 0
      OBVIOUS
    <2>2. \A u \in 1..n : ~(u > n \/ Text!Lone(b, e, u))
      BY <1>1, <1>2
    <2>3. n + (Len(b) % 2) = n
      BY <1>1, <2>1
    <2>4. d = [u \in 1..n |-> IF u > n \/ Text!Lone(b, e, u) THEN Text!Replacement
                                                            ELSE Text!Unit(b, e, u)]
      BY <1>2, <2>3 DEF Text!DecodeUTF16
    <2>5. d = [u \in 1..n |-> Text!Unit(b, e, u)]
      BY <2>2, <2>4
    <2> QED BY <2>5 DEF Text!Unit
  <1> HIDE DEF n, d
  <1>4. /\ Len(d) = n
        /\ \A u \in 1..n : d[u] = IF e = "utf-16le" THEN b[2 * u - 1] + 256 * b[2 * u]
                                                    ELSE 256 * b[2 * u - 1] + b[2 * u]
    BY <1>1, <1>3
  <1>5. DOMAIN b = 1..(2 * n) /\ \A k \in 1..(2 * n) : b[k] \in Bytes
    BY <1>1
  <1>6. ASSUME NEW k \in 1..(2 * n)
        PROVE  (IF (e = "utf-16le") = (k % 2 = 1) THEN d[(k + 1) \div 2] % 256
                                                  ELSE d[(k + 1) \div 2] \div 256) = b[k]
    <2> DEFINE u == (k + 1) \div 2
    <2>1. /\ u \in 1..n
          /\ k % 2 = 1 => k = 2 * u - 1
          /\ k % 2 # 1 => k = 2 * u
      BY <1>1, Halves
    <2> HIDE DEF u
    <2>2. 2 * u - 1 \in 1..(2 * n) /\ 2 * u \in 1..(2 * n)
      BY <1>1, <2>1
    <2>3. b[2 * u - 1] \in Bytes /\ b[2 * u] \in Bytes
      BY <1>5, <2>2
    <2>4. CASE e = "utf-16le"
      <3>1. d[u] = b[2 * u - 1] + 256 * b[2 * u]
        BY <1>4, <2>1, <2>4
      <3>2. d[u] % 256 = b[2 * u - 1] /\ d[u] \div 256 = b[2 * u]
        BY <2>3, <3>1, UnitBytes
      <3> QED BY <2>1, <2>4, <3>2 DEF u
    <2>5. CASE e = "utf-16be"
      <3>1. d[u] = b[2 * u] + 256 * b[2 * u - 1]
        <4>1. d[u] = 256 * b[2 * u - 1] + b[2 * u]
          BY <1>4, <2>1, <2>5
        <4>2. \A x, y \in Bytes : 256 * x + y = y + 256 * x
          BY DEF Bytes
        <4> QED BY <2>3, <4>1, <4>2
      <3>2. d[u] % 256 = b[2 * u] /\ d[u] \div 256 = b[2 * u - 1]
        BY <2>3, <3>1, UnitBytes
      <3> QED BY <2>1, <2>5, <3>2 DEF u
    <2> QED BY <2>4, <2>5
  <1>7. Text!EncodeUTF16(d, e) =
          [k \in 1..(2 * n) |-> IF (e = "utf-16le") = (k % 2 = 1) THEN d[(k + 1) \div 2] % 256
                                                                  ELSE d[(k + 1) \div 2] \div 256]
    BY <1>4 DEF Text!EncodeUTF16
  <1>8. b = [k \in 1..(2 * n) |-> b[k]]
    BY <1>5
  <1> QED BY <1>6, <1>7, <1>8 DEF d, Text!RoundTrips

\* What follows a mark, and the mark, are the whole.
LEMMA MarkRestored ==
    ASSUME NEW b \in Seq(Bytes), NEW m \in Seq(Bytes), Text!IsPrefix(m, b)
    PROVE  /\ Text!From(b, Len(m) + 1) \in Seq(Bytes)
           /\ m \o Text!From(b, Len(m) + 1) = b
  <1> DEFINE f == Text!From(b, Len(m) + 1)
  <1>1. Len(m) \in Nat /\ Len(b) \in Nat /\ Len(m) <= Len(b)
        /\ SubSeq(m, 1, Len(m)) = SubSeq(b, 1, Len(m))
    BY DEF Text!IsPrefix
  <1>2. /\ f \in Seq(Bytes) /\ Len(f) = Len(b) - Len(m)
        /\ \A i \in 1..Len(f) : f[i] = b[Len(m) + i]
    BY <1>1 DEF Text!From
  <1> HIDE DEF f
  <1>3. \A i \in 1..Len(m) : m[i] = b[i]
    BY <1>1
  <1>4. m \o f \in Seq(Bytes) /\ Len(m \o f) = Len(b)
    BY <1>1, <1>2
  <1>5. \A i \in 1..Len(b) : (m \o f)[i] = b[i]
    BY <1>1, <1>2, <1>3
  <1>6. m \o f = b
    <2> DEFINE w == m \o f
    <2>1. w \in Seq(Bytes) /\ Len(w) = Len(b) /\ \A i \in 1..Len(b) : w[i] = b[i]
      BY <1>4, <1>5
    <2> HIDE DEF w
    <2>2. w = [i \in 1..Len(w) |-> w[i]] /\ b = [i \in 1..Len(b) |-> b[i]]
      BY <2>1
    <2>3. w = b
      BY <2>1, <2>2
    <2> QED BY <2>3 DEF w
  <1> QED BY <1>2, <1>6 DEF f

\* Whatever is detected, encoding what was decoded gives the bytes back.
LEMMA DecodedUndone ==
    ASSUME NEW b \in Seq(Bytes), Text!Decode(b).ok
    PROVE  LET f == Text!Decode(b) IN Text!Encode(f.text, f.encoding, f.bom) = b
  <1> DEFINE f == Text!detectAndDecode(b)
             Restored(g) == Text!Encode(g.text, g.encoding, g.bom) = b
  <1>1. Text!Decode(b) = f
    <2>1. Text!Decode(b) # Text!Rejected
      BY DEF Text!Rejected
    <2> QED BY <2>1 DEF Text!Decode
  <1>2. f.ok
    BY <1>1
  <1>3. ASSUME NEW t, NEW e, NEW m, Text!Encode(t, e, m) = b
        PROVE  Restored(Text!Accepted(t, e, m))
    BY <1>3 DEF Text!Accepted
  <1>4. ASSUME NEW m \in Seq(Bytes), NEW e \in {"utf-16le", "utf-16be"}, Text!IsPrefix(m, b),
               f = Text!decodeAuthoritativeUTF16(Text!From(b, Len(m) + 1), e, m)
        PROVE  Restored(f)
    <2> DEFINE body == Text!From(b, Len(m) + 1)
    <2>1. body \in Seq(Bytes) /\ m \o body = b
      BY <1>4, MarkRestored
    <2> HIDE DEF body, f
    <2>2. f = IF Text!RoundTrips(body, e) THEN Text!Accepted(Text!DecodeUTF16(body, e), e, m)
                                          ELSE Text!Rejected
      BY <1>4 DEF Text!decodeAuthoritativeUTF16, body
    <2>3. Text!RoundTrips(body, e)
      BY <1>2, <2>2 DEF Text!Rejected
    <2>4. Text!EncodeUTF16(Text!DecodeUTF16(body, e), e) = body
      BY <2>3 DEF Text!RoundTrips
    <2>5. Text!Encode(Text!DecodeUTF16(body, e), e, m) = b
      BY <2>1, <2>4 DEF Text!Encode
    <2> QED BY <1>3, <2>2, <2>3, <2>5
  <1>5. ASSUME Text!IsPrefix(Text!BOMUTF8, b),
               f = IF Text!isASCII(Text!From(b, 4))
                   THEN Text!Accepted(Text!From(b, 4), "utf-8", Text!BOMUTF8) ELSE Text!Rejected
        PROVE  Restored(f)
    <2>1. Text!BOMUTF8 \in Seq(Bytes) /\ Len(Text!BOMUTF8) + 1 = 4
      BY DEF Text!BOMUTF8, Bytes
    <2>2. Text!BOMUTF8 \o Text!From(b, 4) = b
      BY <1>5, <2>1, MarkRestored
    <2> HIDE DEF f, Restored
    <2>3. f = Text!Accepted(Text!From(b, 4), "utf-8", Text!BOMUTF8)
      BY <1>2, <1>5 DEF Text!Rejected
    <2>4. Text!Encode(Text!From(b, 4), "utf-8", Text!BOMUTF8) = b
      BY <2>2 DEF Text!Encode
    <2> QED BY <1>3, <2>3, <2>4
  <1>6. ASSUME Text!IsPrefix(Text!BOMUTF16LE, b),
               f = Text!decodeAuthoritativeUTF16(Text!From(b, 3), "utf-16le", Text!BOMUTF16LE)
        PROVE  Restored(f)
    <2>1. Text!BOMUTF16LE \in Seq(Bytes) /\ Len(Text!BOMUTF16LE) + 1 = 3
      BY DEF Text!BOMUTF16LE, Bytes
    <2> HIDE DEF f, Restored
    <2> QED BY <1>4, <1>6, <2>1
  <1>7. ASSUME Text!IsPrefix(Text!BOMUTF16BE, b),
               f = Text!decodeAuthoritativeUTF16(Text!From(b, 3), "utf-16be", Text!BOMUTF16BE)
        PROVE  Restored(f)
    <2>1. Text!BOMUTF16BE \in Seq(Bytes) /\ Len(Text!BOMUTF16BE) + 1 = 3
      BY DEF Text!BOMUTF16BE, Bytes
    <2> HIDE DEF f, Restored
    <2> QED BY <1>4, <1>7, <2>1
  <1> DEFINE u == Text!detectUTF16(b)
             g == IF u # "none" THEN Text!Accepted(Text!DecodeUTF16(b, u), u, << >>)
                  ELSE Text!Accepted(b, IF Text!isASCII(b) THEN "utf-8" ELSE "iso-8859-1", << >>)
  <1>8. ASSUME f = g PROVE Restored(f)
    <2>1. << >> \o b = b
      OBVIOUS
    <2>2. ASSUME u # "none" PROVE Restored(f)
      <3>1. Text!RoundTrips(b, u) /\ u \in {"utf-16le", "utf-16be"}
        BY <2>2 DEF Text!detectUTF16
      <3> HIDE DEF u, f, Restored
      <3>2. Text!Encode(Text!DecodeUTF16(b, u), u, << >>) = b
        BY <2>1, <3>1 DEF Text!Encode, Text!RoundTrips
      <3> QED BY <1>3, <1>8, <2>2, <3>2
    <2>3. ASSUME u = "none" PROVE Restored(f)
      <3> HIDE DEF u, f, Restored
      <3> DEFINE e == IF Text!isASCII(b) THEN "utf-8" ELSE "iso-8859-1"
      <3>1. e \notin {"utf-16le", "utf-16be"}
        OBVIOUS
      <3>2. f = Text!Accepted(b, e, << >>)
        BY <1>8, <2>3
      <3> HIDE DEF e
      <3>3. Text!Encode(b, e, << >>) = b
        BY <2>1, <3>1 DEF Text!Encode
      <3> QED BY <1>3, <3>2, <3>3
    <2> QED BY <2>2, <2>3
  <1>9. \/ Text!IsPrefix(Text!BOMUTF8, b) /\ f = IF Text!isASCII(Text!From(b, 4))
              THEN Text!Accepted(Text!From(b, 4), "utf-8", Text!BOMUTF8) ELSE Text!Rejected
        \/ /\ Text!IsPrefix(Text!BOMUTF16LE, b)
           /\ f = Text!decodeAuthoritativeUTF16(Text!From(b, 3), "utf-16le", Text!BOMUTF16LE)
        \/ /\ Text!IsPrefix(Text!BOMUTF16BE, b)
           /\ f = Text!decodeAuthoritativeUTF16(Text!From(b, 3), "utf-16be", Text!BOMUTF16BE)
        \/ f = g
    BY DEF Text!detectAndDecode
  <1>10. Restored(f)
    <2> HIDE DEF f, g, Restored
    <2> QED BY <1>5, <1>6, <1>7, <1>8, <1>9
  <1> QED BY <1>1, <1>10

\* The file is what Decode made of the bytes.
TextRead == data \in Inputs /\ (text.ok => text = Text!Decode(data))

\* Decode and Encode: for any bytes, what preflightEdits accepts for editing
\* encodes to the very bytes that were read.
THEOREM LosslessDecoding ==
    ASSUME Inputs \subseteq Seq(0..255)
    PROVE  Text!Spec => []Text!DecodingIsLossless
  <1>1. Text!Init => TextRead
    BY DEF Text!Init, TextRead, Text!Rejected
  <1>2. TextRead /\ [Text!Next]_Text!vars => TextRead'
    BY DEF TextRead, Text!Next, Text!Open, Text!Edit, Text!vars
  <1>3. TextRead => Text!DecodingIsLossless
    BY DecodedUndone DEF TextRead, Text!DecodingIsLossless, Bytes
  <1> QED BY <1>1, <1>2, <1>3, PTL DEF Text!Spec
=============================================================================
