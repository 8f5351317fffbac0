----------------------------- MODULE FileCommit -----------------------------
(***************************************************************************)
(* The commit of a File Worker: FS.WriteFile with secureAtomicWrite, and   *)
(* the batch of edit and multi_edit with its rollback (Service.edit,       *)
(* restoreEdit).                                                           *)
(*                                                                         *)
(* Workers are separate processes, one per approved call, and share        *)
(* nothing but the workspace; editors outside the agent write to it too.   *)
(* Each system call that another process can come before is a step.  A     *)
(* file has a content hash and a version that every change moves on, which *)
(* stands for the inode, size and timestamps sameLinuxTargetState compares.*)
(***************************************************************************)
EXTENDS Naturals, Sequences

CONSTANTS
    Workers,   \* File Worker processes, one commit each
    Files,     \* paths of the workspace
    Contents,  \* content hashes
    Absent,    \* there is no file; also the empty expected_hash
    Batches,   \* target lists of the jobs: sequences of distinct files
    Kinds,     \* operations: a subset of {"write", "edit"}
    MaxEdits   \* bound on the writes from outside

\* Author of what is written by others than the agent.
Outside == <<"editor", "outside">>

ASSUME AbsentAssumption == Absent \notin Contents
ASSUME BatchAssumption  ==
    /\ Batches \subseteq Seq(Files)
    /\ \A b \in Batches : b # << >> /\ \A i, j \in DOMAIN b : b[i] = b[j] => i = j
ASSUME KindAssumption   == Kinds \subseteq {"write", "edit"} /\ MaxEdits \in Nat

VARIABLES
    file,    \* path -> content, version, and who put the content there
    edits,   \* writes from outside so far
    pc,      \* progress of a worker
    job,     \* kind, target list, before and after hash of each target
    phase,   \* "apply", or "restore" during the rollback
    index,   \* the target being written
    opened,  \* version secureAtomicWrite saw when it opened the target
    tmp,     \* the worker's temporary file exists
    intact,  \* rollbackOK
    reply    \* the worker's response

vars == <<file, edits, pc, job, phase, index, opened, tmp, intact, reply>>

Hashes == Contents \cup {Absent}

\* The job of a worker that has not read one, or is dead.
NoJob == [kind |-> "write", batch |-> CHOOSE b \in Batches : TRUE,
          before |-> [f \in Files |-> Absent], after |-> [f \in Files |-> Absent]]

Init ==
    /\ file \in [Files -> [data : Hashes, ver : {0}, by : {Outside}]]
    /\ edits = 0
    /\ pc = [w \in Workers |-> "idle"]
    /\ job = [w \in Workers |-> NoJob]
    /\ phase = [w \in Workers |-> "apply"]
    /\ index = [w \in Workers |-> 1]
    /\ opened = [w \in Workers |-> 0]
    /\ tmp = [w \in Workers |-> FALSE]
    /\ intact = [w \in Workers |-> TRUE]
    /\ reply = [w \in Workers |-> "none"]

\* The target being written, what is written, and the hash it must replace.
Path(w)     == job[w].batch[index[w]]
Data(w)     == IF phase[w] = "apply" THEN job[w].after[Path(w)] ELSE job[w].before[Path(w)]
Expected(w) == IF phase[w] = "apply" THEN job[w].before[Path(w)] ELSE job[w].after[Path(w)]

\* The files a target list names.
Targets(b) == {b[i] : i \in DOMAIN b}

Goto(w, label) == pc' = [pc EXCEPT ![w] = label]

\* A faulty variant of Fail: the temporary file stays behind.
FailKeepingTemp(w) == Goto(w, "failed") /\ UNCHANGED tmp

\* WriteFile returns an error; the deferred cleanup removes the temporary file.
Fail(w) == Goto(w, "failed") /\ tmp' = [tmp EXCEPT ![w] = FALSE]

----------------------------------------------------------------------------
(* Faulty variants, used by no specification: each shows that a property   *)
(* can fail.                                                               *)

\* The hash is not computed again before the rename.
StateOnly(w) == file[Path(w)].ver = opened[w]

\* A new file is put in place with a plain rename.
RenameAnyway(w) == TRUE

\* The response ignores rollbackOK.
AlwaysRolledBack(ok) == "rolledback"

----------------------------------------------------------------------------
\* The Gateway's worker starts.  A write names the hash of the Gateway's
\* preflight; an edit reads its targets, which must be those approved (reads
\* of different files are independent, each is checked again when written).
Start(w) ==
    /\ pc[w] = "idle"
    /\ \E k \in Kinds, b \in Batches : \E a \in [Targets(b) -> Contents] :
         /\ k = "write" => Len(b) = 1
         /\ k = "edit" => \A f \in Targets(b) : file[f].data # Absent
         /\ job' = [job EXCEPT ![w] =
                      [kind |-> k, batch |-> b,
                       before |-> [f \in Files |-> IF f \in Targets(b) THEN file[f].data ELSE Absent],
                       after |-> [f \in Files |-> IF f \in Targets(b) THEN a[f] ELSE Absent]]]
    /\ Goto(w, "check")
    /\ UNCHANGED <<file, edits, phase, index, opened, tmp, intact, reply>>

----------------------------------------------------------------------------
(* FS.WriteFile and secureAtomicWrite                                      *)

\* WriteFile: an existing file needs an expected hash, and has it.
CheckHash(w) ==
    /\ pc[w] = "check"
    /\ \/ file[Path(w)].data = Expected(w) /\ Goto(w, "open") /\ UNCHANGED tmp
       \/ Fail(w)                  \* ErrConflict, or an I/O error
    /\ UNCHANGED <<file, edits, job, phase, index, opened, intact, reply>>

\* The state of the target that the final validation compares with.
OpenedState(w) == file[Path(w)].ver

\* secureAtomicWrite opens the target: it exists iff a hash is expected.
OpenTarget(w) ==
    /\ pc[w] = "open"
    /\ \/ /\ (file[Path(w)].data = Absent) <=> (Expected(w) = Absent)
          /\ opened' = [opened EXCEPT ![w] = OpenedState(w)]
          /\ Goto(w, "temp")
          /\ UNCHANGED tmp
       \/ Fail(w) /\ UNCHANGED opened
    /\ UNCHANGED <<file, edits, job, phase, index, intact, reply>>

\* Create, write and sync the temporary file; or run into an error, on which
\* it is removed.
WriteTemp(w) ==
    /\ pc[w] = "temp"
    /\ \/ Goto(w, "validate") /\ tmp' = [tmp EXCEPT ![w] = TRUE]
       \/ Fail(w)
    /\ UNCHANGED <<file, edits, job, phase, index, opened, intact, reply>>

\* The open target still hashes to the expected value and its state, by
\* descriptor and by name, is the one seen when it was opened.
Unchanged(w) == file[Path(w)].data = Expected(w) /\ file[Path(w)].ver = opened[w]

Validate(w) ==
    /\ pc[w] = "validate"
    /\ \/ /\ IF Expected(w) = Absent THEN file[Path(w)].data = Absent ELSE Unchanged(w)
          /\ Goto(w, "rename")
          /\ UNCHANGED tmp
       \/ Fail(w)
    /\ UNCHANGED <<file, edits, job, phase, index, opened, intact, reply>>

\* RENAME_NOREPLACE: the rename of a new file fails if the name is taken.
NameFree(w) == file[Path(w)].data = Absent

Rename(w) ==
    /\ pc[w] = "rename"
    /\ \/ /\ Expected(w) # Absent \/ NameFree(w)
          /\ file' = [file EXCEPT ![Path(w)] =
                        [data |-> Data(w), ver |-> @.ver + 1, by |-> <<w, phase[w]>>]]
          /\ tmp' = [tmp EXCEPT ![w] = FALSE]
          /\ Goto(w, "fsync")
       \/ Fail(w) /\ UNCHANGED file
    /\ UNCHANGED <<edits, job, phase, index, opened, intact, reply>>

\* fsync of the directory: it may fail although the file is replaced.
SyncDir(w) ==
    /\ pc[w] = "fsync"
    /\ \/ Goto(w, "written") /\ UNCHANGED tmp
       \/ Fail(w)
    /\ UNCHANGED <<file, edits, job, phase, index, opened, intact, reply>>

----------------------------------------------------------------------------
(* Service.write and Service.edit                                          *)

Respond(w, value) == Goto(w, "done") /\ reply' = [reply EXCEPT ![w] = value]

\* The rollback is over.
RollbackReply(ok) == IF ok THEN "rolledback" ELSE "incomplete"

\* The next target of the rollback, in reverse order, or the response.
RestorePrevious(w, ok) ==
    /\ intact' = [intact EXCEPT ![w] = ok]
    /\ phase' = [phase EXCEPT ![w] = "restore"]
    /\ IF index[w] > 1
       THEN index' = [index EXCEPT ![w] = @ - 1] /\ Goto(w, "check") /\ UNCHANGED reply
       ELSE Respond(w, RollbackReply(ok)) /\ UNCHANGED index

\* A target was written (or restored): on to the next one.
TargetWritten(w) ==
    /\ pc[w] = "written"
    /\ \/ /\ phase[w] = "apply" /\ index[w] < Len(job[w].batch)
          /\ index' = [index EXCEPT ![w] = @ + 1]
          /\ Goto(w, "check")
          /\ UNCHANGED <<phase, intact, reply>>
       \/ /\ phase[w] = "apply" /\ index[w] = Len(job[w].batch)
          /\ Respond(w, "success")
          /\ UNCHANGED <<phase, index, intact>>
       \/ phase[w] = "restore" /\ RestorePrevious(w, intact[w])
    /\ UNCHANGED <<file, edits, job, opened, tmp>>

\* write_file does not roll back.
WriteFailed(w) ==
    /\ pc[w] = "failed" /\ job[w].kind = "write"
    /\ Respond(w, "error")
    /\ UNCHANGED <<file, edits, job, phase, index, opened, tmp, intact>>

\* currentHash # AfterSHA256: there is nothing of this worker to undo.
NothingToUndo(w) == file[Path(w)].data # job[w].after[Path(w)]

\* The checksum of the target whose write failed decides what the rollback
\* does with it; it may fail itself.
EditFailed(w) ==
    /\ pc[w] = "failed" /\ job[w].kind = "edit" /\ phase[w] = "apply"
    /\ \/ /\ ~NothingToUndo(w)
          /\ phase' = [phase EXCEPT ![w] = "restore"]
          /\ Goto(w, "check")
          /\ UNCHANGED <<index, intact, reply>>
       \/ NothingToUndo(w) /\ RestorePrevious(w, file[Path(w)].data = job[w].before[Path(w)])
       \/ RestorePrevious(w, FALSE)
    /\ UNCHANGED <<file, edits, job, opened, tmp>>

\* restoreEdit: a failed restore is fine if the content is back anyway.
RestoreFailed(w) ==
    /\ pc[w] = "failed" /\ phase[w] = "restore"
    /\ \/ RestorePrevious(w, intact[w] /\ file[Path(w)].data = job[w].before[Path(w)])
       \/ RestorePrevious(w, FALSE)
    /\ UNCHANGED <<file, edits, job, opened, tmp>>

----------------------------------------------------------------------------
\* The hard timeout kills the worker's process group: what it did to the
\* workspace stays, its memory is gone.
Kill(w) ==
    /\ pc[w] \notin {"idle", "done", "killed"}
    /\ Goto(w, "killed")
    /\ job' = [job EXCEPT ![w] = NoJob]
    /\ phase' = [phase EXCEPT ![w] = "apply"]
    /\ index' = [index EXCEPT ![w] = 1]
    /\ opened' = [opened EXCEPT ![w] = 0]
    /\ intact' = [intact EXCEPT ![w] = TRUE]
    /\ UNCHANGED <<file, edits, tmp, reply>>

\* Someone else writes, creates or removes a file.
EditOutside(f) ==
    /\ edits < MaxEdits
    /\ edits' = edits + 1
    /\ \E d \in Hashes : file' = [file EXCEPT ![f] = [data |-> d, ver |-> @.ver + 1, by |-> Outside]]
    /\ UNCHANGED <<pc, job, phase, index, opened, tmp, intact, reply>>

WorkerStep(w) ==
    \/ Start(w)
    \/ CheckHash(w) \/ OpenTarget(w) \/ WriteTemp(w) \/ Validate(w) \/ Rename(w) \/ SyncDir(w)
    \/ TargetWritten(w) \/ WriteFailed(w) \/ EditFailed(w) \/ RestoreFailed(w)
    \/ Kill(w)

Next ==
    \/ \E w \in Workers : WorkerStep(w)
    \/ \E f \in Files : EditOutside(f)

Spec == Init /\ [][Next]_vars

----------------------------------------------------------------------------
\* A worker that answers "completed writes were rolled back" has left none of
\* its content behind, although any of its writes may have failed before or
\* after the rename and others write to the same files; and one that answered
\* anything has removed its temporary file, on every path.
NothingLeftBehind ==
    /\ \A w \in Workers, f \in Files :
          reply[w] = "rolledback" /\ file[f].by = <<w, "apply">> => file[f].data = job[w].before[f]
    /\ \A w \in Workers : pc[w] = "done" => ~tmp[w]

\* The content a rename is about to replace hashes to the expected value,
\* unless the file was changed after the final validation.
ReplacesExpectedContent ==
    \A w \in Workers :
        pc[w] = "rename" /\ Expected(w) # Absent /\ file[Path(w)].ver = opened[w]
            => file[Path(w)].data = Expected(w)

\* A write without expected_hash never replaces a file, not even one that was
\* created after the last check.
CreateNeverReplaces ==
    [][\A w \in Workers, f \in Files :
         /\ pc[w] = "rename" /\ Path(w) = f /\ Expected(w) = Absent
         /\ file'[f] # file[f] /\ file'[f].by = <<w, phase[w]>>
         => file[f].data = Absent]_vars
=============================================================================
