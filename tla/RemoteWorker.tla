---------------------------- MODULE RemoteWorker ----------------------------
(***************************************************************************)
(* The Remote Worker: one process that runs one signed SSH or SFTP job     *)
(* (remoteworker/service.go, policy.go) with one credential.               *)
(*                                                                         *)
(* A remote path is the sequence of its components, already clean and      *)
(* absolute.  The server's tree is what RealPath answers; it does not      *)
(* change while the job runs.  The command's two output streams are copied *)
(* by two goroutines that share one budget.                                *)
(***************************************************************************)
EXTENDS Naturals, Sequences, SequencesExt

CONSTANTS
    RemotePaths, \* the paths a job may name
    NoPath,      \* RealPath's error
    RealPath,    \* the server's answer for a path
    Profiles,    \* the SSH profiles: roots, read, write, commands allowed
    MaxOutput,   \* limits.MaxOutputBytes
    MaxProduced  \* bound on what the command writes

ASSUME RemoteAssumption ==
    /\ MaxOutput \in Nat /\ MaxProduced \in Nat
    /\ Profiles # {} /\ \A p \in RemotePaths : p # << >>

VARIABLE remote \* the worker process and what it has done

SFTPOps   == {"sftp_list", "sftp_read", "sftp_write", "sftp_mkdir", "sftp_rename"}
RemoteOps == SFTPOps \cup {"ssh_exec"}
Streams   == {"stdout", "stderr"}

RemoteIdle ==
    [pc |-> "idle", op |-> "none", profile |-> CHOOSE p \in Profiles : TRUE,
     path |-> << >>, destination |-> << >>, roots |-> {}, touched |-> {}, ran |-> FALSE,
     file |-> "kept", produced |-> [s \in Streams |-> 0], kept |-> [s \in Streams |-> 0],
     remaining |-> MaxOutput, exceeded |-> FALSE]

----------------------------------------------------------------------------
(* The policy. *)

Under(p, roots) == \E r \in roots : IsPrefix(r, p)

CommandAllowed(profile) == profile.command

\* operationAllowed: what the job names, before anything is asked of the server.
operationAllowed(op, p, d, profile) ==
    CASE op = "ssh_exec" -> CommandAllowed(profile)
      [] op \in {"sftp_list", "sftp_read"} -> Under(p, profile.roots) /\ profile.read
      [] op \in {"sftp_write", "sftp_mkdir"} -> Under(p, profile.roots) /\ profile.write
      [] op = "sftp_rename" ->
            Under(p, profile.roots) /\ Under(d, profile.roots) /\ profile.write

\* authorizeResolvedPath of what the server says the path is.
Authorized(p, roots) == IF p # NoPath /\ Under(p, roots) THEN p ELSE NoPath

secureExistingPath(p, roots) == Authorized(RealPath[p], roots)

ParentResolved(p) ==
    LET parent == RealPath[Front(p)]
    IN  IF parent = NoPath THEN NoPath ELSE Append(parent, Last(p))

----------------------------------------------------------------------------
(* Faulty variants of the definitions below.  No specification uses them:  *)
(* each shows that a property can fail.                                    *)

\* A path that does not exist yet is not compared with the roots.
CreationUnchecked(p, roots) ==
    IF RealPath[p] # NoPath THEN Authorized(RealPath[p], roots) ELSE ParentResolved(p)

----------------------------------------------------------------------------
secureCreationPath(p, roots) ==
    Authorized(IF RealPath[p] # NoPath THEN RealPath[p] ELSE ParentResolved(p), roots)

----------------------------------------------------------------------------
(* The steps of Service.Execute. *)

RemoteFail    == remote' = [remote EXCEPT !.pc = "error"]
RemoteRunning == remote.pc \notin {"idle", "success", "error"}

\* The signed job and the profile's expiry are checked (module RequestGate),
\* then what the profile allows, and the process is confined.
RemoteAuthorize(accepted, confined) ==
    /\ remote.pc = "job"
    /\ IF /\ accepted /\ confined
          /\ operationAllowed(remote.op, remote.path, remote.destination, remote.profile)
          THEN remote' = [remote EXCEPT !.pc = "connect"]
          ELSE RemoteFail

RemoteConnect ==
    /\ remote.pc = "connect"
    /\ remote' = [remote EXCEPT !.pc = IF remote.op = "ssh_exec" THEN "command" ELSE "roots"]

\* canonicalSFTPRoots
RemoteRoots ==
    LET resolved == {RealPath[r] : r \in remote.profile.roots}
    IN  /\ remote.pc = "roots"
        /\ IF NoPath \in resolved
              THEN RemoteFail
              ELSE remote' = [remote EXCEPT !.pc = "paths", !.roots = resolved]

Reads(op)  == op \in {"sftp_list", "sftp_read", "sftp_rename"}
Creates(op) == op \in {"sftp_write", "sftp_mkdir", "sftp_rename"}
Created    == IF remote.op = "sftp_rename" THEN remote.destination ELSE remote.path

\* The paths executeSFTP hands to the server.
SecurePaths ==
    (IF Reads(remote.op) THEN {secureExistingPath(remote.path, remote.roots)} ELSE {})
        \cup (IF Creates(remote.op) THEN {secureCreationPath(Created, remote.roots)} ELSE {})

\* The server does it, or refuses and has done nothing.  Opening a file to
\* write empties it.
RemoteOperate(done) ==
    /\ remote.pc = "paths"
    /\ IF NoPath \in SecurePaths \/ ~done
          THEN RemoteFail
          ELSE remote' = [remote EXCEPT
                            !.touched = SecurePaths,
                            !.file = IF remote.op = "sftp_write" THEN "emptied" ELSE @,
                            !.pc = IF remote.op = "sftp_write" THEN "copy" ELSE "limits"]

\* io.Copy and Close
RemoteCopy(copied) ==
    /\ remote.pc = "copy"
    /\ IF copied
          THEN remote' = [remote EXCEPT !.file = "written", !.pc = "limits"]
          ELSE RemoteFail

\* enforceResponseLimit, with the limits on entries and on the size of a file.
RemoteLimits(within) ==
    /\ remote.pc = "limits"
    /\ IF within \/ remote.op \notin {"sftp_list", "sftp_read"}
          THEN remote' = [remote EXCEPT !.pc = "success"]
          ELSE RemoteFail

RemoteCommand ==
    /\ remote.pc = "command"
    /\ remote' = [remote EXCEPT !.pc = "output", !.ran = TRUE]

\* limitedOutput.Write of n bytes of one stream, under the budget's lock.  A
\* stream whose write failed is no longer copied.
Overflows(n) == n > remote.remaining

RemoteOutput(s, n) ==
    LET allowed == IF n > remote.remaining THEN remote.remaining ELSE n
    IN  /\ remote.pc = "output"
        /\ remote.kept[s] = remote.produced[s]
        /\ remote.produced[s] + n <= MaxProduced
        /\ remote' = [remote EXCEPT !.produced[s] = @ + n, !.kept[s] = @ + allowed,
                                    !.remaining = @ - allowed,
                                    !.exceeded = @ \/ Overflows(n)]

\* session.Run has returned, and Exec looks at the budget.
RemoteExit ==
    /\ remote.pc = "output"
    /\ remote' = [remote EXCEPT !.pc = IF remote.exceeded THEN "error" ELSE "success"]

\* The job's deadline, and any failure of the connection.
RemoteBroken == RemoteRunning /\ RemoteFail

RemoteStep ==
    \/ \E accepted, confined \in BOOLEAN : RemoteAuthorize(accepted, confined)
    \/ RemoteConnect
    \/ RemoteRoots
    \/ \E done \in BOOLEAN : RemoteOperate(done)
    \/ \E copied \in BOOLEAN : RemoteCopy(copied)
    \/ \E within \in BOOLEAN : RemoteLimits(within)
    \/ RemoteCommand
    \/ \E s \in Streams, n \in 1..MaxProduced : RemoteOutput(s, n)
    \/ RemoteExit
    \/ RemoteBroken

----------------------------------------------------------------------------
(* Properties. *)

\* Whatever the server's links make of the paths a job names, the server is
\* asked to read, write, make or rename only what is below a root of the
\* profile once both are resolved, an operation the profile denies touches
\* nothing, and no command runs that the profile does not list.
RemoteContained ==
    /\ \A p \in remote.touched :
          \E r \in remote.profile.roots : RealPath[r] # NoPath /\ IsPrefix(RealPath[r], p)
    /\ remote.touched # {} =>
          IF remote.op \in {"sftp_list", "sftp_read"} THEN remote.profile.read
                                                      ELSE remote.profile.write
    /\ remote.ran => remote.profile.command
=============================================================================
