----------------------------- MODULE Installer -----------------------------
(***************************************************************************)
(* Installers that add or remove a server entry in the configuration file  *)
(* of an MCP client (installer/installer.go): a plan is made from what the *)
(* file holds, and Apply replaces the file if it still holds that.         *)
(*                                                                         *)
(* Installers run side by side and exclude each other with a file lock;    *)
(* the client, which knows nothing of the lock, rewrites its own settings  *)
(* at any time.  A process may be killed between any two steps, and the    *)
(* host may lose power, which undoes what no sync has made durable.        *)
(*                                                                         *)
(* A configuration is the server entries it holds and the version of the   *)
(* client's own settings.                                                  *)
(***************************************************************************)
EXTENDS Naturals, FiniteSets

CONSTANTS
    Installers, \* processes
    Nobody,     \* the lock is free
    Work,       \* what an installer does: [kind, name]
    MaxEdits,   \* bound on the client's edits
    MaxNow,     \* bound on the clock, in seconds
    MaxCrashes  \* bound on kills and power losses

ASSUME InstallerAssumption ==
    /\ Nobody \notin Installers
    /\ \A w \in Work : w.kind \in {"install", "uninstall"}
    /\ MaxNow \in Nat

VARIABLES
    config,  \* the file as programs see it
    durable, \* the file as a power loss would leave it
    backups, \* second -> the backup named after it and whether it is durable
    lock,    \* the holder of the apply lock
    proc,    \* the installers
    now,
    edits,   \* the client's edits
    crashes

vars == <<config, durable, backups, lock, proc, now, edits, crashes>>

Absent == [kind |-> "absent"]
Torn   == [kind |-> "torn"]
File(servers, settings) == [kind |-> "file", servers |-> servers, settings |-> settings]
NoBackup == [content |-> Absent, durable |-> FALSE]
Seconds  == 0..MaxNow

Running == {"locked", "temp", "synced", "checked", "backedUp", "dirSynced", "verified", "renamed"}
NewProc(w) == [work |-> w, pc |-> "start", before |-> Absent, after |-> Absent,
               backup |-> 0, temp |-> Absent]

Init ==
    /\ config \in {Absent, File({}, 0)} /\ durable = config
    /\ backups = [s \in Seconds |-> NoBackup]
    /\ lock = Nobody
    /\ \E w \in [Installers -> Work] : proc = [i \in Installers |-> NewProc(w[i])]
    /\ now = 0 /\ edits = 0 /\ crashes = 0

----------------------------------------------------------------------------
(* Faulty variants of the definitions below.  No specification uses them:  *)
(* each shows that a property can fail.                                    *)

\* flock is not asked to exclude anyone.
LockNotTaken(i) == TRUE

\* The temporary file is renamed without having been synced.
TempNotSynced(after) == Torn

\* A backup of the same second is overwritten.
Overwritten(s) == TRUE

----------------------------------------------------------------------------
(* PlanInstall and PlanUninstall. *)

Servers(c) == IF c.kind = "file" THEN c.servers ELSE {}
Settings(c) == IF c.kind = "file" THEN c.settings ELSE 0

\* Only the entry named is added, replaced or removed.
Planned(c, w) ==
    File(IF w.kind = "install" THEN Servers(c) \cup {w.name} ELSE Servers(c) \ {w.name}, Settings(c))

MakePlan(i) ==
    LET w == proc[i].work
    IN  /\ proc[i].pc = "start"
        /\ proc' = [proc EXCEPT ![i] =
              IF config = Torn \/ (w.kind = "uninstall" /\ w.name \notin Servers(config))
                 THEN [@ EXCEPT !.pc = "failed"]
                 ELSE [@ EXCEPT !.pc = "planned", !.before = config,
                                !.after = Planned(config, w), !.backup = now]]
        /\ UNCHANGED <<config, durable, backups, lock, now, edits, crashes>>

----------------------------------------------------------------------------
(* Apply. *)

To(i, pc) == proc' = [proc EXCEPT ![i].pc = pc]

\* An early return releases the lock and removes the temporary file.
Leave(i, pc) ==
    /\ proc' = [proc EXCEPT ![i].pc = pc, ![i].temp = Absent]
    /\ lock' = IF lock = i THEN Nobody ELSE lock

\* acquireApplyLock does not wait.
Excluded(i) == lock = Nobody

Acquire(i) ==
    /\ proc[i].pc = "planned"
    /\ IF Excluded(i) THEN lock' = i /\ To(i, "locked")
                      ELSE To(i, "failed") /\ UNCHANGED lock
    /\ UNCHANGED <<config, durable, backups, now, edits, crashes>>

\* verifyPlanBefore
Unchanged(i) == config = proc[i].before

\* The first check; a plan that changes nothing is done.
Begin(i) ==
    /\ proc[i].pc = "locked"
    /\ CASE ~Unchanged(i) -> Leave(i, "failed")
         [] Unchanged(i) /\ proc[i].before = proc[i].after -> Leave(i, "same")
         [] OTHER -> To(i, "temp") /\ UNCHANGED lock
    /\ UNCHANGED <<config, durable, backups, now, edits, crashes>>

\* What a power loss leaves of the temporary file.
Synced(after) == after

WriteTemp(i, ok) ==
    /\ proc[i].pc = "temp"
    /\ IF ok THEN /\ proc' = [proc EXCEPT ![i].pc = "synced", ![i].temp = Synced(proc[i].after)]
                  /\ UNCHANGED lock
             ELSE Leave(i, "failed")
    /\ UNCHANGED <<config, durable, backups, now, edits, crashes>>

Check(i) ==
    /\ proc[i].pc = "synced"
    /\ IF Unchanged(i) THEN To(i, "checked") /\ UNCHANGED lock ELSE Leave(i, "failed")
    /\ UNCHANGED <<config, durable, backups, now, edits, crashes>>

\* writeExclusive: the name must be new.  A write that fails leaves a partial
\* backup behind.
NameIsNew(s) == backups[s] = NoBackup

Backup(i, ok) ==
    LET s == proc[i].backup
    IN  /\ proc[i].pc = "checked"
        /\ CASE proc[i].before = Absent -> To(i, "dirSynced") /\ UNCHANGED <<lock, backups>>
             [] proc[i].before # Absent /\ ~NameIsNew(s) ->
                    Leave(i, "failed") /\ UNCHANGED backups
             [] proc[i].before # Absent /\ NameIsNew(s) /\ ok ->
                    /\ backups' = [backups EXCEPT ![s] = [content |-> proc[i].before, durable |-> FALSE]]
                    /\ To(i, "backedUp") /\ UNCHANGED lock
             [] OTHER ->
                    /\ backups' = [backups EXCEPT ![s] = [content |-> Torn, durable |-> FALSE]]
                    /\ Leave(i, "failed")
        /\ UNCHANGED <<config, durable, now, edits, crashes>>

SyncBackup(i, ok) ==
    /\ proc[i].pc = "backedUp"
    /\ IF ok THEN /\ backups' = [backups EXCEPT ![proc[i].backup].durable = TRUE]
                  /\ To(i, "dirSynced") /\ UNCHANGED lock
             ELSE Leave(i, "failed") /\ UNCHANGED backups
    /\ UNCHANGED <<config, durable, now, edits, crashes>>

\* The last check; the backup of a change that is not made is removed.
Verify(i) ==
    /\ proc[i].pc = "dirSynced"
    /\ IF Unchanged(i) THEN To(i, "verified") /\ UNCHANGED <<lock, backups>>
       ELSE /\ Leave(i, "failed")
            /\ backups' = IF proc[i].before = Absent THEN backups
                          ELSE [backups EXCEPT ![proc[i].backup] = NoBackup]
    /\ UNCHANGED <<config, durable, now, edits, crashes>>

Rename(i, ok) ==
    /\ proc[i].pc = "verified"
    /\ IF ok THEN config' = proc[i].after /\ To(i, "renamed") /\ UNCHANGED lock
             ELSE Leave(i, "failed") /\ UNCHANGED config
    /\ UNCHANGED <<durable, backups, now, edits, crashes>>

\* Without the sync Apply reports an error, although the file is replaced.
SyncConfig(i, ok) ==
    /\ proc[i].pc = "renamed"
    /\ IF ok THEN durable' = proc[i].temp /\ Leave(i, "done")
             ELSE Leave(i, "unsynced") /\ UNCHANGED durable
    /\ UNCHANGED <<config, backups, now, edits, crashes>>

----------------------------------------------------------------------------
(* The client, the clock and failures. *)

\* The client replaces its file durably, keeping the entries it finds.
ClientEdit ==
    /\ config.kind # "torn" /\ edits < MaxEdits /\ edits' = edits + 1
    /\ config' = File(Servers(config), edits + 1) /\ durable' = config'
    /\ UNCHANGED <<backups, lock, proc, now, crashes>>

Tick == now < MaxNow /\ now' = now + 1 /\ UNCHANGED <<config, durable, backups, lock, proc, edits, crashes>>

\* The kernel releases the lock of a process that dies.
Killed(S) ==
    /\ proc' = [i \in Installers |-> IF i \in S /\ proc[i].pc \in Running
                                        THEN [proc[i] EXCEPT !.pc = "killed"] ELSE proc[i]]
    /\ lock' = IF lock \in S THEN Nobody ELSE lock

Kill(i) ==
    /\ proc[i].pc \in Running /\ crashes < MaxCrashes /\ crashes' = crashes + 1
    /\ Killed({i})
    /\ UNCHANGED <<config, durable, backups, now, edits>>

\* A rename that was not synced may or may not have reached the disk, with
\* what had of the file renamed.
RenamedTemp == {proc[i].temp : i \in {j \in Installers : proc[j].pc = "renamed"}}

PowerLoss ==
    /\ crashes < MaxCrashes /\ crashes' = crashes + 1
    /\ config' \in {durable} \cup (IF RenamedTemp = {} THEN {config} ELSE RenamedTemp)
    /\ durable' = config'
    /\ \E lost \in SUBSET {s \in Seconds : ~backups[s].durable} :
          backups' = [s \in Seconds |-> IF s \in lost THEN NoBackup ELSE backups[s]]
    /\ Killed(Installers)
    /\ UNCHANGED <<now, edits>>

Step(i) ==
    \/ MakePlan(i) \/ Acquire(i) \/ Begin(i) \/ Check(i) \/ Verify(i)
    \/ \E ok \in BOOLEAN : \/ WriteTemp(i, ok) \/ Backup(i, ok) \/ SyncBackup(i, ok)
                           \/ Rename(i, ok) \/ SyncConfig(i, ok)

Next ==
    \/ \E i \in Installers : Step(i) \/ Kill(i)
    \/ ClientEdit
    \/ Tick
    \/ PowerLoss

Spec == Init /\ [][Next]_vars

----------------------------------------------------------------------------
(* Properties. *)

\* Names an installer was asked to remove, and may have.
Removed == {proc[i].work.name : i \in {j \in Installers : proc[j].work.kind = "uninstall"}}

\* Installers do not undo each other: once Apply has succeeded, the entry is
\* in the file whatever other installers did in between, killed ones and a
\* power loss included, unless one of them was asked to remove it.
NoLostInstall ==
    \A i \in Installers :
        proc[i].work.kind = "install" /\ proc[i].pc = "done" /\ proc[i].work.name \notin Removed
            => proc[i].work.name \in Servers(config) /\ proc[i].work.name \in Servers(durable)

\* The client always finds a whole configuration, whenever power is lost: the
\* one that was there or the one that was planned.
ConfigIntact == config # Torn /\ durable # Torn

\* The file an installer has replaced can be restored: from the moment the new
\* one is in place its backup, which no later installer overwrites, is durable.
ReplacedIsBackedUp ==
    \A i \in Installers :
        proc[i].pc \in {"renamed", "unsynced", "done"} /\ proc[i].before # Absent
            => backups[proc[i].backup] = [content |-> proc[i].before, durable |-> TRUE]
=============================================================================
