-------------------------- MODULE InstallerProofs --------------------------
(***************************************************************************)
(* TLAPS proofs about Installer, for any installers, any work and any      *)
(* number of edits, seconds, kills and power losses.                       *)
(*                                                                         *)
(* The lock is what the argument rests on: only its holder is between      *)
(* acquireApplyLock and the end of Apply, so from the last check to the    *)
(* rename nobody but the client changes the file, and the client keeps the *)
(* entries.  The exclusive creation of a backup makes its name the         *)
(* property of one installer.                                              *)
(***************************************************************************)
EXTENDS Installer, TLAPS

ServerNames == {w.name : w \in Work}

\* What a configuration file may hold; a torn one is none of it.
Contents == {Absent} \cup [kind : {"file"}, servers : SUBSET ServerNames, settings : Nat]

Labels == Running \cup {"start", "planned", "failed", "same", "unsynced", "done", "killed"}

Procs == [work : Work, pc : Labels, before : Contents, after : Contents, backup : Seconds,
          temp : Contents]

TypeOK ==
    /\ config \in Contents
    /\ durable \in Contents
    /\ backups \in [Seconds -> [content : Contents \cup {Torn}, durable : BOOLEAN]]
    /\ lock \in Installers \cup {Nobody}
    /\ proc \in [Installers -> Procs]
    /\ now \in Seconds
    /\ edits \in Nat
    /\ crashes \in Nat

\* The lock is held by the one installer that is inside Apply.
Exclusive == \A i \in Installers : proc[i].pc \in Running <=> lock = i

\* What is going to replace the file is the plan made from what was read.
PlanKept ==
    \A i \in Installers : proc[i].pc \in Running \cup {"planned"}
        => proc[i].after = Planned(proc[i].before, proc[i].work)

\* The temporary file is whole from its sync to the end.
TempReady ==
    \A i \in Installers :
        proc[i].pc \in {"synced", "checked", "backedUp", "dirSynced", "verified", "renamed"}
            => proc[i].temp = proc[i].after

\* Around the rename the file has the entries the plan was made from, then the
\* planned ones, whatever the client does to its settings.
EntriesKnown ==
    \A i \in Installers :
        /\ proc[i].pc = "verified" => Servers(config) = Servers(proc[i].before)
        /\ proc[i].pc = "renamed" => Servers(config) = Servers(proc[i].after)

Secured == {"dirSynced", "verified", "renamed", "unsynced", "done"}
HasBackup(i) == proc[i].before # Absent /\ proc[i].pc \in Secured \cup {"backedUp"}

\* An installer's backup holds what was there, durably from its sync on; only
\* a file that was there is backed up.
BackupHeld ==
    \A i \in Installers :
        /\ proc[i].pc = "backedUp" => proc[i].before # Absent
        /\ HasBackup(i) => backups[proc[i].backup] = [content |-> proc[i].before,
                                                      durable |-> proc[i].pc # "backedUp"]

\* No two installers have the same backup.
BackupOwned ==
    \A i, j \in Installers :
        i # j /\ HasBackup(i) /\ HasBackup(j) => proc[i].backup # proc[j].backup

IInv ==
    /\ TypeOK
    /\ Exclusive
    /\ PlanKept
    /\ TempReady
    /\ EntriesKnown
    /\ BackupHeld
    /\ BackupOwned
    /\ NoLostInstall

----------------------------------------------------------------------------
\* What a configuration is made of.
LEMMA Shapes ==
    /\ Absent \in Contents /\ Torn \notin Contents
    /\ \A c \in Contents : Servers(c) \in SUBSET ServerNames /\ Settings(c) \in Nat
    /\ \A S \in SUBSET ServerNames, n \in Nat : File(S, n) \in Contents /\ Servers(File(S, n)) = S
    /\ \A c \in Contents, w \in Work : Planned(c, w) \in Contents
  <1>1. Absent \in Contents /\ Torn \notin Contents
    BY DEF Absent, Torn, Contents
  <1>2. \A c \in Contents : Servers(c) \in SUBSET ServerNames /\ Settings(c) \in Nat
    BY DEF Absent, Contents, Servers, Settings
  <1>3. \A S \in SUBSET ServerNames, n \in Nat : File(S, n) \in Contents /\ Servers(File(S, n)) = S
    BY DEF File, Contents, Servers
  <1>4. ASSUME NEW c \in Contents, NEW w \in Work PROVE Planned(c, w) \in Contents
    <2>1. (IF w.kind = "install" THEN Servers(c) \cup {w.name} ELSE Servers(c) \ {w.name})
             \in SUBSET ServerNames
      BY <1>2 DEF ServerNames
    <2> QED BY <1>2, <1>3, <2>1 DEF Planned
  <1> QED BY <1>1, <1>2, <1>3, <1>4

\* The entries of a plan.
LEMMA PlannedEntries ==
    \A c \in Contents, w \in Work :
        Servers(Planned(c, w)) = IF w.kind = "install" THEN Servers(c) \cup {w.name}
                                                       ELSE Servers(c) \ {w.name}
  <1> SUFFICES ASSUME NEW c \in Contents, NEW w \in Work
               PROVE  Servers(Planned(c, w)) = IF w.kind = "install" THEN Servers(c) \cup {w.name}
                                                       ELSE Servers(c) \ {w.name}
    OBVIOUS
  <1>1. (IF w.kind = "install" THEN Servers(c) \cup {w.name} ELSE Servers(c) \ {w.name})
           \in SUBSET ServerNames
    BY Shapes DEF ServerNames
  <1> QED BY <1>1, Shapes DEF Planned

----------------------------------------------------------------------------
(* Types. *)

\* A step of an installer is a step of nobody else, and leaves its plan alone.
Goes(i, l) ==
    /\ \A j \in Installers \ {i} : proc'[j] = proc[j]
    /\ proc'[i].work = proc[i].work /\ proc'[i].before = proc[i].before
    /\ proc'[i].after = proc[i].after /\ proc'[i].backup = proc[i].backup
    /\ proc'[i].pc = l

LEMMA ToGoes ==
    ASSUME TypeOK, NEW i \in Installers, NEW l \in Labels, To(i, l)
    PROVE  Goes(i, l) /\ proc'[i].temp = proc[i].temp /\ proc' \in [Installers -> Procs]
  <1>1. proc[i] \in Procs
    BY DEF TypeOK
  <1>2. [proc[i] EXCEPT !.pc = l] \in Procs
    BY <1>1 DEF Procs
  <1>3. proc' = [proc EXCEPT ![i] = [proc[i] EXCEPT !.pc = l]]
    BY DEF To, TypeOK
  <1>4. proc' \in [Installers -> Procs]
    BY <1>2, <1>3 DEF TypeOK
  <1>5. proc'[i] = [proc[i] EXCEPT !.pc = l] /\ \A j \in Installers \ {i} : proc'[j] = proc[j]
    BY <1>3 DEF TypeOK
  <1> QED BY <1>1, <1>4, <1>5 DEF Goes, Procs

LEMMA LeaveGoes ==
    ASSUME TypeOK, NEW i \in Installers, NEW l \in Labels, Leave(i, l)
    PROVE  /\ Goes(i, l) /\ proc'[i].temp = Absent /\ proc' \in [Installers -> Procs]
           /\ lock' \in Installers \cup {Nobody}
  <1>1. proc[i] \in Procs
    BY DEF TypeOK
  <1>2. [proc[i] EXCEPT !.pc = l, !.temp = Absent] \in Procs
    BY <1>1, Shapes DEF Procs
  <1>3. proc' = [proc EXCEPT ![i] = [proc[i] EXCEPT !.pc = l, !.temp = Absent]]
    BY DEF Leave, TypeOK
  <1>4. proc' \in [Installers -> Procs]
    BY <1>2, <1>3 DEF TypeOK
  <1>5. /\ proc'[i] = [proc[i] EXCEPT !.pc = l, !.temp = Absent]
        /\ \A j \in Installers \ {i} : proc'[j] = proc[j]
    BY <1>3 DEF TypeOK
  <1>6. lock' \in Installers \cup {Nobody}
    BY DEF Leave, TypeOK
  <1> QED BY <1>1, <1>4, <1>5, <1>6 DEF Goes, Procs

\* The kernel's part in the end of a process.
LEMMA KilledGoes ==
    ASSUME TypeOK, NEW S \in SUBSET Installers, Killed(S)
    PROVE  /\ proc' \in [Installers -> Procs] /\ lock' \in Installers \cup {Nobody}
           /\ \A i \in Installers :
                 /\ proc'[i].work = proc[i].work /\ proc'[i].before = proc[i].before
                 /\ proc'[i].after = proc[i].after /\ proc'[i].backup = proc[i].backup
                 /\ proc'[i].temp = proc[i].temp
                 /\ proc'[i].pc = IF i \in S /\ proc[i].pc \in Running THEN "killed" ELSE proc[i].pc
  <1>1. ASSUME NEW i \in Installers
        PROVE  /\ proc[i] \in Procs
               /\ [proc[i] EXCEPT !.pc = "killed"] \in Procs
               /\ proc'[i] = IF i \in S /\ proc[i].pc \in Running
                                THEN [proc[i] EXCEPT !.pc = "killed"] ELSE proc[i]
    BY DEF TypeOK, Procs, Labels, Killed
  <1>2. proc' \in [Installers -> Procs]
    BY <1>1 DEF Killed
  <1>3. lock' \in Installers \cup {Nobody}
    BY DEF Killed, TypeOK
  <1>4. ASSUME NEW i \in Installers
        PROVE  /\ proc'[i].work = proc[i].work /\ proc'[i].before = proc[i].before
               /\ proc'[i].after = proc[i].after /\ proc'[i].backup = proc[i].backup
               /\ proc'[i].temp = proc[i].temp
               /\ proc'[i].pc = IF i \in S /\ proc[i].pc \in Running THEN "killed" ELSE proc[i].pc
    BY <1>1 DEF Procs
  <1> QED BY <1>2, <1>3, <1>4

\* What a backup may be.
Copies == [content : Contents \cup {Torn}, durable : BOOLEAN]

LEMMA CopyTypes ==
    ASSUME TypeOK
    PROVE  /\ NoBackup \in Copies
           /\ \A i \in Installers : /\ [content |-> proc[i].before, durable |-> FALSE] \in Copies
                                    /\ [backups[proc[i].backup] EXCEPT !.durable = TRUE] \in Copies
           /\ [content |-> Torn, durable |-> FALSE] \in Copies
  <1>1. \A i \in Installers : proc[i].before \in Contents /\ backups[proc[i].backup] \in Copies
    BY DEF TypeOK, Procs, Copies
  <1> QED BY <1>1, Shapes DEF Copies, NoBackup

\* Every step preserves the types of the variables.
LEMMA TypePreserved == TypeOK /\ [Next]_vars => TypeOK'
  <1> SUFFICES ASSUME TypeOK, [Next]_vars PROVE TypeOK'
    OBVIOUS
  <1>1. \A i \in Installers : proc[i] \in Procs /\ proc[i].temp \in Contents /\ proc[i].work \in Work
                              /\ proc[i].after \in Contents /\ proc[i].backup \in Seconds
    BY DEF TypeOK, Procs
  <1>2. \A l \in Running : l \in Labels
    BY DEF Labels
  <1>3. backups \in [Seconds -> Copies]
    BY DEF TypeOK, Copies
  <1>4. ASSUME NEW i \in Installers, MakePlan(i) PROVE TypeOK'
    <2>1. [proc[i] EXCEPT !.pc = "failed"] \in Procs
      BY <1>1 DEF Procs, Labels
    <2>2. [proc[i] EXCEPT !.pc = "planned", !.before = config,
                          !.after = Planned(config, proc[i].work), !.backup = now] \in Procs
      <3>1. Planned(config, proc[i].work) \in Contents
        BY <1>1, Shapes DEF TypeOK
      <3> QED BY <1>1, <3>1 DEF TypeOK, Procs, Labels
    <2>3. proc' \in [Installers -> Procs]
      BY <1>4, <2>1, <2>2 DEF MakePlan, TypeOK
    <2> QED BY <1>4, <2>3 DEF MakePlan, TypeOK
  <1>5. ASSUME NEW i \in Installers, Acquire(i) PROVE TypeOK'
    <2>1. proc' \in [Installers -> Procs]
      BY <1>5, <1>2, ToGoes DEF Acquire, Running, Labels
    <2> QED BY <1>5, <2>1 DEF Acquire, TypeOK
  <1>6. ASSUME NEW i \in Installers, Begin(i) PROVE TypeOK'
    <2>1. /\ proc' \in [Installers -> Procs] /\ lock' \in Installers \cup {Nobody}
      <3>1. Leave(i, "failed") \/ Leave(i, "same") \/ (To(i, "temp") /\ UNCHANGED lock)
        BY <1>6 DEF Begin
      <3> QED BY <3>1, ToGoes, LeaveGoes DEF Labels, Running, TypeOK
    <2> QED BY <1>6, <2>1 DEF Begin, TypeOK
  <1>7. ASSUME NEW i \in Installers, NEW ok \in BOOLEAN, WriteTemp(i, ok) PROVE TypeOK'
    <2>1. /\ proc' \in [Installers -> Procs] /\ lock' \in Installers \cup {Nobody}
      <3>1. CASE Leave(i, "failed")
        BY <3>1, LeaveGoes DEF Labels
      <3>2. CASE ok
        <4>1. [proc[i] EXCEPT !.pc = "synced", !.temp = proc[i].after] \in Procs
          BY <1>1 DEF Procs, Labels, Running
        <4>2. proc' = [proc EXCEPT ![i] = [proc[i] EXCEPT !.pc = "synced", !.temp = proc[i].after]]
          BY <1>7, <3>2 DEF WriteTemp, Synced, TypeOK
        <4> QED BY <1>7, <3>2, <4>1, <4>2 DEF WriteTemp, TypeOK
      <3> QED BY <1>7, <3>1, <3>2 DEF WriteTemp
    <2> QED BY <1>7, <2>1 DEF WriteTemp, TypeOK
  <1>8. ASSUME NEW i \in Installers, Check(i) PROVE TypeOK'
    <2>1. Leave(i, "failed") \/ (To(i, "checked") /\ UNCHANGED lock)
      BY <1>8 DEF Check
    <2>2. /\ proc' \in [Installers -> Procs] /\ lock' \in Installers \cup {Nobody}
      BY <2>1, ToGoes, LeaveGoes DEF Labels, Running, TypeOK
    <2> QED BY <1>8, <2>2 DEF Check, TypeOK
  <1>9. ASSUME NEW i \in Installers, NEW ok \in BOOLEAN, Backup(i, ok) PROVE TypeOK'
    <2>1. Leave(i, "failed") \/ (To(i, "dirSynced") /\ UNCHANGED lock) \/ (To(i, "backedUp") /\ UNCHANGED lock)
      BY <1>9 DEF Backup
    <2>2. /\ proc' \in [Installers -> Procs] /\ lock' \in Installers \cup {Nobody}
      BY <2>1, ToGoes, LeaveGoes DEF Labels, Running, TypeOK
    <2>3. backups' \in [Seconds -> Copies]
      BY <1>9, <1>1, <1>3, CopyTypes DEF Backup
    <2> QED BY <1>9, <2>2, <2>3 DEF Backup, TypeOK, Copies
  <1>10. ASSUME NEW i \in Installers, NEW ok \in BOOLEAN, SyncBackup(i, ok) PROVE TypeOK'
    <2>1. Leave(i, "failed") \/ (To(i, "dirSynced") /\ UNCHANGED lock)
      BY <1>10 DEF SyncBackup
    <2>2. /\ proc' \in [Installers -> Procs] /\ lock' \in Installers \cup {Nobody}
      BY <2>1, ToGoes, LeaveGoes DEF Labels, Running, TypeOK
    <2>3. backups' \in [Seconds -> Copies]
      <3>1. \/ UNCHANGED backups
            \/ backups' = [backups EXCEPT ![proc[i].backup] = [backups[proc[i].backup] EXCEPT !.durable = TRUE]]
        BY <1>10, <1>1, <1>3 DEF SyncBackup
      <3> QED BY <3>1, <1>1, <1>3, CopyTypes
    <2> QED BY <1>10, <2>2, <2>3 DEF SyncBackup, TypeOK, Copies
  <1>11. ASSUME NEW i \in Installers, Verify(i) PROVE TypeOK'
    <2>1. Leave(i, "failed") \/ (To(i, "verified") /\ UNCHANGED lock)
      BY <1>11 DEF Verify
    <2>2. /\ proc' \in [Installers -> Procs] /\ lock' \in Installers \cup {Nobody}
      BY <2>1, ToGoes, LeaveGoes DEF Labels, Running, TypeOK
    <2>3. backups' \in [Seconds -> Copies]
      BY <1>11, <1>1, <1>3, CopyTypes DEF Verify
    <2> QED BY <1>11, <2>2, <2>3 DEF Verify, TypeOK, Copies
  <1>12. ASSUME NEW i \in Installers, NEW ok \in BOOLEAN, Rename(i, ok) PROVE TypeOK'
    <2>1. Leave(i, "failed") \/ (To(i, "renamed") /\ UNCHANGED lock)
      BY <1>12 DEF Rename
    <2>2. /\ proc' \in [Installers -> Procs] /\ lock' \in Installers \cup {Nobody}
      BY <2>1, ToGoes, LeaveGoes DEF Labels, Running, TypeOK
    <2>3. config' \in Contents
      BY <1>12, <1>1 DEF Rename, TypeOK
    <2> QED BY <1>12, <2>2, <2>3 DEF Rename, TypeOK
  <1>13. ASSUME NEW i \in Installers, NEW ok \in BOOLEAN, SyncConfig(i, ok) PROVE TypeOK'
    <2>1. Leave(i, "done") \/ Leave(i, "unsynced")
      BY <1>13 DEF SyncConfig
    <2>2. /\ proc' \in [Installers -> Procs] /\ lock' \in Installers \cup {Nobody}
      BY <2>1, LeaveGoes DEF Labels
    <2>3. durable' \in Contents
      BY <1>13, <1>1 DEF SyncConfig, TypeOK
    <2> QED BY <1>13, <2>2, <2>3 DEF SyncConfig, TypeOK
  <1>14. ASSUME NEW i \in Installers, Kill(i) PROVE TypeOK'
    <2>1. /\ proc' \in [Installers -> Procs] /\ lock' \in Installers \cup {Nobody}
      BY <1>14, KilledGoes DEF Kill
    <2> QED BY <1>14, <2>1 DEF Kill, TypeOK
  <1>15. CASE ClientEdit
    <2>1. File(Servers(config), edits + 1) \in Contents
      BY Shapes DEF TypeOK
    <2> QED BY <1>15, <2>1 DEF ClientEdit, TypeOK
  <1>16. CASE Tick
    BY <1>16, InstallerAssumption DEF Tick, TypeOK, Seconds
  <1>17. CASE PowerLoss
    <2>1. /\ proc' \in [Installers -> Procs] /\ lock' \in Installers \cup {Nobody}
      BY <1>17, KilledGoes DEF PowerLoss
    <2>2. config' \in Contents
      <3>1. RenamedTemp \subseteq Contents
        BY <1>1 DEF RenamedTemp
      <3> QED BY <1>17, <3>1 DEF PowerLoss, TypeOK
    <2>3. backups' \in [Seconds -> Copies]
      BY <1>17, <1>3, CopyTypes DEF PowerLoss
    <2> QED BY <1>17, <2>1, <2>2, <2>3 DEF PowerLoss, TypeOK, Copies
  <1>18. CASE UNCHANGED vars
    BY <1>18 DEF vars, TypeOK
  <1> QED
    BY <1>4, <1>5, <1>6, <1>7, <1>8, <1>9, <1>10, <1>11, <1>12, <1>13, <1>14, <1>15, <1>16,
       <1>17, <1>18 DEF Next, Step

----------------------------------------------------------------------------
(* The inductive invariant. *)

\* Nobody's work changes, so the names to be removed stay the same.
LEMMA RemovedStays ==
    ASSUME \A i \in Installers : proc'[i].work = proc[i].work
    PROVE  Removed' = Removed
  BY DEF Removed

\* A step that leaves the file alone, in memory and on the disk, and after which
\* no more installers are done, loses no entry.
LEMMA NothingLost ==
    ASSUME NoLostInstall,
           \A i \in Installers : proc'[i].work = proc[i].work,
           \A i \in Installers : proc'[i].pc = "done" => proc[i].pc = "done",
           Servers(config)' = Servers(config), Servers(durable)' = Servers(durable)
    PROVE  NoLostInstall'
  BY RemovedStays DEF NoLostInstall

\* A backup that nobody else's step touches is still there.
OthersKept(i) ==
    \A j \in Installers \ {i} : HasBackup(j) => backups'[proc[j].backup] = backups[proc[j].backup]

\* Leaving Apply without having replaced the file.
LEMMA LeavePreserves ==
    ASSUME IInv, TypeOK', NEW i \in Installers, proc[i].pc \in Running,
           Leave(i, "failed") \/ Leave(i, "same"),
           UNCHANGED <<config, durable>>, OthersKept(i)
    PROVE  IInv'
  <1>1. PICK l \in {"failed", "same"} : Goes(i, l)
    BY LeaveGoes DEF IInv, Labels
  <1>2. l \notin Running /\ l \notin Secured \cup {"backedUp", "planned", "done"}
    BY DEF Running, Secured
  <1>3. lock = i /\ lock' = Nobody
    BY DEF IInv, Exclusive, Leave
  <1>4. Exclusive'
    BY <1>1, <1>2, <1>3, InstallerAssumption DEF IInv, Exclusive, Goes
  <1>5. PlanKept'
    BY <1>1, <1>2 DEF IInv, PlanKept, Goes
  <1>6. TempReady'
    BY <1>1, <1>2 DEF IInv, TempReady, Goes
  <1>7. EntriesKnown'
    BY <1>1, <1>2 DEF IInv, EntriesKnown, Goes
  <1>8. ~HasBackup(i)' /\ \A j \in Installers \ {i} : HasBackup(j)' = HasBackup(j)
    BY <1>1, <1>2 DEF HasBackup, Goes
  <1>9. BackupHeld'
    BY <1>1, <1>8 DEF IInv, BackupHeld, OthersKept, Goes
  <1>10. BackupOwned'
    BY <1>1, <1>8 DEF IInv, BackupOwned, Goes
  <1>11. NoLostInstall'
    BY <1>1, <1>2, NothingLost DEF IInv, Goes
  <1> QED BY <1>4, <1>5, <1>6, <1>7, <1>9, <1>10, <1>11 DEF IInv

WithTemp == {"synced", "checked", "backedUp", "dirSynced", "verified", "renamed"}

\* Going on inside Apply, short of the rename.
LEMMA ToPreserves ==
    ASSUME IInv, TypeOK', NEW i \in Installers, NEW l \in Running \ {"renamed"}, Goes(i, l),
           proc[i].pc \in Running, UNCHANGED <<config, durable, lock>>, OthersKept(i),
           l \in WithTemp => proc'[i].temp = proc[i].after,
           l = "backedUp" => proc[i].before # Absent,
           l = "verified" => Servers(config) = Servers(proc[i].before),
           HasBackup(i)' =>
               /\ backups'[proc[i].backup] = [content |-> proc[i].before, durable |-> l # "backedUp"]
               /\ \A j \in Installers \ {i} : HasBackup(j) => proc[j].backup # proc[i].backup
    PROVE  IInv'
  <1>1. Exclusive'
    BY DEF IInv, Exclusive, Goes
  <1>2. PlanKept'
    BY DEF IInv, PlanKept, Goes
  <1>3. TempReady'
    BY DEF IInv, TempReady, Goes, WithTemp
  <1>4. EntriesKnown'
    BY DEF IInv, EntriesKnown, Goes
  <1>5. \A j \in Installers \ {i} : HasBackup(j)' = HasBackup(j)
    BY DEF HasBackup, Goes
  <1>6. BackupHeld'
    BY <1>5 DEF IInv, BackupHeld, OthersKept, Goes
  <1>7. BackupOwned'
    BY <1>5 DEF IInv, BackupOwned, Goes
  <1>8. NoLostInstall'
    BY NothingLost DEF IInv, Goes, Running
  <1> QED BY <1>1, <1>2, <1>3, <1>4, <1>6, <1>7, <1>8 DEF IInv

\* Every step preserves the inductive invariant.
LEMMA StepPreserves == IInv /\ [Next]_vars => IInv'
  <1> SUFFICES ASSUME IInv, [Next]_vars PROVE IInv'
    OBVIOUS
  <1>0. TypeOK /\ TypeOK'
    BY TypePreserved DEF IInv
  <1>a. \A i \in Installers : /\ proc[i] \in Procs /\ proc[i].work \in Work /\ proc[i].before \in Contents
                              /\ proc[i].after \in Contents /\ proc[i].backup \in Seconds
    BY <1>0 DEF TypeOK, Procs
  <1>b. \A i, j \in Installers : i # j => ~(proc[i].pc \in Running /\ proc[j].pc \in Running)
    BY DEF IInv, Exclusive
  <1>c. backups \in [Seconds -> Copies]
    BY <1>0 DEF TypeOK, Copies
  <1>1. ASSUME NEW i \in Installers, MakePlan(i) PROVE IInv'
    <2>1. /\ \A j \in Installers \ {i} : proc'[j] = proc[j]
          /\ proc'[i].work = proc[i].work
          /\ \/ proc'[i].pc = "failed"
             \/ proc'[i].pc = "planned" /\ proc'[i].after = Planned(proc'[i].before, proc'[i].work)
      BY <1>0, <1>1, <1>a DEF MakePlan, TypeOK, Procs
    <2>2. proc[i].pc = "start" /\ UNCHANGED <<config, durable, backups, lock>>
      BY <1>1 DEF MakePlan
    <2>3. Exclusive'
      BY <2>1, <2>2 DEF IInv, Exclusive, Running
    <2>4. PlanKept' /\ TempReady' /\ EntriesKnown'
      BY <2>1, <2>2 DEF IInv, PlanKept, TempReady, EntriesKnown, Running
    <2>5. ~HasBackup(i)' /\ \A j \in Installers \ {i} : HasBackup(j)' = HasBackup(j)
      BY <2>1 DEF HasBackup, Secured
    <2>6. BackupHeld' /\ BackupOwned'
      BY <2>1, <2>2, <2>5 DEF IInv, BackupHeld, BackupOwned
    <2>7. NoLostInstall'
      BY <2>1, <2>2, NothingLost DEF IInv
    <2> QED BY <1>0, <2>3, <2>4, <2>6, <2>7 DEF IInv
  <1>2. ASSUME NEW i \in Installers, Acquire(i) PROVE IInv'
    <2>1. PICK l \in {"locked", "failed"} :
             Goes(i, l) /\ (IF l = "locked" THEN lock = Nobody /\ lock' = i ELSE lock' = lock)
      BY <1>0, <1>2, ToGoes DEF Acquire, Excluded, Labels, Running
    <2>2. proc[i].pc = "planned" /\ UNCHANGED <<config, durable, backups>>
      BY <1>2 DEF Acquire
    <2>3. Exclusive'
      BY <2>1, <2>2, InstallerAssumption DEF IInv, Exclusive, Running, Goes
    <2>4. PlanKept' /\ TempReady' /\ EntriesKnown'
      BY <2>1, <2>2 DEF IInv, PlanKept, TempReady, EntriesKnown, Running, Goes
    <2>5. ~HasBackup(i)' /\ \A j \in Installers \ {i} : HasBackup(j)' = HasBackup(j)
      BY <2>1 DEF HasBackup, Secured, Goes
    <2>6. BackupHeld' /\ BackupOwned'
      BY <2>1, <2>2, <2>5 DEF IInv, BackupHeld, BackupOwned, Goes
    <2>7. NoLostInstall'
      BY <2>1, <2>2, NothingLost DEF IInv, Goes
    <2> QED BY <1>0, <2>3, <2>4, <2>6, <2>7 DEF IInv
  <1>3. ASSUME NEW i \in Installers, Begin(i) PROVE IInv'
    <2>1. proc[i].pc \in Running /\ UNCHANGED <<config, durable, backups>> /\ OthersKept(i)
      BY <1>3 DEF Begin, Running, OthersKept
    <2>2. CASE Leave(i, "failed") \/ Leave(i, "same")
      BY <1>0, <2>1, <2>2, LeavePreserves
    <2>3. CASE To(i, "temp") /\ UNCHANGED lock
      <3>1. Goes(i, "temp") /\ ~HasBackup(i)'
        BY <1>0, <2>3, ToGoes DEF HasBackup, Secured, Goes, Labels, Running
      <3> QED BY <1>0, <2>1, <2>3, <3>1, ToPreserves DEF Running, WithTemp
    <2> QED BY <1>3, <2>2, <2>3 DEF Begin
  <1>4. ASSUME NEW i \in Installers, NEW ok \in BOOLEAN, WriteTemp(i, ok) PROVE IInv'
    <2>1. proc[i].pc \in Running /\ UNCHANGED <<config, durable, backups>> /\ OthersKept(i)
      BY <1>4 DEF WriteTemp, Running, OthersKept
    <2>2. CASE Leave(i, "failed")
      BY <1>0, <2>1, <2>2, LeavePreserves
    <2>3. CASE proc' = [proc EXCEPT ![i].pc = "synced", ![i].temp = proc[i].after] /\ UNCHANGED lock
      <3>1. Goes(i, "synced") /\ proc'[i].temp = proc[i].after
        BY <1>0, <1>a, <2>3 DEF Goes, TypeOK, Procs
      <3>2. ~HasBackup(i)'
        BY <3>1 DEF HasBackup, Secured, Goes
      <3> QED BY <1>0, <2>1, <2>3, <3>1, <3>2, ToPreserves DEF Running, WithTemp
    <2> QED BY <1>4, <2>2, <2>3 DEF WriteTemp, Synced
  <1>5. ASSUME NEW i \in Installers, Check(i) PROVE IInv'
    <2>1. /\ proc[i].pc = "synced" /\ proc[i].pc \in Running
          /\ UNCHANGED <<config, durable, backups>> /\ OthersKept(i)
      BY <1>5 DEF Check, Running, OthersKept
    <2>2. CASE Leave(i, "failed")
      BY <1>0, <2>1, <2>2, LeavePreserves
    <2>3. CASE To(i, "checked") /\ UNCHANGED lock
      <3>1. Goes(i, "checked") /\ proc'[i].temp = proc[i].temp
        BY <1>0, <2>3, ToGoes DEF Labels, Running
      <3>2. ~HasBackup(i)' /\ proc[i].temp = proc[i].after
        BY <2>1, <3>1 DEF HasBackup, Secured, Goes, IInv, TempReady
      <3> QED BY <1>0, <2>1, <2>3, <3>1, <3>2, ToPreserves DEF Running
    <2> QED BY <1>5, <2>2, <2>3 DEF Check
  <1>6. ASSUME NEW i \in Installers, NEW ok \in BOOLEAN, Backup(i, ok) PROVE IInv'
    <2> DEFINE s == proc[i].backup
    <2>1. /\ proc[i].pc = "checked" /\ proc[i].pc \in Running
          /\ UNCHANGED <<config, durable>> /\ proc[i].temp = proc[i].after
      BY <1>6 DEF Backup, Running, IInv, TempReady
    <2>2. CASE proc[i].before = Absent /\ To(i, "dirSynced") /\ UNCHANGED <<lock, backups>>
      <3>1. Goes(i, "dirSynced") /\ proc'[i].temp = proc[i].temp
        BY <1>0, <2>2, ToGoes DEF Labels, Running
      <3>2. ~HasBackup(i)'
        BY <2>2, <3>1 DEF HasBackup, Goes
      <3> QED BY <1>0, <2>1, <2>2, <3>1, <3>2, ToPreserves DEF Running, OthersKept
    <2>3. CASE Leave(i, "failed") /\ UNCHANGED backups
      BY <1>0, <2>1, <2>3, LeavePreserves DEF OthersKept
    \* The name is new: nobody's backup has it.
    <2>4. ASSUME NameIsNew(s), NEW j \in Installers, HasBackup(j) PROVE proc[j].backup # s
      <3>1. backups[proc[j].backup].content # Absent
        <4>1. proc[j].before # Absent
          BY <2>4 DEF HasBackup
        <4>2. backups[proc[j].backup] = [content |-> proc[j].before, durable |-> proc[j].pc # "backedUp"]
          BY <2>4 DEF IInv, BackupHeld
        <4> QED BY <4>1, <4>2
      <3>2. NameIsNew(proc[j].backup) => backups[proc[j].backup].content = Absent
        BY DEF NameIsNew, NoBackup
      <3> QED BY <2>4, <3>1, <3>2
    <2>5. CASE /\ NameIsNew(s) /\ proc[i].before # Absent
               /\ backups' = [backups EXCEPT ![s] = [content |-> proc[i].before, durable |-> FALSE]]
               /\ To(i, "backedUp") /\ UNCHANGED lock
      <3>1. Goes(i, "backedUp") /\ proc'[i].temp = proc[i].temp
        BY <1>0, <2>5, ToGoes DEF Labels, Running
      <3>2. OthersKept(i)
        BY <1>a, <1>c, <2>4, <2>5 DEF OthersKept
      <3>3. /\ backups'[s] = [content |-> proc[i].before, durable |-> "backedUp" # "backedUp"]
            /\ \A j \in Installers \ {i} : HasBackup(j) => proc[j].backup # s
        BY <1>a, <1>c, <2>4, <2>5
      <3> QED BY <1>0, <2>1, <2>5, <3>1, <3>2, <3>3, ToPreserves DEF Running
    <2>6. CASE /\ NameIsNew(s)
               /\ backups' = [backups EXCEPT ![s] = [content |-> Torn, durable |-> FALSE]]
               /\ Leave(i, "failed")
      <3>1. OthersKept(i)
        BY <1>a, <1>c, <2>4, <2>6 DEF OthersKept
      <3> QED BY <1>0, <2>1, <2>6, <3>1, LeavePreserves
    <2> QED BY <1>6, <2>2, <2>3, <2>5, <2>6 DEF Backup
  <1>7. ASSUME NEW i \in Installers, NEW ok \in BOOLEAN, SyncBackup(i, ok) PROVE IInv'
    <2>1. /\ proc[i].pc = "backedUp" /\ proc[i].pc \in Running
          /\ UNCHANGED <<config, durable>> /\ proc[i].temp = proc[i].after
      BY <1>7 DEF SyncBackup, Running, IInv, TempReady
    <2>2. CASE Leave(i, "failed") /\ UNCHANGED backups
      BY <1>0, <2>1, <2>2, LeavePreserves DEF OthersKept
    <2>3. CASE /\ backups' = [backups EXCEPT ![proc[i].backup].durable = TRUE]
               /\ To(i, "dirSynced") /\ UNCHANGED lock
      <3>1. Goes(i, "dirSynced") /\ proc'[i].temp = proc[i].temp
        BY <1>0, <2>3, ToGoes DEF Labels, Running
      <3>2. proc[i].before # Absent
        BY <2>1 DEF IInv, BackupHeld
      <3>3. HasBackup(i)
        BY <2>1, <3>2 DEF HasBackup
      <3>4. \A j \in Installers \ {i} : HasBackup(j) => proc[j].backup # proc[i].backup
        BY <3>3 DEF IInv, BackupOwned
      <3>5. OthersKept(i)
        BY <1>a, <1>c, <2>3, <3>4 DEF OthersKept
      <3>6. backups'[proc[i].backup] = [content |-> proc[i].before, durable |-> TRUE]
        <4>1. backups[proc[i].backup] = [content |-> proc[i].before, durable |-> FALSE]
          BY <2>1, <3>3 DEF IInv, BackupHeld
        <4>2. backups'[proc[i].backup] = [backups[proc[i].backup] EXCEPT !.durable = TRUE]
          BY <1>a, <1>c, <2>3
        <4>3. backups'[proc[i].backup]
                = [[content |-> proc[i].before, durable |-> FALSE] EXCEPT !.durable = TRUE]
          BY <4>1, <4>2, Zenon
        <4> QED BY <4>3
      <3> QED BY <1>0, <2>1, <2>3, <3>1, <3>4, <3>5, <3>6, ToPreserves DEF Running
    <2> QED BY <1>7, <2>2, <2>3 DEF SyncBackup
  <1>8. ASSUME NEW i \in Installers, Verify(i) PROVE IInv'
    <2>1. /\ proc[i].pc = "dirSynced" /\ proc[i].pc \in Running
          /\ UNCHANGED <<config, durable>> /\ proc[i].temp = proc[i].after
      BY <1>8 DEF Verify, Running, IInv, TempReady
    <2>2. proc[i].before # Absent =>
             /\ HasBackup(i) /\ backups[proc[i].backup] = [content |-> proc[i].before, durable |-> TRUE]
             /\ \A j \in Installers \ {i} : HasBackup(j) => proc[j].backup # proc[i].backup
      <3>1. proc[i].before # Absent => HasBackup(i)
        BY <2>1 DEF HasBackup, Secured
      <3> QED BY <2>1, <3>1 DEF IInv, BackupHeld, BackupOwned
    <2>3. CASE Unchanged(i) /\ To(i, "verified") /\ UNCHANGED <<lock, backups>>
      <3>1. Goes(i, "verified") /\ proc'[i].temp = proc[i].temp
        BY <1>0, <2>3, ToGoes DEF Labels, Running
      <3>2. OthersKept(i) /\ (HasBackup(i)' => proc[i].before # Absent)
        BY <2>3, <3>1 DEF OthersKept, HasBackup, Goes
      <3> QED BY <1>0, <2>1, <2>2, <2>3, <3>1, <3>2, ToPreserves DEF Running, Unchanged
    <2>4. CASE /\ Leave(i, "failed")
               /\ backups' = IF proc[i].before = Absent THEN backups
                             ELSE [backups EXCEPT ![proc[i].backup] = NoBackup]
      <3>1. OthersKept(i)
        BY <1>a, <1>c, <2>2, <2>4 DEF OthersKept
      <3> QED BY <1>0, <2>1, <2>4, <3>1, LeavePreserves
    <2> QED BY <1>8, <2>3, <2>4 DEF Verify
  <1>9. ASSUME NEW i \in Installers, NEW ok \in BOOLEAN, Rename(i, ok) PROVE IInv'
    <2>1. /\ proc[i].pc = "verified" /\ proc[i].pc \in Running /\ UNCHANGED <<durable, backups>>
      BY <1>9 DEF Rename, Running
    <2>2. CASE Leave(i, "failed") /\ UNCHANGED config
      BY <1>0, <2>1, <2>2, LeavePreserves DEF OthersKept
    <2>3. CASE config' = proc[i].after /\ To(i, "renamed") /\ UNCHANGED lock
      <3>1. Goes(i, "renamed") /\ proc'[i].temp = proc[i].temp
        BY <1>0, <2>3, ToGoes DEF Labels, Running
      <3>2. Exclusive'
        BY <2>1, <2>3, <3>1 DEF IInv, Exclusive, Goes, Running
      <3>3. PlanKept' /\ TempReady'
        BY <2>1, <3>1 DEF IInv, PlanKept, TempReady, Goes
      <3>4. EntriesKnown'
        BY <1>b, <2>1, <2>3, <3>1 DEF EntriesKnown, Goes, Running
      <3>5. \A j \in Installers : HasBackup(j)' = HasBackup(j)
        BY <2>1, <3>1 DEF HasBackup, Goes, Secured
      <3>6. BackupHeld' /\ BackupOwned'
        BY <2>1, <3>1, <3>5 DEF IInv, BackupHeld, BackupOwned, Goes
      <3>7. NoLostInstall'
        <4>1. Removed' = Removed
          BY <3>1, RemovedStays DEF Goes
        <4>2. Servers(config)' = Servers(Planned(proc[i].before, proc[i].work))
          BY <2>1, <2>3 DEF IInv, PlanKept
        <4>3. Servers(config) = Servers(proc[i].before)
          BY <2>1 DEF IInv, EntriesKnown
        <4>4. proc[i].work.kind # "install" => proc[i].work.name \in Removed
          BY <1>a, InstallerAssumption DEF Removed
        <4>5. \A n \in Servers(config) : n \notin Removed => n \in Servers(config)'
          BY <1>a, <4>2, <4>3, <4>4, PlannedEntries
        <4> QED BY <2>1, <3>1, <4>1, <4>5 DEF IInv, NoLostInstall, Goes
      <3> QED BY <1>0, <3>2, <3>3, <3>4, <3>6, <3>7 DEF IInv
    <2> QED BY <1>9, <2>2, <2>3 DEF Rename
  <1>10. ASSUME NEW i \in Installers, NEW ok \in BOOLEAN, SyncConfig(i, ok) PROVE IInv'
    <2>1. /\ proc[i].pc = "renamed" /\ proc[i].pc \in Running /\ UNCHANGED <<config, backups>>
      BY <1>10 DEF SyncConfig, Running
    <2>2. PICK l \in {"done", "unsynced"} :
             /\ Goes(i, l) /\ Leave(i, l)
             /\ IF l = "done" THEN durable' = proc[i].temp ELSE durable' = durable
      BY <1>0, <1>10, LeaveGoes DEF SyncConfig, Labels
    <2>3. lock = i /\ lock' = Nobody
      BY <2>1, <2>2 DEF IInv, Exclusive, Leave
    <2>4. Exclusive'
      BY <2>2, <2>3, InstallerAssumption DEF IInv, Exclusive, Goes, Running
    <2>5. PlanKept' /\ TempReady'
      BY <2>2 DEF IInv, PlanKept, TempReady, Goes, Running
    <2>6. EntriesKnown'
      BY <2>1, <2>2 DEF IInv, EntriesKnown, Goes
    <2>7. \A j \in Installers : HasBackup(j)' = HasBackup(j)
      BY <2>1, <2>2 DEF HasBackup, Goes, Secured
    <2>8. BackupHeld' /\ BackupOwned'
      BY <2>1, <2>2, <2>7 DEF IInv, BackupHeld, BackupOwned, Goes
    <2>9. NoLostInstall'
      <3>1. Removed' = Removed
        BY <2>2, RemovedStays DEF Goes
      <3>2. /\ proc[i].temp = Planned(proc[i].before, proc[i].work)
            /\ Servers(config) = Servers(proc[i].temp)
        BY <2>1 DEF IInv, PlanKept, TempReady, EntriesKnown, Running
      <3>3. proc[i].work.kind = "install" => proc[i].work.name \in Servers(config)
        BY <1>a, <3>2, PlannedEntries
      <3>4. l = "done" => Servers(durable)' = Servers(config)
        BY <2>2, <3>2
      <3> QED BY <2>1, <2>2, <3>1, <3>3, <3>4 DEF IInv, NoLostInstall, Goes
    <2> QED BY <1>0, <2>4, <2>5, <2>6, <2>8, <2>9 DEF IInv
  <1>11. ASSUME NEW i \in Installers, Kill(i) PROVE IInv'
    <2> DEFINE S == {i}
    <2>1. UNCHANGED <<config, durable, backups>> /\ Killed(S)
      BY <1>11 DEF Kill
    <2>2. \A j \in Installers :
             /\ proc'[j].work = proc[j].work /\ proc'[j].before = proc[j].before
             /\ proc'[j].after = proc[j].after /\ proc'[j].backup = proc[j].backup
             /\ proc'[j].temp = proc[j].temp
             /\ proc'[j].pc = IF j \in S /\ proc[j].pc \in Running THEN "killed" ELSE proc[j].pc
      BY <1>0, <2>1, KilledGoes
    <2> HIDE DEF S
    <2>3. Exclusive'
      BY <1>0, <2>1, <2>2, InstallerAssumption DEF IInv, Exclusive, Killed, Running, TypeOK
    <2>4. PlanKept' /\ TempReady' /\ EntriesKnown'
      BY <2>1, <2>2 DEF IInv, PlanKept, TempReady, EntriesKnown, Running
    <2>5. \A j \in Installers : HasBackup(j)' => HasBackup(j) /\ proc'[j].pc = proc[j].pc
      BY <2>2 DEF HasBackup, Secured
    <2>6. BackupHeld' /\ BackupOwned'
      BY <2>1, <2>2, <2>5 DEF IInv, BackupHeld, BackupOwned
    <2>7. NoLostInstall'
      BY <2>1, <2>2, NothingLost DEF IInv
    <2> QED BY <1>0, <2>3, <2>4, <2>6, <2>7 DEF IInv
  <1>12. CASE ClientEdit
    <2>1. UNCHANGED <<backups, lock, proc>> /\ durable' = config'
      BY <1>12 DEF ClientEdit
    <2>2. Servers(config)' = Servers(config)
      BY <1>0, <1>12, Shapes DEF ClientEdit, TypeOK
    <2>3. Exclusive' /\ PlanKept' /\ TempReady' /\ EntriesKnown'
      BY <2>1, <2>2 DEF IInv, Exclusive, PlanKept, TempReady, EntriesKnown
    <2>4. BackupHeld' /\ BackupOwned'
      BY <2>1 DEF IInv, BackupHeld, BackupOwned, HasBackup
    <2>5. NoLostInstall'
      BY <2>1, <2>2 DEF IInv, NoLostInstall, Removed
    <2> QED BY <1>0, <2>3, <2>4, <2>5 DEF IInv
  <1>13. CASE Tick \/ UNCHANGED vars
    <2>1. UNCHANGED <<config, durable, backups, lock, proc>>
      BY <1>13 DEF Tick, vars
    <2> QED
      BY <1>0, <2>1 DEF IInv, Exclusive, PlanKept, TempReady, EntriesKnown, BackupHeld, BackupOwned,
         HasBackup, NoLostInstall, Removed
  <1>14. CASE PowerLoss
    <2>1. Killed(Installers) /\ durable' = config'
      BY <1>14 DEF PowerLoss
    <2>2. \A j \in Installers :
             /\ proc'[j].work = proc[j].work /\ proc'[j].before = proc[j].before
             /\ proc'[j].after = proc[j].after /\ proc'[j].backup = proc[j].backup
             /\ proc'[j].temp = proc[j].temp
             /\ proc'[j].pc = IF proc[j].pc \in Running THEN "killed" ELSE proc[j].pc
      BY <1>0, <2>1, KilledGoes
    <2>3. \A j \in Installers : proc'[j].pc \notin Running
      BY <2>2 DEF Running
    <2>4. Exclusive'
      BY <1>0, <2>1, <2>3, InstallerAssumption DEF Exclusive, Killed, TypeOK
    <2>5. PlanKept' /\ TempReady' /\ EntriesKnown'
      BY <2>2, <2>3 DEF IInv, PlanKept, TempReady, EntriesKnown, Running
    <2>6. ASSUME NEW j \in Installers, HasBackup(j)'
          PROVE  HasBackup(j) /\ proc'[j].pc = proc[j].pc /\ proc[j].pc # "backedUp"
      BY <2>2, <2>6 DEF HasBackup, Secured, Running
    <2>7. ASSUME NEW j \in Installers, HasBackup(j)'
          PROVE  backups'[proc[j].backup] = backups[proc[j].backup]
      <3>1. backups[proc[j].backup].durable
        <4>1. backups[proc[j].backup] = [content |-> proc[j].before, durable |-> TRUE]
          BY <2>6, <2>7 DEF IInv, BackupHeld
        <4> QED BY <4>1
      <3> QED BY <1>14, <1>a, <3>1 DEF PowerLoss
    <2>8. BackupHeld' /\ BackupOwned'
      BY <2>2, <2>6, <2>7 DEF IInv, BackupHeld, BackupOwned
    <2>9. Servers(config)' = Servers(config) \/ Servers(config)' = Servers(durable)
      <3>1. \A c \in RenamedTemp : Servers(c) = Servers(config)
        BY DEF RenamedTemp, IInv, TempReady, EntriesKnown
      <3> QED BY <1>14, <3>1 DEF PowerLoss
    <2>10. NoLostInstall'
      <3>1. Removed' = Removed
        BY <2>2, RemovedStays
      <3> QED BY <2>1, <2>2, <2>9, <3>1 DEF IInv, NoLostInstall
    <2> QED BY <1>0, <2>4, <2>5, <2>8, <2>10 DEF IInv
  <1> QED
    BY <1>1, <1>2, <1>3, <1>4, <1>5, <1>6, <1>7, <1>8, <1>9, <1>10, <1>11, <1>12, <1>13, <1>14
       DEF Next, Step

\* Every initial state satisfies the inductive invariant.
LEMMA InitEstablishes == Init => IInv
  <1> SUFFICES ASSUME Init PROVE IInv
    OBVIOUS
  <1>1. PICK w \in [Installers -> Work] : proc = [i \in Installers |-> NewProc(w[i])]
    BY DEF Init
  <1>2. TypeOK
    <2>1. config \in Contents /\ durable \in Contents
      BY Shapes DEF Init
    <2>2. NoBackup \in [content : Contents \cup {Torn}, durable : BOOLEAN]
      BY Shapes DEF NoBackup
    <2>3. \A i \in Installers : NewProc(w[i]) \in Procs
      BY Shapes, InstallerAssumption DEF NewProc, Procs, Labels, Seconds
    <2> QED BY <1>1, <2>1, <2>2, <2>3, InstallerAssumption DEF Init, TypeOK, Seconds
  <1>3. \A i \in Installers : proc[i].pc = "start"
    BY <1>1 DEF NewProc
  <1> QED
    BY <1>2, <1>3, InstallerAssumption DEF Init, IInv, Running, Exclusive, PlanKept, TempReady,
       EntriesKnown, BackupHeld, BackupOwned, HasBackup, Secured, NoLostInstall

\* The inductive invariant holds in every reachable state.
THEOREM Inductive == Spec => []IInv
  BY InitEstablishes, StepPreserves, PTL DEF Spec

\* Every variable keeps its type.
THEOREM TypeCorrect == Spec => []TypeOK
  BY Inductive, PTL DEF IInv

\* Apply: the client finds a whole configuration whenever power is lost, since
\* what is renamed has been synced and what was there is not written to.
THEOREM AlwaysWhole == Spec => []ConfigIntact
  <1>1. IInv => ConfigIntact
    BY Shapes DEF IInv, TypeOK, ConfigIntact
  <1> QED BY <1>1, Inductive, PTL

\* Apply: an entry that was installed stays, whatever other installers plan,
\* apply or leave behind when they are killed.
THEOREM InstallsKept == Spec => []NoLostInstall
  BY Inductive, PTL DEF IInv

\* writeExclusive: what an installer has replaced is in its durable backup.
THEOREM BackedUp == Spec => []ReplacedIsBackedUp
  <1>1. IInv => ReplacedIsBackedUp
    BY DEF IInv, TypeOK, BackupHeld, HasBackup, Secured, ReplacedIsBackedUp
  <1> QED BY <1>1, Inductive, PTL
=============================================================================
