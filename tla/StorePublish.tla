----------------------------- MODULE StorePublish -----------------------------
(***************************************************************************)
(* How a JSON store is published (publishStoreAtomically in                *)
(* server/src/utils/atomicStoreWrite.ts) by processes that share its files *)
(* and recovered from its backup when it does not parse                    *)
(* (recoverFromBackupOrDefaults in RecoveryOptionService.ts, initialize in *)
(* WorkspaceService.ts).  Each process publishes one document at a time.   *)
(***************************************************************************)
EXTENDS Naturals

CONSTANTS
    StoreProcesses,     \* numbers above 0
    PreserveBackup,     \* a recovery leaves the backup alone: TRUE in RecoveryOptionService
    RenameRetries,      \* length of RENAME_RETRY_WAITS_MS
    MaxPublishes,       \* bound of the model: documents of one process
    MaxBusy,            \* bound of the model: renames refused because somebody has the file open
    MaxFaults,          \* bound of the model: calls of the file system that fail for good
    MaxKills            \* bound of the model

ASSUME StoreAssumption == 0 \notin StoreProcesses /\ PreserveBackup \in BOOLEAN

VARIABLES
    files,      \* path -> what is there
    writer,     \* process -> its publish
    faults      \* what the bounds of the model count

storeVars == <<files, writer, faults>>

Store == <<0, "store">>
Backup == <<0, "bak">>

\* Mutant of PayloadTemp: one path for all, derived from the destination.
SharedTemp(p) == <<0, "tmp">>

PayloadTemp(p) == <<p, "tmp">>

BackupTemp(p) == <<p, "baktmp">>

Paths == (({0} \cup StoreProcesses) \X {"tmp", "baktmp"}) \cup {Store, Backup}

\* A document, by process and number; process 0 stands for what was there before, and for
\* the defaults.  A file that is written, or was damaged, is not whole.
Older == <<0, 0>>
Old == <<0, 1>>
Defaults == <<0, 2>>
NoFile == [doc |-> <<0, 3>>, whole |-> FALSE]
WholeFile(d) == [doc |-> d, whole |-> TRUE]
TornFile(d) == [doc |-> d, whole |-> FALSE]

Starting == [at |-> "boot", doc |-> Old, recovers |-> FALSE, previous |-> NoFile,
             attempt |-> 0, number |-> 0]

StoreInit ==
    /\ \E store \in {WholeFile(Old), TornFile(Old)} :
          files = [f \in Paths |-> IF f = Store THEN store
                                   ELSE IF f = Backup THEN WholeFile(Older) ELSE NoFile]
    /\ writer = [p \in StoreProcesses |-> Starting]
    /\ faults = [busy |-> 0, failed |-> 0, left |-> 0, kills |-> 0]

-----------------------------------------------------------------------------
Write(f, what) == files' = [files EXCEPT ![f] = what]
GoTo(p, at) == writer' = [writer EXCEPT ![p].at = at, ![p].attempt = 0]
Fault(kind) == faults' = [faults EXCEPT ![kind] = @ + 1]

\* The payload is written to its temp file.
Publish(p, d, recovers) ==
    /\ Write(PayloadTemp(p), TornFile(d))
    /\ writer' = [writer EXCEPT ![p].at = "write", ![p].doc = d, ![p].recovers = recovers,
                                ![p].attempt = 0, ![p].previous = NoFile]
    /\ UNCHANGED faults

\* The process starts: it reads the store, or its backup, or takes the defaults.
BootStore(p) ==
    /\ writer[p].at = "boot"
    /\ IF files[Store].whole
       THEN GoTo(p, "idle") /\ UNCHANGED <<files, faults>>
       ELSE Publish(p, IF files[Backup].whole THEN files[Backup].doc ELSE Defaults, TRUE)

Save(p) ==
    /\ writer[p].at = "idle" /\ writer[p].number < MaxPublishes
    /\ LET n == writer[p].number + 1
       IN  /\ Write(PayloadTemp(p), TornFile(<<p, n>>))
           /\ writer' = [writer EXCEPT ![p] = [Starting EXCEPT !.at = "write", !.doc = <<p, n>>,
                                                              !.number = n]]
    /\ UNCHANGED faults

\* Mutant of WritesBackup: a recovery backs up what it could not read.
BacksUpAlways(p) == TRUE

WritesBackup(p) == ~(writer[p].recovers /\ PreserveBackup)

PayloadWritten(p) ==
    /\ writer[p].at = "write"
    /\ Write(PayloadTemp(p), [doc |-> writer[p].doc,
                              whole |-> files[PayloadTemp(p)].doc = writer[p].doc])
    /\ GoTo(p, IF WritesBackup(p) THEN "read" ELSE "rename")
    /\ UNCHANGED faults

\* The store is read, and its copy is written to a temp file of its own.
ReadPrevious(p) ==
    /\ writer[p].at = "read"
    /\ IF files[Store] = NoFile
       THEN GoTo(p, "rename") /\ UNCHANGED files
       ELSE /\ Write(BackupTemp(p), TornFile(files[Store].doc))
            /\ writer' = [writer EXCEPT ![p].at = "backup", ![p].previous = files[Store]]
    /\ UNCHANGED faults

BackupWritten(p) ==
    /\ writer[p].at = "backup"
    /\ Write(BackupTemp(p), writer[p].previous)
    /\ GoTo(p, "renameBackup")
    /\ UNCHANGED faults

Moved(from, to) == [files EXCEPT ![from] = NoFile, ![to] = files[from]]

RenameBackup(p) ==
    /\ writer[p].at = "renameBackup" /\ files[BackupTemp(p)] # NoFile
    /\ files' = Moved(BackupTemp(p), Backup)
    /\ GoTo(p, "rename")
    /\ UNCHANGED faults

RenameStore(p) ==
    /\ writer[p].at = "rename" /\ files[PayloadTemp(p)] # NoFile
    /\ files' = Moved(PayloadTemp(p), Store)
    /\ GoTo(p, "idle")
    /\ UNCHANGED faults

\* The file is open elsewhere: the rename is tried again after a wait.
RenameBusy(p) ==
    /\ writer[p].at \in {"renameBackup", "rename"} /\ writer[p].attempt < RenameRetries
    /\ faults.busy < MaxBusy /\ Fault("busy")
    /\ writer' = [writer EXCEPT ![p].attempt = @ + 1]
    /\ UNCHANGED files

\* A call fails for good: of the file system, or a rename after its last retry.
CallFails(p) ==
    \/ faults.failed < MaxFaults /\ Fault("failed")
    \/ /\ writer[p].at \in {"renameBackup", "rename"} /\ writer[p].attempt = RenameRetries
       /\ faults.busy < MaxBusy /\ Fault("busy")
    \/ /\ writer[p].at = "renameBackup" /\ files[BackupTemp(p)] = NoFile /\ UNCHANGED faults
    \/ /\ writer[p].at = "rename" /\ files[PayloadTemp(p)] = NoFile /\ UNCHANGED faults

\* It fails, and so does, in silence, the removal of the temp file.
LeavesTemp == faults.failed + faults.left < MaxFaults /\ Fault("left") /\ UNCHANGED files

WithoutBackupTemp(p) == [files EXCEPT ![BackupTemp(p)] = NoFile]

\* The backup is optional: the store is published although it cannot be read, or copied.
BackupFails(p) ==
    /\ writer[p].at \in {"read", "backup", "renameBackup"}
    /\ \/ CallFails(p) /\ files' = WithoutBackupTemp(p)
       \/ LeavesTemp
    /\ GoTo(p, "rename")

\* The publish fails and removes its own temp file.  After a recovery that fails the defaults
\* are published; when that fails too the process ends.
PublishFails(p) ==
    /\ writer[p].at \in {"write", "rename"}
    /\ \/ CallFails(p) /\ Write(PayloadTemp(p), NoFile)
       \/ LeavesTemp
    /\ GoTo(p, IF ~writer[p].recovers THEN "idle"
               ELSE IF writer[p].doc = Defaults THEN "down" ELSE "defaults")

PublishDefaults(p) == writer[p].at = "defaults" /\ Publish(p, Defaults, TRUE)

\* The process is killed; what it wrote so far stays.
Kill(p) ==
    /\ writer[p].at # "down" /\ faults.kills < MaxKills
    /\ GoTo(p, "down") /\ Fault("kills")
    /\ UNCHANGED files

StartAgain(p) ==
    /\ writer[p].at = "down"
    /\ writer' = [writer EXCEPT ![p] = [Starting EXCEPT !.number = writer[p].number]]
    /\ UNCHANGED <<files, faults>>

StoreNext ==
    \E p \in StoreProcesses :
        \/ BootStore(p) \/ Save(p) \/ PayloadWritten(p) \/ ReadPrevious(p) \/ BackupWritten(p)
        \/ RenameBackup(p) \/ RenameStore(p) \/ RenameBusy(p) \/ BackupFails(p)
        \/ PublishFails(p) \/ PublishDefaults(p) \/ Kill(p) \/ StartAgain(p)

StoreSpec == StoreInit /\ [][StoreNext]_storeVars

-----------------------------------------------------------------------------
\* A publish that is done has put its own document in place, whole, whatever the other
\* processes write meanwhile.
OwnDocumentPlaced ==
    [][\A p \in StoreProcesses :
          writer[p].at = "rename" /\ writer'[p].at = "idle" /\ faults' = faults
          => files'[Store] = WholeFile(writer[p].doc)]_storeVars

\* The store and the backup never turn into something that does not parse.
StaysWhole ==
    [][\A f \in {Store, Backup} : files[f].whole => files'[f].whole]_storeVars

\* A writer harms nobody: both of the above.
PublishesWhole == OwnDocumentPlaced /\ StaysWhole

\* There is always something to start from: while the store does not parse its backup does.
\* It holds when a recovery preserves the backup, and not when it backs up what it replaces.
SomethingReadable == files[Store].whole \/ files[Backup].whole

\* Whoever is done leaves no temp file behind, unless it was killed or could not remove it.
NoStoreTempLeft ==
    faults.kills = 0 /\ faults.left = 0 =>
        \A p \in StoreProcesses :
            writer[p].at \in {"idle", "down"}
            => files[PayloadTemp(p)] = NoFile /\ files[BackupTemp(p)] = NoFile

\* Whenever the server starts the folder has what it needs, and no more: both of the above.
FolderIsFit == SomethingReadable /\ NoStoreTempLeft
=============================================================================
