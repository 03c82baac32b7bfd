------------------------------ MODULE MCStores ------------------------------
(* The stores for TLC: logs, the walk of a client through their pages,       *)
(* alerts, the files, and the store with a backup.  They share nothing, so a *)
(* behaviour exercises one of them, and the others stay as they begin.      *)
EXTENDS LogPaging, AlertLifecycle, FilePersistence, BackupLogStore, TLC

VARIABLE exercised

StoresInit ==
    /\ PagingInit
    /\ AlertInit
    /\ FilesInit
    /\ BackupInit
    /\ exercised \in {"logs", "pages", "alerts", "files", "backup"}

StoresNext ==
    \/ /\ exercised = "logs" /\ Next
       /\ UNCHANGED <<walk, alertVars, fileVars, backupVars, exercised>>
    \/ /\ exercised = "pages" /\ PagingNext
       /\ UNCHANGED <<alertVars, fileVars, backupVars, exercised>>
    \/ /\ exercised = "alerts" /\ AlertNext
       /\ UNCHANGED <<pagingVars, fileVars, backupVars, exercised>>
    \/ /\ exercised = "files" /\ FilesNext
       /\ UNCHANGED <<pagingVars, alertVars, backupVars, exercised>>
    \/ /\ exercised = "backup" /\ BackupNext
       /\ UNCHANGED <<pagingVars, alertVars, fileVars, exercised>>

StoresSpec ==
    StoresInit /\ [][StoresNext]_<<pagingVars, alertVars, fileVars, backupVars, exercised>>

\* Two entries of one timestamp in locations two hours apart, one without a
\* service, two errors in one hour, and an entry that is alone in its hour.
StatExamples == {
    [ts |-> 0, zone |-> 0, level |-> "INFO", source |-> "api", service |-> "auth"],
    [ts |-> 1, zone |-> 0, level |-> "ERROR", source |-> "api", service |-> ""],
    [ts |-> 1, zone |-> 2, level |-> "FATAL", source |-> "web", service |-> "auth"],
    [ts |-> 2, zone |-> 0, level |-> "ERROR", source |-> "web", service |-> ""],
    [ts |-> 3, zone |-> 0, level |-> "ERROR", source |-> "api", service |-> "auth"]}

\* The logs, the alerts, the files and the store with a backup have their types.
StoresTypeOK == TypeOK /\ AlertTypeOK /\ FilesTypeOK /\ BackupTypeOK

Symmetry == Permutations(Ids)
=============================================================================
