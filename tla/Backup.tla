------------------------------- MODULE Backup --------------------------------
(***************************************************************************)
(* The operator's backup and restore (backup.py) beside the requests and   *)
(* removals of CompanyRemoval: pg_dump first, then a copy of the archive   *)
(* tree, then a check of the rows against the copy.  The API is not        *)
(* stopped here; the documents only prefer that it is.                     *)
(***************************************************************************)
EXTENDS CompanyRemoval

VARIABLES
    backup,  \* the backup set: its dump, its copy, and how far it is
    target   \* the database and tree a restore writes to: empty, half or restored

bvars == <<backup, target>>

NoBackup  == [pc |-> "none", dumped |-> {}, listed |-> {}, copied |-> {}, lossless |-> TRUE]
Abandoned == [NoBackup EXCEPT !.pc = "failed"]

\* Rows with a storage_uri: those of uploads, written after the archive.
Stored == {w \in rows["source_file"] : w = Seed \/ job[w].kind = "upload"}

\* Mutant: the archive is listed before the database is dumped.
ListThenDump ==
    \/ /\ backup.pc = "none"
       /\ backup' = [backup EXCEPT !.pc = "listing", !.listed = archive]
       /\ UNCHANGED <<vars, target>>
    \/ /\ backup.pc = "listing"
       /\ backup' = [backup EXCEPT !.pc = "listed", !.dumped = Stored]
       /\ UNCHANGED <<vars, target>>

\* create_backup: dump_postgres reads one snapshot of the committed rows.
Dump ==
    /\ backup.pc = "none"
    /\ backup' = [backup EXCEPT !.pc = "copying", !.dumped = Stored]
    /\ UNCHANGED <<vars, target>>

\* copy_archive_tree lists the directories ...
ListTree ==
    /\ backup.pc = "copying"
    /\ backup' = [backup EXCEPT !.pc = "listed", !.listed = archive]
    /\ UNCHANGED <<vars, target>>

\* ... and copies what it listed; a file that has gone raises.
CopyTree ==
    /\ backup.pc = "listed"
    /\ backup' = IF backup.listed \subseteq archive
                 THEN [backup EXCEPT !.pc = "copied", !.copied = backup.listed, !.listed = {}]
                 ELSE Abandoned
    /\ UNCHANGED <<vars, target>>

\* verify_source_mapping of the rows the database has now, not of the dump;
\* then the manifest is written.
VerifyLive ==
    /\ backup.pc = "copied"
    /\ backup' = IF Stored \subseteq backup.copied
                 THEN [backup EXCEPT !.pc = "verified"] ELSE Abandoned
    /\ UNCHANGED <<vars, target>>

\* restore_backup of a verified set: the database first, then the tree, which
\* must not exist, then every restored row must find its file.  A restore that
\* stops half-way cannot be repeated: pg_restore needs an empty database.
Restore ==
    /\ backup.pc = "verified" /\ target = "empty"
    /\ target' \in {"half", IF backup.dumped \subseteq backup.copied THEN "restored" ELSE "half"}
    /\ UNCHANGED <<vars, backup>>

\* A step of the system; the backup is lossless while no file is removed.
\* A restore reads the backup set only, so the system may rest once it starts.
SystemStep ==
    /\ target = "empty"
    /\ Next
    /\ backup' = [backup EXCEPT !.lossless =
                     @ /\ (backup.pc \in {"none", "verified", "failed"}
                           \/ archive \subseteq archive')]
    /\ UNCHANGED target

BackupInit == Init /\ backup = NoBackup /\ target = "empty"

BackupNext ==
    \/ SystemStep
    \/ Dump \/ ListTree \/ CopyTree \/ VerifyLive
    \/ Restore

BackupSpec == BackupInit /\ [][BackupNext]_<<vars, bvars>>

-----------------------------------------------------------------------------
\* A backup made while requests go on restores: a dumped row can only miss
\* its file when a removal took files away during the backup (the runbook's
\* "a committed dump row cannot point at a file that was never written"),
\* already before the live database is asked.
BackupRestores ==
    backup.pc \in {"copied", "verified"} /\ backup.lossless
      => backup.dumped \subseteq backup.copied
=============================================================================
