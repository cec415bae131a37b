------------------------------- MODULE Backup -------------------------------
(***************************************************************************)
(* packrune backup and packrune restore (cmd/packrune/backup.go,           *)
(* restore.go) beside a server that writes to the database and the storage *)
(* tree, is stopped, crashes and starts.                                   *)
(*                                                                         *)
(* The database is SQLite with a write-ahead log (db.go:123), an external  *)
(* library: a commit goes to the log; a checkpoint brings the log into the *)
(* main file, and the first commit after it starts the log anew; the last  *)
(* connection that closes checkpoints and removes the log; a log that a    *)
(* crash leaves is read again at the next opening, whatever main file it   *)
(* lies beside. Every blob has its row on a page of its own.               *)
(*                                                                         *)
(* Blobs are numbers in the order in which filepath.Walk visits them, each *)
(* in a directory of its own. Copying one file of the archive is one step, *)
(* a file of the database that a checkpoint changes meanwhile is torn. The *)
(* race of an upload with the collector is Registry's: here the collector  *)
(* takes no blob that a row names, and a row is written for a blob that is *)
(* there. An operator runs one of the two commands at a time, and nothing  *)
(* but the docs keeps either from a server that runs.                      *)
(***************************************************************************)
EXTENDS Naturals, FiniteSets

CONSTANT Digests  \* blobs, 1..n

ASSUME BackupAssumption == IsFiniteSet(Digests) /\ Digests = 1..Cardinality(Digests)

VARIABLES
  up,       \* the server runs
  exists,   \* the database file is there
  main,     \* rows in the database file
  log,      \* the log: page -> whether its row is there
  logFile,  \* the log file is there
  folded,   \* the main file has the log's content, too
  blobs,    \* files of the storage tree
  bk,       \* the backup that runs
  archive,  \* the last archive, with the history of its backup
  rst,      \* the restore that runs
  sound     \* history: restored from sound archives only, none half-way, and
            \* none beside a running server

disk == <<exists, main, log, logFile, folded>>
backupVars == <<up, exists, main, log, logFile, folded, blobs, bk, archive, rst, sound>>

-----------------------------------------------------------------------------
(* The database and the server. *)

Empty == [d \in {} |-> FALSE]

\* Rows that a reader sees of a main file with a log beside it.
RowsOf(m, l) == {d \in Digests : IF d \in DOMAIN l THEN l[d] ELSE d \in m}
Rows == RowsOf(main, log)

\* What happens to a backup's history: the database changed under its copy; a
\* blob was deleted while the tree was copied.
Tear == IF bk.pc \in {"db", "log"} THEN [archive EXCEPT !.torn = TRUE] ELSE archive
Lose == IF bk.pc = "walk" THEN [archive EXCEPT !.collected = TRUE] ELSE archive

\* A statement that writes or deletes the row of d.
Commit(d, there) ==
  /\ up
  /\ exists' = TRUE
  /\ logFile' = TRUE
  /\ folded' = FALSE
  /\ LET old == IF folded THEN Empty ELSE log
     IN  log' = [p \in DOMAIN old \cup {d} |-> IF p = d THEN there ELSE old[p]]
  /\ UNCHANGED <<up, main, blobs, bk, archive, rst, sound>>

\* An upload's blob, and then its row.
StoreBlob(d) ==
  /\ up
  /\ blobs' = blobs \cup {d}
  /\ UNCHANGED <<up, disk, bk, archive, rst, sound>>

Record(d) == d \in blobs \ Rows /\ Commit(d, TRUE)
Delete(d) == d \in Rows /\ Commit(d, FALSE)

\* The collector.
Collect(d) ==
  /\ up
  /\ d \in blobs \ Rows
  /\ blobs' = blobs \ {d}
  /\ archive' = Lose
  /\ UNCHANGED <<up, disk, bk, rst, sound>>

Checkpoint ==
  /\ up
  /\ log # Empty
  /\ ~folded
  /\ main' = Rows
  /\ folded' = TRUE
  /\ archive' = Tear
  /\ UNCHANGED <<up, exists, log, logFile, blobs, bk, rst, sound>>

\* The start opens, and if need be creates, the database and its log; what the
\* migrations commit to the log is not a row of a blob.
Start ==
  /\ ~up
  /\ up' = TRUE
  /\ exists' = TRUE
  /\ logFile' = TRUE
  /\ folded' = FALSE
  /\ archive' = IF bk.pc = "idle" THEN archive ELSE [archive EXCEPT !.quiet = FALSE]
  /\ rst' = IF rst.pc = "idle" THEN rst ELSE [rst EXCEPT !.alone = FALSE]
  /\ UNCHANGED <<main, log, blobs, bk, sound>>

\* Shutdown closes the database.
Shutdown ==
  /\ up
  /\ up' = FALSE
  /\ main' = Rows
  /\ log' = Empty
  /\ logFile' = FALSE
  /\ folded' = FALSE
  /\ archive' = Tear
  /\ UNCHANGED <<exists, blobs, bk, rst, sound>>

ServerCrash ==
  /\ up
  /\ up' = FALSE
  /\ UNCHANGED <<disk, blobs, bk, archive, rst, sound>>

\* The machine is lost, the archive is not.
LoseDisk ==
  /\ ~up
  /\ bk.pc = "idle" /\ rst.pc = "idle"
  /\ exists' = FALSE
  /\ main' = {}
  /\ log' = Empty
  /\ logFile' = FALSE
  /\ folded' = FALSE
  /\ blobs' = {}
  /\ sound' = TRUE
  /\ UNCHANGED <<up, bk, archive, rst>>

-----------------------------------------------------------------------------
(* Backup. *)

Idle == [pc |-> "idle", at |-> 0, listed |-> FALSE]

NoArchive ==
  [db |-> FALSE, main |-> {}, log |-> Empty, logFile |-> FALSE, blobs |-> {}, done |-> FALSE,
   torn |-> FALSE, collected |-> FALSE, quiet |-> FALSE, taken |-> {}, sound |-> FALSE]

\* os.Create empties the output file, also where there is no database to copy.
BackupBegin ==
  /\ bk.pc = "idle" /\ rst.pc = "idle"
  /\ bk' = [Idle EXCEPT !.pc = "db"]
  /\ archive' = [NoArchive EXCEPT !.quiet = ~up, !.taken = Rows, !.sound = sound]
  /\ UNCHANGED <<up, disk, blobs, rst, sound>>

CopyDb ==
  /\ bk.pc = "db"
  /\ exists
  /\ archive' = [archive EXCEPT !.db = TRUE, !.main = main]
  /\ bk' = [bk EXCEPT !.pc = "log"]
  /\ UNCHANGED <<up, disk, blobs, rst, sound>>

\* Mutant of CopyLog: the log is not copied.
CopyNoLog ==
  /\ bk.pc = "log"
  /\ bk' = [bk EXCEPT !.pc = "walk", !.at = 1]
  /\ UNCHANGED <<up, disk, blobs, archive, rst, sound>>

\* The -wal and -shm files if they are there.
CopyLog ==
  /\ bk.pc = "log"
  /\ archive' = IF logFile THEN [archive EXCEPT !.log = log, !.logFile = TRUE] ELSE archive
  /\ bk' = [bk EXCEPT !.pc = "walk", !.at = 1]
  /\ UNCHANGED <<up, disk, blobs, rst, sound>>

\* Walk reads the names of the next directory, and then its file.
ReadDir ==
  /\ bk.pc = "walk"
  /\ bk.at \in Digests
  /\ ~bk.listed
  /\ bk' = IF bk.at \in blobs THEN [bk EXCEPT !.listed = TRUE] ELSE [bk EXCEPT !.at = @ + 1]
  /\ UNCHANGED <<up, disk, blobs, archive, rst, sound>>

CopyBlob ==
  /\ bk.pc = "walk"
  /\ bk.listed
  /\ bk.at \in blobs
  /\ archive' = [archive EXCEPT !.blobs = @ \cup {bk.at}]
  /\ bk' = [bk EXCEPT !.at = @ + 1, !.listed = FALSE]
  /\ UNCHANGED <<up, disk, blobs, rst, sound>>

BackupDone ==
  /\ bk.pc = "walk"
  /\ bk.at \notin Digests
  /\ bk' = Idle
  /\ archive' = [archive EXCEPT !.done = TRUE]
  /\ UNCHANGED <<up, disk, blobs, rst, sound>>

\* No database, a file that is gone since its directory was read or that grows
\* or shrinks while it is copied, a failing write, or the end of the process:
\* what is written so far can be read. Its history is of no use.
BackupFails ==
  /\ bk.pc # "idle"
  /\ bk' = Idle
  /\ archive' = [NoArchive EXCEPT !.db = archive.db, !.main = archive.main, !.log = archive.log,
                                  !.logFile = archive.logFile, !.blobs = archive.blobs]
  /\ UNCHANGED <<up, disk, blobs, rst, sound>>

-----------------------------------------------------------------------------
(* Restore. *)

\* alone: the server has been stopped all the time.
NoRestore == [pc |-> "idle", left |-> {}, stale |-> FALSE, alone |-> TRUE]

\* A log lies there that the archive does not replace.
Stale == logFile /\ ~archive.logFile

\* Without --force it is refused where a database is. Nothing asks whether the
\* server runs. (What a server makes of files that change under it is SQLite's
\* matter: a restore beside one is sound no more.)
RestoreBegin(force) ==
  /\ archive.db
  /\ bk.pc = "idle" /\ rst.pc = "idle"
  /\ exists => force
  /\ rst' = [pc |-> "db", left |-> archive.blobs, stale |-> Stale, alone |-> ~up]
  /\ sound' = FALSE
  /\ UNCHANGED <<up, disk, blobs, bk, archive>>

RestoreDb ==
  /\ rst.pc = "db"
  /\ exists' = TRUE
  /\ main' = archive.main
  /\ rst' = [rst EXCEPT !.pc = "log"]
  /\ UNCHANGED <<up, log, logFile, folded, blobs, bk, archive, sound>>

RestoreLog ==
  /\ rst.pc = "log"
  /\ IF archive.logFile
     THEN /\ log' = archive.log
          /\ logFile' = TRUE
     ELSE UNCHANGED <<log, logFile>>
  /\ rst' = [rst EXCEPT !.pc = "storage"]
  /\ UNCHANGED <<up, exists, main, folded, blobs, bk, archive, sound>>

RestoreBlob(d) ==
  /\ rst.pc = "storage"
  /\ d \in rst.left
  /\ blobs' = blobs \cup {d}
  /\ rst' = [rst EXCEPT !.left = @ \ {d}]
  /\ UNCHANGED <<up, disk, bk, archive, sound>>

\* Mutant of RestoreDone: an entry that cannot be written is passed over.
RestoreDoneAnyway ==
  /\ rst.pc = "storage"
  /\ rst' = [rst EXCEPT !.pc = "done"]
  /\ sound' = (archive.done /\ archive.sound /\ rst.alone /\ ~rst.stale
               /\ ~archive.torn /\ ~archive.collected)
  /\ UNCHANGED <<up, disk, blobs, bk, archive>>

\* "restored", until somebody does something else.
RestoreDone ==
  /\ rst.pc = "storage"
  /\ rst.left = {}
  /\ rst' = [rst EXCEPT !.pc = "done"]
  /\ sound' = (archive.done /\ archive.sound /\ rst.alone /\ ~rst.stale
               /\ ~archive.torn /\ ~archive.collected)
  /\ UNCHANGED <<up, disk, blobs, bk, archive>>

RestoreEnd ==
  /\ rst.pc = "done"
  /\ rst' = NoRestore
  /\ UNCHANGED <<up, disk, blobs, bk, archive, sound>>

\* A write fails or the process ends; what is there stays.
RestoreFails ==
  /\ rst.pc \in {"db", "log", "storage"}
  /\ rst' = NoRestore
  /\ UNCHANGED <<up, disk, blobs, bk, archive, sound>>

-----------------------------------------------------------------------------
BackupInit ==
  /\ up = FALSE
  /\ exists = FALSE
  /\ main = {}
  /\ log = Empty
  /\ logFile = FALSE
  /\ folded = FALSE
  /\ blobs = {}
  /\ bk = Idle
  /\ archive = NoArchive
  /\ rst = NoRestore
  /\ sound = TRUE

Server ==
  \/ \E d \in Digests : StoreBlob(d) \/ Record(d) \/ Delete(d) \/ Collect(d)
  \/ Checkpoint
  \/ Start
  \/ Shutdown
  \/ ServerCrash
  \/ LoseDisk

RunBackup ==
  \/ BackupBegin
  \/ CopyDb
  \/ CopyLog
  \/ ReadDir
  \/ CopyBlob
  \/ BackupDone
  \/ BackupFails

RunRestore ==
  \/ \E force \in BOOLEAN : RestoreBegin(force)
  \/ RestoreDb
  \/ RestoreLog
  \/ \E d \in Digests : RestoreBlob(d)
  \/ RestoreDone
  \/ RestoreEnd
  \/ RestoreFails

BackupNext == Server \/ RunBackup \/ RunRestore

BackupSpec == BackupInit /\ [][BackupNext]_backupVars

-----------------------------------------------------------------------------
(* Properties. *)

\* A backup that ran while the server was stopped ("for a coherent snapshot",
\* backup.go:4-6), after a clean stop or a crash, is given back to the row by a
\* restore that no server runs beside, onto an empty machine or over another
\* database, also after restores that broke off; unless a log lies there and the
\* archive has none: restore does not remove it (restore.go:70-114).
GivesBackWhatWasThere ==
  rst.pc = "done" /\ archive.done /\ archive.quiet /\ rst.alone /\ ~rst.stale =>
    Rows = archive.taken /\ (archive.sound => archive.taken \subseteq blobs)

\* Every row has its blob, before and after restores, also of archives that
\* were taken beside a running server: the database is copied before the tree.
\* Only a checkpoint while the database is copied, or a collection while the
\* tree is, takes it away (backup.go:53-72), or a restore beside a server.
RowsKeepFiles == sound => Rows \subseteq blobs
=============================================================================
