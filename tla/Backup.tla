------------------------------- MODULE Backup -------------------------------
(***************************************************************************)
(* Backup and restore (src/database_backup.rs). A backup holds the         *)
(* database mutex, but data.sqlite3 is also written by the job store's own *)
(* connection (bin/server/jobs.rs), whose commits go to the WAL and whose  *)
(* automatic checkpoints move pages into the file while it is being read.  *)
(* A restore replaces the directory of a stopped server by renames.        *)
(*                                                                         *)
(* Page 1 stands for the rows, later pages for job and audit records; a    *)
(* value counts the transactions that wrote a page. The WAL is a sequence  *)
(* of transactions, each with the pages it changed and the file as it      *)
(* leaves it.                                                              *)
(***************************************************************************)
EXTENDS Integers, Sequences

CONSTANTS MaxWrites,     \* transactions of the job store
          MaxRestores,   \* attempts to restore
          SlowCheckpoint \* a checkpoint of the job store may outlast a pass over the file

ASSUME BoundsAssumption == MaxWrites \in Nat /\ MaxRestores \in Nat

VARIABLES main,      \* data.sqlite3: a sequence of pages
          wal,       \* data.sqlite3-wal
          moving,    \* pages a checkpoint of the first upto transactions has yet to move
          upto,
          commits,   \* every committed state of the database so far
          writes,
          pc,        \* the backup job, then the restore command
          bytes, hashed, copied, archive,
          root, temporary, previous, \* the directories: contents or None
          restores

vars == <<main, wal, moving, upto, commits, writes, pc, bytes, hashed, copied, archive,
          root, temporary, previous, restores>>

None  == [kind |-> "none"]
Old   == [kind |-> "old"]     \* the database that a restore replaces
Empty == [kind |-> "empty"]   \* created by opening a path that is not there
Partial == [kind |-> "partial"]
Database(pages, index) == [kind |-> "database", pages |-> pages, index |-> index]

\* The rows of the flush that starts a backup, as every index has them.
FlushedRows == 1

\* A database file after a transaction that sets these pages, one of them perhaps new.
Written(file, pages, value) ==
  [p \in 1..(IF pages \subseteq DOMAIN file THEN Len(file) ELSE Len(file) + 1) |->
     IF p \in pages THEN value ELSE file[p]]

\* What a reader sees: the last transaction of the WAL, or the file.
Current == IF wal = <<>> THEN main ELSE wal[Len(wal)].state

Offline == pc \in {"stopped", "staging", "verified", "moved", "renamed"}

---------------------------------------------------------------------------
(* The job store's connection.                                             *)

\* A job or audit record: page 2, the root of its table, and a leaf, which may be new.
JobWrite(leaf) ==
  LET state == Written(Current, {2, leaf}, writes + 2)
  IN  /\ ~Offline /\ writes < MaxWrites
      /\ writes' = writes + 1
      /\ wal' = Append(wal, [pages |-> {2, leaf}, state |-> state])
      /\ commits' = commits \cup {state}
      /\ UNCHANGED <<main, moving, upto, pc, bytes, hashed, copied, archive, root, temporary, previous, restores>>

\* Its automatic checkpoint, page by page; the log starts anew after the last one.
StartCheckpoint ==
  /\ ~Offline /\ wal # <<>> /\ moving = {}
  /\ moving' = UNION {wal[i].pages : i \in DOMAIN wal} /\ upto' = Len(wal)
  /\ UNCHANGED <<main, wal, commits, writes, pc, bytes, hashed, copied, archive, root, temporary,
                 previous, restores>>

MovePage ==
  /\ ~Offline /\ moving # {}
  /\ \E page \in moving :
       /\ \A other \in moving : page <= other
       /\ main' = Written(main, {page}, wal[upto].state[page])
       /\ moving' = moving \ {page}
       /\ wal' = IF moving = {page} THEN SubSeq(wal, upto + 1, Len(wal)) ELSE wal
       /\ upto' = IF moving = {page} THEN 0 ELSE upto
  /\ UNCHANGED <<commits, writes, pc, bytes, hashed, copied, archive, root, temporary, previous, restores>>

---------------------------------------------------------------------------
(* backup_to.                                                              *)

Db == <<commits, writes, root, temporary, previous, restores>>

\* PRAGMA wal_checkpoint(TRUNCATE), after the flush; every read of the job store
\* ends within the busy timeout.
Checkpoint ==
  /\ pc = "flushed" /\ moving = {}
  /\ main' = Current /\ wal' = <<>>
  /\ pc' = "opening"
  /\ UNCHANGED <<moving, upto, bytes, hashed, copied, archive>> /\ UNCHANGED Db

Readable == SlowCheckpoint \/ moving = {}

\* append_file takes the size that goes into the header and the manifest,
OpenFile ==
  /\ pc = "opening" /\ Readable
  /\ bytes' = Len(main) /\ pc' = "hashing"
  /\ UNCHANGED <<main, wal, moving, upto, hashed, copied, archive>> /\ UNCHANGED Db

\* reads the file once for the manifest, page by page to its end.
HashPage ==
  /\ pc = "hashing" /\ Readable
  /\ IF Len(hashed) < Len(main)
     THEN hashed' = Append(hashed, main[Len(hashed) + 1]) /\ UNCHANGED pc
     ELSE pc' = "copying" /\ UNCHANGED hashed
  /\ UNCHANGED <<main, wal, moving, upto, bytes, copied, archive>> /\ UNCHANGED Db

\* and opens it again for the archive.
CopyPage ==
  /\ pc = "copying" /\ Readable
  /\ IF Len(copied) < Len(main)
     THEN copied' = Append(copied, main[Len(copied) + 1]) /\ UNCHANGED <<pc, archive>>
     ELSE /\ pc' = "archived"
          /\ archive' = [pages |-> copied, bytes |-> bytes, sha256 |-> hashed, index |-> FlushedRows]
          /\ UNCHANGED copied
  /\ UNCHANGED <<main, wal, moving, upto, bytes, hashed>> /\ UNCHANGED Db

\* An I/O error or the end of the process: the artifact is not usable.
BackupFails ==
  /\ pc \in {"flushed", "opening", "hashing", "copying"}
  /\ pc' = "stopped" /\ archive' = None
  /\ UNCHANGED <<main, wal, moving, upto, bytes, hashed, copied>> /\ UNCHANGED Db

\* The operator stops the server.
Stop ==
  /\ pc = "archived" /\ pc' = "stopped"
  /\ UNCHANGED <<main, wal, moving, upto, bytes, hashed, copied, archive>> /\ UNCHANGED Db

---------------------------------------------------------------------------
(* restore_backup, with --force.                                           *)

Backups == <<main, wal, moving, upto, commits, writes, bytes, hashed, copied, archive>>

\* Mutant: the size is compared and the checksum is not.
VerifyManifestSize(a) == Len(a.pages) = a.bytes

\* verify_manifest: sizes and checksums. A file that grew while it was read
\* does not even unpack.
VerifyManifest(a) == Len(a.pages) = a.bytes /\ a.pages = a.sha256

StartRestore ==
  /\ pc = "stopped" /\ archive # None /\ restores < MaxRestores
  /\ restores' = restores + 1
  /\ IF temporary # None THEN UNCHANGED <<pc, temporary>>
     ELSE pc' = "staging" /\ temporary' = Partial
  /\ UNCHANGED <<root, previous>> /\ UNCHANGED Backups

\* An error anywhere before the renames removes the staging directory.
Abandon == pc' = "stopped" /\ temporary' = None /\ UNCHANGED <<root, previous>>

\* Unpack, verify and Database::open, which may fail on its own.
Stage(ok) ==
  /\ pc = "staging"
  /\ IF ok /\ VerifyManifest(archive) /\ previous = None
     THEN /\ pc' = "verified"
          /\ temporary' = Database(archive.pages, archive.index)
          /\ UNCHANGED <<root, previous>>
     ELSE Abandon
  /\ UNCHANGED restores /\ UNCHANGED Backups

\* Mutant: the old directory is removed first.
MoveAsideRemoving(ok) ==
  /\ pc = "verified"
  /\ pc' = "moved" /\ root' = None /\ UNCHANGED <<temporary, previous>>
  /\ UNCHANGED restores /\ UNCHANGED Backups

MoveAside(ok) ==
  /\ pc = "verified"
  /\ IF ok THEN /\ pc' = "moved" /\ UNCHANGED temporary
                /\ root' = None
                /\ previous' = IF root # None THEN root ELSE previous
     ELSE Abandon
  /\ UNCHANGED restores /\ UNCHANGED Backups

\* The second rename; when it fails the first is undone, if that works.
MoveIn(ok, undone) ==
  /\ pc = "moved"
  /\ IF ok THEN pc' = "renamed" /\ root' = temporary /\ temporary' = None /\ UNCHANGED previous
     ELSE /\ pc' = "stopped" /\ temporary' = None
          /\ IF previous # None /\ undone
             THEN root' = previous /\ previous' = None
             ELSE UNCHANGED <<root, previous>>
  /\ UNCHANGED restores /\ UNCHANGED Backups

\* remove_dir_all may stop half-way.
RemovePrevious(ok) ==
  /\ pc = "renamed" /\ pc' = "stopped"
  /\ previous' = IF ok \/ previous = None THEN None ELSE Partial
  /\ UNCHANGED <<root, temporary, restores>> /\ UNCHANGED Backups

\* The command is killed: the directories stay as they are.
Crash ==
  /\ pc \in {"staging", "verified", "moved", "renamed"} /\ pc' = "stopped"
  /\ UNCHANGED <<root, temporary, previous, restores>> /\ UNCHANGED Backups

\* A server is started, and stopped again, between two attempts: open creates
\* what is not there.
OpenRoot ==
  /\ pc = "stopped" /\ root = None
  /\ root' = Empty
  /\ UNCHANGED <<pc, temporary, previous, restores>> /\ UNCHANGED Backups

\* The operator removes a staging directory that a killed command left, when
\* the database is still in place.
CleanUp ==
  /\ pc = "stopped" /\ temporary # None /\ root \notin {None, Empty}
  /\ temporary' = None
  /\ UNCHANGED <<pc, root, previous, restores>> /\ UNCHANGED Backups

---------------------------------------------------------------------------

\* The flush has committed its rows to the WAL and the indexes have them.
Init ==
  /\ main = <<0, 0, 0>> /\ wal = <<[pages |-> {1}, state |-> <<FlushedRows, 0, 0>>]>> /\ moving = {} /\ upto = 0
  /\ commits = {<<0, 0, 0>>, <<FlushedRows, 0, 0>>} /\ writes = 0
  /\ pc = "flushed" /\ bytes = 0 /\ hashed = <<>> /\ copied = <<>> /\ archive = None
  /\ root \in {None, Old} /\ temporary = None /\ previous = None /\ restores = 0

Next ==
  \/ \E leaf \in 2..(Len(Current) + 1) : JobWrite(leaf)
  \/ StartCheckpoint \/ MovePage
  \/ Checkpoint \/ OpenFile \/ HashPage \/ CopyPage \/ BackupFails \/ Stop
  \/ StartRestore
  \/ \E ok \in BOOLEAN : Stage(ok) \/ MoveAside(ok) \/ RemovePrevious(ok)
  \/ \E ok \in BOOLEAN, undone \in BOOLEAN : MoveIn(ok, undone)
  \/ Crash \/ OpenRoot \/ CleanUp

Spec == Init /\ [][Next]_vars

---------------------------------------------------------------------------

(***************************************************************************)
(* What a restore puts in place is one committed state of the database,    *)
(* with the flushed rows that its indexes have, although checkpoints of    *)
(* another connection ran while the file was read twice, and copies that   *)
(* are torn are refused (append_file, verify_manifest).                    *)
(***************************************************************************)
RestoredIsCommitted ==
  \A dir \in {root, temporary, previous} :
    dir.kind = "database" =>
      dir.pages \in commits /\ dir.pages[1] = dir.index

(***************************************************************************)
(* Whatever renames fail and wherever restores are killed and repeated,    *)
(* the database that was there is kept, in place or as .before-restore,    *)
(* until the restored one is in place (restore_backup).                    *)
(***************************************************************************)
OldUntilReplaced ==
  [][(root = Old \/ previous = Old) =>
       root' = Old \/ previous' = Old \/ root'.kind = "database"]_vars

=============================================================================
