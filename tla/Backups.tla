------------------------------ MODULE Backups ------------------------------
(***************************************************************************)
(* Backups and restores (apps/backups): the table of BackupRecord, the     *)
(* archives in BACKUP_DIR, retention, the scheduler and the restore.       *)
(*                                                                         *)
(* Nothing here runs in a transaction: each query and each access to the   *)
(* disk is a step of its own, several backups and restores may overlap,    *)
(* and the server may stop between any two steps.  A snapshot holds the    *)
(* table of backup records too, so that a restore takes the records, and   *)
(* the counter of primary keys, back to the past while the archives on     *)
(* disk stay as they are.                                                  *)
(*                                                                         *)
(* File names carry the time; the n-th backup to be started makes file n,  *)
(* so names are never used twice and their order is that of started_at.    *)
(* The database is SQLite: the engine's backup API copies it atomically.   *)
(***************************************************************************)
EXTENDS Integers, FiniteSets

CONSTANTS Worker,        \* server threads and processes that back up or restore
          KeepLast,      \* BACKUP["KEEP_LAST"], 0 for no limit
          MaxBackups,    \* bound: backups ever started
          MaxWrites,     \* bound: writes of the rest of the application
          MaxDiscards,   \* bound: files deleted by hand
          Idle, Absent, Partial

VARIABLES
    db,         \* the database: backup records, their key counter, other data
    disk,       \* [File -> what BACKUP_DIR has under that name]
    started,    \* the number of backups started so far
    recent,     \* the files of backups younger than SCHEDULE_HOURS
    job,        \* [Worker -> its backup or restore]
    written,    \* the number of writes so far
    discarded,  \* history: archives deleted by hand, or by a failure at the end
    replaced    \* history: safety copies of the restores that replaced the data

vars == <<db, disk, started, recent, job, written, discarded, replaced>>

File == 1 .. MaxBackups
NoFile == 0

(* Manual and scheduled backups are told apart by their label only. *)
Kind == {"regular", "pre_restore"}
Status == {"running", "success", "failed"}
Write == 1 .. MaxWrites

Row == [pk : Nat \ {0}, file : File, kind : Kind, status : Status]

Database == [rows : SUBSET Row, sequence : Nat, data : SUBSET Write]

(* An archive with its manifest and the snapshot in it; a file that is still
   written, or was left by a crash, cannot be read. *)
Archive == [kind : Kind, db : Database]
Whole(f) == disk[f] \notin {Absent, Partial}

(* The row and archive a job is about, the file it restores, what was in the
   database from the request on, the rows or files it has still to go through. *)
Job == [kind : Kind, pc : {"start", "snapshot", "open", "close", "save", "undo", "retain",
                           "unlink", "remove", "replace", "media", "sync", "answer"},
        row : Row \cup {Idle}, snapshot : Database \cup {Idle}, source : File \cup {NoFile},
        held : SUBSET Write, stale : SUBSET Row, unlisted : SUBSET File]

ASSUME BackupsAssumption ==
    /\ KeepLast \in Nat /\ MaxBackups \in Nat /\ MaxWrites \in Nat
    /\ MaxDiscards \in Nat
    /\ Idle \notin Row \cup Database \cup Job
    /\ Absent \notin Archive \cup {Partial} /\ Partial \notin Archive

TypeOK ==
    /\ db \in Database
    /\ disk \in [File -> Archive \cup {Absent, Partial}]
    /\ started \in 0 .. MaxBackups /\ written \in 0 .. MaxWrites
    /\ recent \subseteq 1 .. started /\ discarded \subseteq 1 .. started
    /\ job \in [Worker -> Job \cup {Idle}]
    /\ replaced \subseteq [safety : File, held : SUBSET Write]
    /\ \A r, s \in db.rows : r.pk = s.pk \/ r.file = s.file => r = s
    /\ \A r \in db.rows : r.pk <= db.sequence

Init ==
    /\ db = [rows |-> {}, sequence |-> 0, data |-> {}]
    /\ disk = [f \in File |-> Absent]
    /\ started = 0 /\ recent = {} /\ written = 0
    /\ job = [w \in Worker |-> Idle]
    /\ discarded = {} /\ replaced = {}

NewJob(kind, source) ==
    [kind |-> kind, pc |-> "start", row |-> Idle, snapshot |-> Idle, source |-> source,
     held |-> IF source = NoFile THEN {} ELSE db.data, stale |-> {}, unlisted |-> {}]

At(w, pc) == job[w] # Idle /\ job[w].pc = pc

Goto(w, pc) == job' = [job EXCEPT ![w].pc = pc]

End(w) == job' = [job EXCEPT ![w] = Idle]

-----------------------------------------------------------------------------
(* The table of records *)

(* save() writes the whole row under its key, and inserts it if a restore or
   a deletion has removed it; file names are unique. *)
CanSave(r) == \A s \in db.rows : s.file = r.file => s.pk = r.pk

Saved(r) ==
    [db EXCEPT !.rows = {s \in @ : s.pk # r.pk} \cup {r},
               !.sequence = IF r.pk > @ THEN r.pk ELSE @]

(* delete() of a loaded row removes what has its key now. *)
Deleted(r) == [db EXCEPT !.rows = {s \in @ : s.pk # r.pk}]

NewRow(f, kind, status) ==
    [pk |-> db.sequence + 1, file |-> f, kind |-> kind, status |-> status]

Success == {r \in db.rows : r.status = "success"}

(* Mutant: a safety copy counts like any other backup. *)
StaleOfAnyKind ==
    {r \in Success : KeepLast > 0 /\ Cardinality({s \in Success : s.file > r.file}) >= KeepLast}

(* The records beyond the KEEP_LAST newest; safety copies are not counted. *)
Stale ==
    LET counted == {r \in Success : r.kind = "regular"}
    IN  {r \in counted : /\ KeepLast > 0
                         /\ Cardinality({s \in counted : s.file > r.file}) >= KeepLast}

(* Mutant: any record counts as a backup. *)
BackedUpAtAll == \E r \in db.rows : r.file \in recent

(* hours_since_last_backup() < SCHEDULE_HOURS. *)
BackedUpRecently == \E r \in Success : r.file \in recent

-----------------------------------------------------------------------------
(* Making a backup *)

(* The user asks for one, or the command backup_now does. *)
BackupNow(w) ==
    /\ job[w] = Idle /\ started < MaxBackups
    /\ job' = [job EXCEPT ![w] = NewJob("regular", NoFile)]
    /\ UNCHANGED <<db, disk, started, recent, written, discarded, replaced>>

(* The scheduler of a process wakes up and finds no recent backup. *)
RunDueBackup(w) ==
    /\ job[w] = Idle /\ started < MaxBackups
    /\ ~BackedUpRecently
    /\ job' = [job EXCEPT ![w] = NewJob("regular", NoFile)]
    /\ UNCHANGED <<db, disk, started, recent, written, discarded, replaced>>

(* create_backup: the record ... *)
CreateRecord(w) ==
    LET r == NewRow(started + 1, job[w].kind, "running")
    IN  /\ At(w, "start") /\ started < MaxBackups
        /\ db' = [db EXCEPT !.rows = @ \cup {r}, !.sequence = r.pk]
        /\ started' = started + 1
        /\ recent' = recent \cup {r.file}
        /\ job' = [job EXCEPT ![w].row = r, ![w].pc = "snapshot"]
        /\ UNCHANGED <<disk, written, discarded, replaced>>

(* ... the copy of the database, with that record in it ... *)
Snapshot(w) ==
    /\ At(w, "snapshot")
    /\ job' = [job EXCEPT ![w].snapshot = db, ![w].pc = "open"]
    /\ UNCHANGED <<db, disk, started, recent, written, discarded, replaced>>

(* ... the archive, whose file is there before it is complete ... *)
OpenArchive(w) ==
    /\ At(w, "open")
    /\ disk' = [disk EXCEPT ![job[w].row.file] = Partial]
    /\ Goto(w, "close")
    /\ UNCHANGED <<db, started, recent, written, discarded, replaced>>

(* (a file deleted while it is written stays deleted) *)
CloseArchive(w) ==
    LET j == job[w]
    IN  /\ At(w, "close")
        /\ disk' = [disk EXCEPT ![j.row.file] =
              IF @ = Absent THEN Absent ELSE [kind |-> j.kind, db |-> j.snapshot]]
        /\ job' = [job EXCEPT ![w].pc = "save", ![w].snapshot = Idle]
        /\ UNCHANGED <<db, started, recent, written, discarded, replaced>>

(* Mutant: the record is marked before the archive is complete. *)
RecordSuccessEarly(w) ==
    LET r == [job[w].row EXCEPT !.status = "success"]
    IN  /\ job[w] # Idle /\ job[w].pc \in {"close", "save"} /\ CanSave(r)
        /\ db' = Saved(r)
        /\ job' = [job EXCEPT ![w].row = r, ![w].pc = IF @ = "close" THEN "close" ELSE "retain"]
        /\ UNCHANGED <<disk, started, recent, written, discarded, replaced>>

(* ... its size and checksum, and the record again. *)
RecordSuccess(w) ==
    LET r == [job[w].row EXCEPT !.status = "success"]
    IN  /\ At(w, "save") /\ Whole(r.file) /\ CanSave(r)
        /\ db' = Saved(r)
        /\ job' = [job EXCEPT ![w].row = r, ![w].pc = "retain"]
        /\ UNCHANGED <<disk, started, recent, written, discarded, replaced>>

(* Anything may fail on the way; then the record says so, ... *)
RecordFailure(w) ==
    LET r == [job[w].row EXCEPT !.status = "failed"]
    IN  /\ job[w] # Idle /\ job[w].pc \in {"snapshot", "open", "close", "save"}
        /\ CanSave(r)
        /\ db' = Saved(r)
        /\ job' = [job EXCEPT ![w].pc = "undo", ![w].snapshot = Idle]
        /\ UNCHANGED <<disk, started, recent, written, discarded, replaced>>

(* ... and the file is removed, which a restore may have listed meanwhile if
   it was complete.  A restore ends with its safety copy. *)
RemoveFailed(w) ==
    LET f == job[w].row.file
    IN  /\ At(w, "undo")
        /\ disk' = [disk EXCEPT ![f] = Absent]
        /\ discarded' = IF Whole(f) THEN discarded \cup {f} ELSE discarded
        /\ End(w)
        /\ UNCHANGED <<db, started, recent, written, replaced>>

(* A restore has listed the finished archive under another key: neither of
   the two save() goes through. *)
SaveRefused(w) ==
    /\ job[w] # Idle /\ job[w].pc \in {"snapshot", "open", "close", "save"}
    /\ ~CanSave(job[w].row)
    /\ End(w)
    /\ UNCHANGED <<db, disk, started, recent, written, discarded, replaced>>

-----------------------------------------------------------------------------
(* Retention and deletion *)

AfterRetention(w) ==
    IF job[w].source = NoFile THEN End(w)
    ELSE job' = [job EXCEPT ![w].pc = "replace", ![w].stale = {}]

ApplyRetention(w) ==
    /\ At(w, "retain")
    /\ IF Stale = {} THEN AfterRetention(w)
       ELSE job' = [job EXCEPT ![w].stale = Stale, ![w].pc = "unlink"]
    /\ UNCHANGED <<db, disk, started, recent, written, discarded, replaced>>

(* The newest of the stale ones is removed first: its file ... *)
NextStale(w) == {r \in job[w].stale : \A s \in job[w].stale : s.file <= r.file}

UnlinkStale(w) ==
    /\ At(w, "unlink")
    /\ \E r \in NextStale(w) : disk' = [disk EXCEPT ![r.file] = Absent]
    /\ Goto(w, "remove")
    /\ UNCHANGED <<db, started, recent, written, discarded, replaced>>

(* ... and its record. *)
RemoveStale(w) ==
    LET rest == job[w].stale \ NextStale(w)
    IN  /\ At(w, "remove")
        /\ \E r \in NextStale(w) : db' = Deleted(r)
        /\ IF rest = {} THEN AfterRetention(w)
           ELSE job' = [job EXCEPT ![w].stale = rest, ![w].pc = "unlink"]
        /\ UNCHANGED <<disk, started, recent, written, discarded, replaced>>

(* The view delete: the file, and if nothing stops it the record. *)
DeleteByHand(r) ==
    /\ r.file \in discarded \/ Cardinality(discarded) < MaxDiscards
    /\ disk' = [disk EXCEPT ![r.file] = Absent]
    /\ db' \in {db, Deleted(r)}
    /\ discarded' = discarded \cup {r.file}
    /\ UNCHANGED <<started, recent, job, written, replaced>>

-----------------------------------------------------------------------------
(* Restoring *)

(* The archive of the record is there and can be read; a safety copy is
   made first. *)
BeginRestore(w, r) ==
    /\ job[w] = Idle /\ started < MaxBackups
    /\ Whole(r.file)
    /\ job' = [job EXCEPT ![w] = NewJob("pre_restore", r.file)]
    /\ UNCHANGED <<db, disk, started, recent, written, discarded, replaced>>

(* The whole database is replaced, its backup records and key counter as
   well.  What others knew to be in it may be gone. *)
ReplaceDatabase(w) ==
    LET new == disk[job[w].source].db
    IN  /\ At(w, "replace") /\ Whole(job[w].source)
        /\ db' = new
        /\ replaced' = replaced \cup {[safety |-> job[w].row.file, held |-> job[w].held]}
        /\ job' = [v \in Worker |->
              IF v = w THEN [job[w] EXCEPT !.pc = "media"]
              ELSE IF job[v] = Idle THEN Idle
              ELSE [job[v] EXCEPT !.held = @ \cap new.data]]
        /\ UNCHANGED <<disk, started, recent, written, discarded>>

(* The archive has gone since (retention, a deletion) or cannot be unpacked,
   or the media files cannot be copied: the failure is noted and answered. *)
RestoreFails(w) ==
    /\ job[w] # Idle /\ job[w].pc \in {"replace", "media"}
    /\ Goto(w, "answer")
    /\ UNCHANGED <<db, disk, started, recent, written, discarded, replaced>>

(* Mutant: a backup under way, or one that failed, has no record. *)
KnownSuccessful == {r.file : r \in Success}

Known == {r.file : r \in db.rows}

(* sync_records_from_disk: the files without a record, in order of name. *)
AfterListing(w, rest) ==
    job' = [job EXCEPT ![w].unlisted = rest, ![w].pc = IF rest = {} THEN "answer" ELSE "sync"]

FindUnlisted(w) ==
    /\ At(w, "media")
    /\ AfterListing(w, {f \in File : disk[f] # Absent} \ Known)
    /\ UNCHANGED <<db, disk, started, recent, written, discarded, replaced>>

NextUnlisted(w) == {f \in job[w].unlisted : \A g \in job[w].unlisted : f <= g}

(* Readable ones get one; a name that was taken meanwhile ends the request. *)
ListArchive(w) ==
    /\ At(w, "sync")
    /\ \E f \in NextUnlisted(w) :
          \/ /\ ~Whole(f)
             /\ AfterListing(w, job[w].unlisted \ {f})
             /\ UNCHANGED db
          \/ /\ Whole(f) /\ f \in Known
             /\ End(w)
             /\ UNCHANGED db
          \/ /\ Whole(f) /\ f \notin Known
             /\ db' = Saved(NewRow(f, disk[f].kind, "success"))
             /\ AfterListing(w, job[w].unlisted \ {f})
    /\ UNCHANGED <<disk, started, recent, written, discarded, replaced>>

Answer(w) ==
    /\ At(w, "answer")
    /\ End(w)
    /\ UNCHANGED <<db, disk, started, recent, written, discarded, replaced>>

-----------------------------------------------------------------------------
(* The rest of the application, time, and crashes *)

AppWrite ==
    /\ written < MaxWrites
    /\ written' = written + 1
    /\ db' = [db EXCEPT !.data = @ \cup {written + 1}]
    /\ UNCHANGED <<disk, started, recent, job, discarded, replaced>>

HoursPass ==
    /\ recent' = {}
    /\ UNCHANGED <<db, disk, started, job, written, discarded, replaced>>

Crash ==
    /\ job' = [w \in Worker |-> Idle]
    /\ UNCHANGED <<db, disk, started, recent, written, discarded, replaced>>

Next ==
    \/ \E w \in Worker :
          \/ BackupNow(w) \/ RunDueBackup(w)
          \/ CreateRecord(w) \/ Snapshot(w) \/ OpenArchive(w) \/ CloseArchive(w)
          \/ RecordSuccess(w) \/ RecordFailure(w) \/ RemoveFailed(w) \/ SaveRefused(w)
          \/ ApplyRetention(w) \/ UnlinkStale(w) \/ RemoveStale(w)
          \/ \E r \in db.rows : BeginRestore(w, r)
          \/ ReplaceDatabase(w) \/ RestoreFails(w)
          \/ FindUnlisted(w) \/ ListArchive(w) \/ Answer(w)
    \/ \E r \in db.rows : DeleteByHand(r)
    \/ AppWrite \/ HoursPass \/ Crash

Spec == Init /\ [][Next]_vars

-----------------------------------------------------------------------------
(* Properties *)

(* A restore can be undone: what the database held from the request until it
   was replaced is in the safety copy, which no later retention, failure or
   restore removes; only a user can (restore_backup, apply_retention). *)
SafetyKept ==
    \A c \in replaced : \/ c.safety \in discarded
                        \/ Whole(c.safety) /\ c.held \subseteq disk[c.safety].db.data

(* A backup that is listed as successful can be restored if its file is there,
   whatever crashed, overlapped or was restored (create_backup, sync_records_
   from_disk). *)
SuccessIsWhole == \A r \in Success : disk[r.file] # Partial

(* The scheduler is content only with a backup that exists: while it sees a
   recent one, some archive as recent is whole, though a crash may have left a
   record without its archive and a restore may have brought back the records
   of archives deleted since.  Excepted are deletions by hand, and a failure
   after the archive was complete (run_due_backup, hours_since_last_backup). *)
RecentBackupExists ==
    BackedUpRecently => \E f \in recent : Whole(f) \/ f \in discarded
=============================================================================
