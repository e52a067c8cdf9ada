--------------------------- MODULE Backups_proofs ---------------------------
(***************************************************************************)
(* Theorems about backups and restores, for any number of workers, of      *)
(* backups and of writes and any retention: however they overlap, fail or  *)
(* break off, what a restore replaced can be had back, no record of a      *)
(* success stands for half an archive, and the scheduler is content only   *)
(* with a backup that exists.                                              *)
(***************************************************************************)
EXTENDS Backups, FiniteSetTheorems, TLAPS

-----------------------------------------------------------------------------
(* The inductive invariant *)

(* w makes a backup, or has made it, and its file is f. *)
Owns(w, f) == job[w] # Idle /\ job[w].row # Idle /\ job[w].row.file = f

(* The archive f is still to be made. *)
Awaited(f) == \E w \in Worker : Owns(w, f) /\ job[w].pc \in {"snapshot", "open"}

(* f is the safety copy of a restore. *)
SafetyFile(f) ==
    \/ \E c \in replaced : c.safety = f
    \/ \E w \in Worker : Owns(w, f) /\ job[w].source # NoFile

(* f holds what the database held, unless it was deleted by hand. *)
Holds(f, held) == f \in discarded \/ (Whole(f) /\ held \subseteq disk[f].db.data)

(* The file f, or a later one, is an archive or was deleted by hand. *)
Backed(f) == \E g \in File : f <= g /\ (Whole(g) \/ g \in discarded)

(* What is true of every record, also in the past that an archive keeps. *)
RowSound(r) ==
    /\ r.file <= started
    /\ SafetyFile(r.file) => r.kind = "pre_restore"
    /\ r.status = "success" =>
          disk[r.file] # Partial /\ ~Awaited(r.file) /\ Backed(r.file)

Tidy(base) ==
    /\ \A r, s \in base.rows : r.pk = s.pk \/ r.file = s.file => r = s
    /\ \A r \in base.rows : r.pk <= base.sequence

(* The database, and those that a restore may make the database. *)
Base ==
    {db} \cup {disk[f].db : f \in {g \in File : Whole(g)}}
         \cup {job[w].snapshot : w \in {v \in Worker : At(v, "open") \/ At(v, "close")}}

BasesSound == \A base \in Base : Tidy(base) /\ \A r \in base.rows : RowSound(r)

(* A record retention removes: a later backup exists. *)
StaleSound(r) ==
    r.kind = "regular" /\ r.status = "success" /\ RowSound(r) /\ Backed(r.file + 1)

(* The file of a job: not there, being written, then a safety copy of what a
   restore will replace. *)
FileSound(w) ==
    \A f \in File : Owns(w, f) =>
        /\ job[w].pc \in {"snapshot", "open"} => disk[f] = Absent
        /\ job[w].pc = "close" => disk[f] = Partial \/ (disk[f] = Absent /\ f \in discarded)
        /\ job[w].pc \in {"save", "retain", "unlink", "remove", "replace"} /\ job[w].source # NoFile
              => Holds(f, job[w].held)

DataSound(w) ==
    /\ job[w].pc \in {"start", "snapshot"} => job[w].held \subseteq db.data
    /\ job[w].pc \in {"open", "close"} => job[w].held \subseteq job[w].snapshot.data

JobSound(w) ==
    /\ job[w].pc = "start" <=> job[w].row = Idle
    /\ \A r \in Row : job[w].row = r => RowSound(r) /\ r.kind = job[w].kind
    /\ job[w].kind = "pre_restore" <=> job[w].source # NoFile
    /\ job[w].pc \in {"open", "close"} => job[w].snapshot # Idle
    /\ job[w].pc = "replace" => job[w].source # NoFile
    /\ \A r \in job[w].stale : StaleSound(r)

JobsSound == \A w \in Worker : job[w] # Idle => JobSound(w) /\ FileSound(w) /\ DataSound(w)

JobsApart == \A v, w \in Worker, f \in File : Owns(v, f) /\ Owns(w, f) => v = w

FilesSound ==
    \A f \in File :
        /\ disk[f] # Absent => f <= started
        /\ Whole(f) /\ SafetyFile(f) => disk[f].kind = "pre_restore"

RecentSound == \A f \in recent : f .. started \subseteq recent

IInv ==
    /\ TypeOK /\ BasesSound /\ JobsSound /\ JobsApart
    /\ FilesSound /\ RecentSound /\ SafetyKept
-----------------------------------------------------------------------------
(* Types *)

LEMMA DomainTyped ==
    ASSUME TypeOK
    PROVE  /\ File \subseteq Nat \ {0} /\ started \in Nat
           /\ NoFile \notin File
  BY BackupsAssumption DEF TypeOK, File, NoFile

(* What a job at work refers to. *)
LEMMA JobTyped ==
    ASSUME IInv, NEW w \in Worker, job[w] # Idle
    PROVE  /\ job[w] \in Job
           /\ job[w].pc # "start" => job[w].row \in Row /\ job[w].row.file \in File
           /\ job[w].pc \in {"open", "close"} => job[w].snapshot \in Database
           /\ job[w].pc = "replace" => job[w].source \in File
           /\ \A r \in job[w].stale : r \in Row /\ r.file \in File
  BY DEF IInv, TypeOK, JobsSound, JobSound, Job, Row

LEMMA BaseTyped ==
    ASSUME IInv
    PROVE  Base \subseteq Database
  <1>1. \A w \in Worker : At(w, "open") \/ At(w, "close") => job[w].snapshot \in Database
    BY JobTyped DEF At
  <1>2. \A f \in File : Whole(f) => disk[f].db \in Database
    BY DEF IInv, TypeOK, Whole, Archive
  <1> QED
    BY <1>1, <1>2 DEF Base, IInv, TypeOK

(* Writing and deleting records. *)
LEMMA SavedTidy ==
    ASSUME db \in Database, Tidy(db), NEW r \in Row, CanSave(r)
    PROVE  /\ Saved(r) \in Database /\ Tidy(Saved(r))
           /\ Saved(r).data = db.data
           /\ \A s \in Saved(r).rows : s \in db.rows \/ s = r
  <1> DEFINE rows == {s \in db.rows : s.pk # r.pk} \cup {r}
             sequence == IF r.pk > db.sequence THEN r.pk ELSE db.sequence
  <1>1. /\ db.rows \subseteq Row /\ db.sequence \in Nat
        /\ r.pk \in Nat
        /\ \A s \in Row : s.pk \in Nat
    BY DEF Database, Row
  <1>2. Saved(r) = [db EXCEPT !.rows = rows, !.sequence = sequence]
    BY DEF Saved
  <1>3. rows \subseteq Row /\ sequence \in Nat
    BY <1>1
  <1> HIDE DEF rows, sequence
  <1>4. Saved(r).rows = rows /\ Saved(r).sequence = sequence /\ Saved(r).data = db.data
    BY <1>2 DEF Database
  <1>5. Saved(r) \in Database
    BY <1>2, <1>3 DEF Database
  <1> USE DEF rows, sequence
  <1>6. \A s, t \in rows : s.pk = t.pk \/ s.file = t.file => s = t
    BY DEF Tidy, CanSave
  <1>7. \A s \in rows : s.pk <= sequence
    BY <1>1 DEF Tidy
  <1> QED
    BY <1>4, <1>5, <1>6, <1>7 DEF Tidy

LEMMA DeletedTidy ==
    ASSUME db \in Database, Tidy(db), NEW r \in Row
    PROVE  /\ Deleted(r) \in Database /\ Tidy(Deleted(r))
           /\ Deleted(r).data = db.data
           /\ Deleted(r).rows \subseteq db.rows
  BY DEF Database, Tidy, Deleted

LEMMA TypesInit == Init => IInv
  <1> SUFFICES ASSUME Init PROVE IInv
    OBVIOUS
  <1> USE DEF Init
  <1>1. TypeOK
    BY BackupsAssumption DEF TypeOK, Database, Write
  <1>2. \A w \in Worker : job[w] = Idle
    OBVIOUS
  <1>3. \A f \in File : ~Whole(f)
    BY DEF Whole
  <1>4. Base = {db}
    BY <1>2, <1>3 DEF Base, At
  <1>5. BasesSound
    BY <1>4 DEF BasesSound, Tidy
  <1>6. JobsSound /\ JobsApart
    BY <1>2 DEF JobsSound, JobsApart, Owns
  <1>7. FilesSound /\ RecentSound /\ SafetyKept
    BY <1>3 DEF FilesSound, RecentSound, SafetyKept
  <1> QED
    BY <1>1, <1>5, <1>6, <1>7 DEF IInv

(* The parts of TypeOK that actions change one by one. *)
LEMMA JobsTyped ==
    ASSUME IInv, NEW w \in Worker, NEW j \in Job \cup {Idle}, job' = [job EXCEPT ![w] = j]
    PROVE  job' \in [Worker -> Job \cup {Idle}]
  BY DEF IInv, TypeOK

LEMMA NewJobTyped ==
    ASSUME IInv, NEW kind \in Kind, NEW source \in File \cup {NoFile}
    PROVE  NewJob(kind, source) \in Job
  <1> DEFINE held == IF source = NoFile THEN {} ELSE db.data
  <1>1. held \subseteq Write
    BY DEF IInv, TypeOK, Database
  <1> HIDE DEF held
  <1>2. NewJob(kind, source) =
            [kind |-> kind, pc |-> "start", row |-> Idle, snapshot |-> Idle, source |-> source,
             held |-> held, stale |-> {}, unlisted |-> {}]
    BY DEF NewJob, held
  <1> QED
    BY <1>1, <1>2 DEF Job

LEMMA NewRowTyped ==
    ASSUME IInv, NEW f \in File, NEW kind \in Kind, NEW status \in Status
    PROVE  NewRow(f, kind, status) \in Row
  BY DEF NewRow, Row, IInv, TypeOK, Database

(* RecordSuccess, RecordFailure and ListArchive. *)
LEMMA SavedTyped ==
    ASSUME IInv, NEW r \in Row, CanSave(r), db' = Saved(r)
    PROVE  /\ db' \in Database /\ Tidy(db)' /\ db'.data = db.data
           /\ \A s \in db'.rows : s \in db.rows \/ s = r
  BY SavedTidy DEF IInv, TypeOK, Tidy

LEMMA GotoTyped ==
    ASSUME IInv, NEW w \in Worker, job[w] # Idle,
           NEW pc \in {"close", "remove", "answer"}, Goto(w, pc)
    PROVE  job' \in [Worker -> Job \cup {Idle}]
  <1> DEFINE j == [job[w] EXCEPT !.pc = pc]
  <1>1. j \in Job
    BY JobTyped DEF Job
  <1> HIDE DEF j
  <1>2. job' = [job EXCEPT ![w] = j]
    BY DEF Goto, j
  <1> QED
    BY <1>1, <1>2, JobsTyped

LEMMA EndTyped ==
    ASSUME IInv, NEW w \in Worker, End(w)
    PROVE  job' \in [Worker -> Job \cup {Idle}]
  BY JobsTyped DEF End

LEMMA AfterRetentionTyped ==
    ASSUME IInv, NEW w \in Worker, job[w] # Idle, AfterRetention(w)
    PROVE  job' \in [Worker -> Job \cup {Idle}]
  <1> DEFINE j == [job[w] EXCEPT !.pc = "replace", !.stale = {}]
  <1>1. j \in Job
    BY JobTyped DEF Job
  <1> HIDE DEF j
  <1>2. job' = [job EXCEPT ![w] = j] \/ End(w)
    BY DEF AfterRetention, j
  <1> QED
    BY <1>1, <1>2, JobsTyped, EndTyped

LEMMA AfterListingTyped ==
    ASSUME IInv, NEW w \in Worker, job[w] # Idle, NEW rest \in SUBSET File, AfterListing(w, rest)
    PROVE  job' \in [Worker -> Job \cup {Idle}]
  <1> DEFINE pc == IF rest = {} THEN "answer" ELSE "sync"
             j == [job[w] EXCEPT !.unlisted = rest, !.pc = pc]
  <1>0. pc \in {"answer", "sync"}
    OBVIOUS
  <1> HIDE DEF pc
  <1>1. j \in Job
    BY <1>0, JobTyped DEF Job
  <1> HIDE DEF j
  <1>2. job' = [job EXCEPT ![w] = j]
    BY DEF AfterListing, j, pc
  <1> QED
    BY <1>1, <1>2, JobsTyped

LEMMA TypesStep ==
    ASSUME IInv, Next
    PROVE  TypeOK'
  <1>0. TypeOK /\ IInv
    BY DEF IInv
  <1> USE DomainTyped
  <1>1. ASSUME NEW w \in Worker, BackupNow(w) \/ RunDueBackup(w)
        PROVE  TypeOK'
    <2>1. NewJob("regular", NoFile) \in Job
      BY <1>0, NewJobTyped DEF Kind
    <2>2. job' \in [Worker -> Job \cup {Idle}]
      BY <1>0, <1>1, <2>1, JobsTyped DEF BackupNow, RunDueBackup
    <2> QED
      BY <1>0, <1>1, <2>2 DEF BackupNow, RunDueBackup, TypeOK
  <1>2. ASSUME NEW w \in Worker, CreateRecord(w)
        PROVE  TypeOK'
    <2> DEFINE r == NewRow(started + 1, job[w].kind, "running")
               j == [job[w] EXCEPT !.row = r, !.pc = "snapshot"]
    <2>1. started + 1 \in File /\ job[w] \in Job
      BY <1>0, <1>2, BackupsAssumption, JobTyped DEF CreateRecord, At, File, TypeOK
    <2>2. r \in Row
      BY <1>0, <2>1, NewRowTyped DEF Job, Status
    <2>3. r.pk = db.sequence + 1 /\ r.file = started + 1
      BY DEF NewRow
    <2>4. /\ db' = [db EXCEPT !.rows = @ \cup {r}, !.sequence = r.pk]
          /\ started' = started + 1
          /\ recent' = recent \cup {r.file}
          /\ job' = [job EXCEPT ![w] = j]
          /\ UNCHANGED <<disk, written, discarded, replaced>>
      BY <1>2 DEF CreateRecord
    <2> HIDE DEF r
    <2>5. j \in Job
      BY <2>1, <2>2 DEF Job
    <2> HIDE DEF j
    <2>6. job' \in [Worker -> Job \cup {Idle}]
      BY <1>0, <2>4, <2>5, JobsTyped
    <2>7. db' \in Database /\ db'.rows = db.rows \cup {r} /\ db'.sequence = r.pk
      BY <1>0, <2>2, <2>4 DEF TypeOK, Database, Row
    <2>8. \A s \in db.rows : s.pk < r.pk /\ s.file < r.file
      <3>1. \A s \in db.rows : s \in Row /\ s.pk <= db.sequence /\ s.file <= started
        BY <1>0 DEF TypeOK, Database, IInv, BasesSound, Base, RowSound
      <3>2. db.sequence \in Nat /\ \A s \in Row : s.pk \in Nat /\ s.file \in Nat
        BY <1>0 DEF TypeOK, Database, Row, File
      <3> QED
        BY <2>3, <3>1, <3>2, <1>0
    <2>9. /\ \A s, t \in db'.rows : s.pk = t.pk \/ s.file = t.file => s = t
          /\ \A s \in db'.rows : s.pk <= db'.sequence
      <3>1. r.pk \in Nat /\ r.file \in Nat /\ \A s \in db.rows : s.pk \in Nat /\ s.file \in Nat
        BY <1>0, <2>2 DEF TypeOK, Database, Row, File
      <3> QED
        BY <1>0, <2>7, <2>8, <3>1 DEF TypeOK
    <2> QED
      BY <1>0, <2>1, <2>3, <2>4, <2>6, <2>7, <2>9 DEF TypeOK, File
  <1>3. ASSUME NEW w \in Worker, Snapshot(w)
        PROVE  TypeOK'
    <2> DEFINE j == [job[w] EXCEPT !.snapshot = db, !.pc = "open"]
    <2>1. j \in Job
      BY <1>0, <1>3, JobTyped DEF Snapshot, At, Job, TypeOK
    <2> HIDE DEF j
    <2>2. job' = [job EXCEPT ![w] = j]
      BY <1>3 DEF Snapshot, j
    <2>3. job' \in [Worker -> Job \cup {Idle}]
      BY <1>0, <2>1, <2>2, JobsTyped
    <2> QED
      BY <1>0, <1>3, <2>3 DEF Snapshot, TypeOK
  <1>4. ASSUME NEW w \in Worker, OpenArchive(w)
        PROVE  TypeOK'
    <2>1. job' \in [Worker -> Job \cup {Idle}]
      BY <1>0, <1>4, GotoTyped DEF OpenArchive, At
    <2> QED
      BY <1>0, <1>4, <2>1 DEF OpenArchive, TypeOK
  <1>5. ASSUME NEW w \in Worker, CloseArchive(w)
        PROVE  TypeOK'
    <2> DEFINE j == [job[w] EXCEPT !.pc = "save", !.snapshot = Idle]
               archive == [kind |-> job[w].kind, db |-> job[w].snapshot]
    <2>1. j \in Job /\ archive \in Archive
      BY <1>0, <1>5, JobTyped DEF CloseArchive, At, Job, Archive
    <2>2. /\ job' = [job EXCEPT ![w] = j]
          /\ disk' = [disk EXCEPT ![job[w].row.file] = IF @ = Absent THEN Absent ELSE archive]
          /\ UNCHANGED <<db, started, recent, written, discarded, replaced>>
      BY <1>5 DEF CloseArchive
    <2> HIDE DEF j, archive
    <2>3. job' \in [Worker -> Job \cup {Idle}]
      BY <1>0, <2>1, <2>2, JobsTyped
    <2> QED
      BY <1>0, <2>1, <2>2, <2>3 DEF TypeOK
  <1>6. ASSUME NEW w \in Worker, RecordSuccess(w)
        PROVE  TypeOK'
    <2> DEFINE r == [job[w].row EXCEPT !.status = "success"]
               j == [job[w] EXCEPT !.row = r, !.pc = "retain"]
    <2>1. r \in Row
      BY <1>0, <1>6, JobTyped DEF RecordSuccess, At, Row, Status
    <2>2. CanSave(r) /\ db' = Saved(r) /\ job' = [job EXCEPT ![w] = j]
      BY <1>6 DEF RecordSuccess
    <2> HIDE DEF r
    <2>3. j \in Job
      BY <1>0, <1>6, <2>1, JobTyped DEF RecordSuccess, At, Job
    <2> HIDE DEF j
    <2>4. job' \in [Worker -> Job \cup {Idle}]
      BY <1>0, <2>2, <2>3, JobsTyped
    <2>5. db' \in Database /\ Tidy(db)'
      BY <1>0, <2>1, <2>2, SavedTyped
    <2> QED
      BY <1>0, <1>6, <2>4, <2>5 DEF RecordSuccess, TypeOK, Tidy
  <1>7. ASSUME NEW w \in Worker, RecordFailure(w)
        PROVE  TypeOK'
    <2> DEFINE r == [job[w].row EXCEPT !.status = "failed"]
               j == [job[w] EXCEPT !.pc = "undo", !.snapshot = Idle]
    <2>0. job[w] \in Job /\ job[w].row \in Row
      BY <1>0, <1>7, JobTyped DEF RecordFailure
    <2>1. r \in Row
      BY <2>0 DEF Row, Status
    <2>3. j \in Job
      BY <2>0 DEF Job
    <2>2. CanSave(r) /\ db' = Saved(r) /\ job' = [job EXCEPT ![w] = j]
      BY <1>7 DEF RecordFailure
    <2> HIDE DEF r, j
    <2>4. job' \in [Worker -> Job \cup {Idle}]
      BY <1>0, <2>2, <2>3, JobsTyped
    <2>5. db' \in Database /\ Tidy(db)'
      BY <1>0, <2>1, <2>2, SavedTyped
    <2> QED
      BY <1>0, <1>7, <2>4, <2>5 DEF RecordFailure, TypeOK, Tidy
  <1>8. ASSUME NEW w \in Worker, RemoveFailed(w)
        PROVE  TypeOK'
    <2>1. job' \in [Worker -> Job \cup {Idle}] /\ job[w].row.file \in File
      BY <1>0, <1>8, EndTyped, JobTyped DEF RemoveFailed, At
    <2>2. Whole(job[w].row.file) => job[w].row.file <= started
      BY <1>0, <2>1 DEF IInv, FilesSound, Whole
    <2>3. discarded' \subseteq 1 .. started
      <3>1. Whole(job[w].row.file) => job[w].row.file \in 1 .. started
        BY <1>0, <2>1, <2>2 DEF TypeOK, File
      <3> QED
        BY <1>0, <1>8, <3>1 DEF RemoveFailed, TypeOK
    <2>4. disk' \in [File -> Archive \cup {Absent, Partial}]
      BY <1>0, <1>8 DEF RemoveFailed, TypeOK
    <2> QED
      BY <1>0, <1>8, <2>1, <2>3, <2>4 DEF RemoveFailed, TypeOK
  <1>9. ASSUME NEW w \in Worker, SaveRefused(w) \/ Answer(w)
        PROVE  TypeOK'
    <2>1. job' \in [Worker -> Job \cup {Idle}]
      BY <1>0, <1>9, EndTyped DEF SaveRefused, Answer
    <2> QED
      BY <1>0, <1>9, <2>1 DEF SaveRefused, Answer, TypeOK
  <1>10. ASSUME NEW w \in Worker, ApplyRetention(w)
         PROVE  TypeOK'
    <2> DEFINE j == [job[w] EXCEPT !.stale = Stale, !.pc = "unlink"]
    <2>1. Stale \subseteq Row
      BY <1>0 DEF Stale, Success, TypeOK, Database
    <2>2. j \in Job
      BY <1>0, <1>10, <2>1, JobTyped DEF ApplyRetention, At, Job
    <2> HIDE DEF j
    <2>3. AfterRetention(w) \/ job' = [job EXCEPT ![w] = j]
      BY <1>10 DEF ApplyRetention, j
    <2>4. job' \in [Worker -> Job \cup {Idle}]
      BY <1>0, <1>10, <2>2, <2>3, JobsTyped, AfterRetentionTyped DEF ApplyRetention, At
    <2> QED
      BY <1>0, <1>10, <2>4 DEF ApplyRetention, TypeOK
  <1>11. ASSUME NEW w \in Worker, UnlinkStale(w)
         PROVE  TypeOK'
    <2>1. job' \in [Worker -> Job \cup {Idle}]
      BY <1>0, <1>11, GotoTyped DEF UnlinkStale, At
    <2>2. disk' \in [File -> Archive \cup {Absent, Partial}]
      BY <1>0, <1>11 DEF UnlinkStale, TypeOK
    <2> QED
      BY <1>0, <1>11, <2>1, <2>2 DEF UnlinkStale, TypeOK
  <1>12. ASSUME NEW w \in Worker, RemoveStale(w)
         PROVE  TypeOK'
    <2> DEFINE rest == job[w].stale \ NextStale(w)
               j == [job[w] EXCEPT !.stale = rest, !.pc = "unlink"]
    <2>1. PICK r \in NextStale(w) : db' = Deleted(r)
      BY <1>12 DEF RemoveStale
    <2>2. r \in Row
      BY <1>0, <1>12, JobTyped DEF RemoveStale, At, NextStale
    <2>3. db' \in Database /\ Tidy(db)'
      BY <1>0, <2>1, <2>2, DeletedTidy DEF TypeOK, Tidy
    <2>4. j \in Job
      BY <1>0, <1>12, JobTyped DEF RemoveStale, At, Job
    <2>5. AfterRetention(w) \/ job' = [job EXCEPT ![w] = j]
      BY <1>12 DEF RemoveStale
    <2> HIDE DEF j, rest
    <2>6. job' \in [Worker -> Job \cup {Idle}]
      BY <1>0, <1>12, <2>4, <2>5, JobsTyped, AfterRetentionTyped DEF RemoveStale, At
    <2> QED
      BY <1>0, <1>12, <2>3, <2>6 DEF RemoveStale, TypeOK, Tidy
  <1>13. ASSUME NEW w \in Worker, NEW r \in db.rows, BeginRestore(w, r)
         PROVE  TypeOK'
    <2>1. r.file \in File
      BY <1>0 DEF TypeOK, Database, Row
    <2>2. NewJob("pre_restore", r.file) \in Job
      BY <1>0, <2>1, NewJobTyped DEF Kind
    <2>3. job' \in [Worker -> Job \cup {Idle}]
      BY <1>0, <1>13, <2>2, JobsTyped DEF BeginRestore
    <2> QED
      BY <1>0, <1>13, <2>3 DEF BeginRestore, TypeOK
  <1>14. ASSUME NEW w \in Worker, ReplaceDatabase(w)
         PROVE  TypeOK'
    <2>1. job[w] \in Job /\ job[w].source \in File /\ job[w].row.file \in File
      BY <1>0, <1>14, JobTyped DEF ReplaceDatabase, At
    <2>2. db' \in Base /\ db' = disk[job[w].source].db
      BY <1>14, <2>1 DEF ReplaceDatabase, Base
    <2>3. db' \in Database /\ Tidy(db)'
      BY <1>0, <2>2, BaseTyped DEF IInv, BasesSound, Tidy
    <2>4. \A v \in Worker : job'[v] \in Job \cup {Idle}
      <3>1. [job[w] EXCEPT !.pc = "media"] \in Job
        BY <2>1 DEF Job
      <3>2. \A v \in Worker : job[v] # Idle =>
                [job[v] EXCEPT !.held = @ \cap disk[job[w].source].db.data] \in Job
        BY <1>0, JobTyped DEF Job
      <3> QED
        BY <1>14, <3>1, <3>2 DEF ReplaceDatabase
    <2>5. job' \in [Worker -> Job \cup {Idle}]
      BY <1>14, <2>4 DEF ReplaceDatabase
    <2>6. replaced' \subseteq [safety : File, held : SUBSET Write]
      BY <1>0, <1>14, <2>1 DEF ReplaceDatabase, TypeOK, Job
    <2> QED
      BY <1>0, <1>14, <2>3, <2>5, <2>6 DEF ReplaceDatabase, TypeOK, Tidy
  <1>15. ASSUME NEW w \in Worker, RestoreFails(w)
         PROVE  TypeOK'
    <2>1. job' \in [Worker -> Job \cup {Idle}]
      BY <1>0, <1>15, GotoTyped DEF RestoreFails
    <2> QED
      BY <1>0, <1>15, <2>1 DEF RestoreFails, TypeOK
  <1>16. ASSUME NEW w \in Worker, FindUnlisted(w)
         PROVE  TypeOK'
    <2>1. job' \in [Worker -> Job \cup {Idle}]
      BY <1>0, <1>16, AfterListingTyped DEF FindUnlisted, At
    <2> QED
      BY <1>0, <1>16, <2>1 DEF FindUnlisted, TypeOK
  <1>17. ASSUME NEW w \in Worker, ListArchive(w)
         PROVE  TypeOK'
    <2>1. PICK f \in NextUnlisted(w) :
            \/ AfterListing(w, job[w].unlisted \ {f}) /\ UNCHANGED db
            \/ End(w) /\ UNCHANGED db
            \/ /\ Whole(f) /\ f \notin Known
               /\ db' = Saved(NewRow(f, disk[f].kind, "success"))
               /\ AfterListing(w, job[w].unlisted \ {f})
      BY <1>17 DEF ListArchive
    <2>2. job[w] # Idle /\ job[w].unlisted \subseteq File /\ f \in File
      BY <1>0, <1>17, JobTyped DEF ListArchive, At, NextUnlisted, Job
    <2>3. job' \in [Worker -> Job \cup {Idle}]
      BY <1>0, <2>1, <2>2, AfterListingTyped, EndTyped
    <2>4. db' \in Database /\ Tidy(db)'
      <3>1. CASE UNCHANGED db
        BY <1>0, <3>1 DEF TypeOK, Tidy
      <3>2. CASE /\ Whole(f) /\ f \notin Known
                 /\ db' = Saved(NewRow(f, disk[f].kind, "success"))
        <4> DEFINE r == NewRow(f, disk[f].kind, "success")
        <4>1. r \in Row
          BY <1>0, <2>2, <3>2, NewRowTyped DEF TypeOK, Whole, Archive, Status
        <4>2. CanSave(r)
          BY <3>2 DEF CanSave, Known, NewRow
        <4> QED
          BY <1>0, <3>2, <4>1, <4>2, SavedTyped
      <3> QED
        BY <2>1, <3>1, <3>2
    <2> QED
      BY <1>0, <1>17, <2>3, <2>4 DEF ListArchive, TypeOK, Tidy
  <1>18. ASSUME NEW r \in db.rows, DeleteByHand(r)
         PROVE  TypeOK'
    <2>1. r \in Row /\ r.file \in File /\ r.file <= started
      BY <1>0 DEF TypeOK, Database, Row, IInv, BasesSound, Base, RowSound
    <2>2. db' \in Database /\ Tidy(db)'
      BY <1>0, <1>18, <2>1, DeletedTidy DEF DeleteByHand, TypeOK, Tidy
    <2>3. discarded' \subseteq 1 .. started
      <3>1. r.file \in 1 .. started
        BY <1>0, <2>1 DEF TypeOK, File
      <3> QED
        BY <1>0, <1>18, <3>1 DEF DeleteByHand, TypeOK
    <2>4. disk' \in [File -> Archive \cup {Absent, Partial}]
      BY <1>0, <1>18 DEF DeleteByHand, TypeOK
    <2> QED
      BY <1>0, <1>18, <2>2, <2>3, <2>4 DEF DeleteByHand, TypeOK, Tidy
  <1>19. ASSUME AppWrite
         PROVE  TypeOK'
    <2>1. written + 1 \in Write
      BY <1>0, <1>19, BackupsAssumption DEF AppWrite, TypeOK, Write
    <2>2. db' \in Database /\ db'.rows = db.rows /\ db'.sequence = db.sequence
      BY <1>0, <1>19, <2>1 DEF AppWrite, TypeOK, Database
    <2>3. written' \in 0 .. MaxWrites
      BY <1>19, <2>1, BackupsAssumption DEF AppWrite, Write
    <2> QED
      BY <1>0, <1>19, <2>2, <2>3 DEF AppWrite, TypeOK
  <1>20. ASSUME HoursPass \/ Crash
         PROVE  TypeOK'
    BY <1>0, <1>20 DEF HoursPass, Crash, TypeOK
  <1> QED
    BY <1>1, <1>2, <1>3, <1>4, <1>5, <1>6, <1>7, <1>8, <1>9, <1>10, <1>11, <1>12, <1>13, <1>14,
       <1>15, <1>16, <1>17, <1>18, <1>19, <1>20 DEF Next

-----------------------------------------------------------------------------
(* What every step keeps of the records, in the database and in the past *)

(* Only CreateRecord gives a job a file. *)
JobsGoOn ==
    \A w \in Worker, f \in File : Owns(w, f)' =>
        /\ Owns(w, f) /\ job'[w].source = job[w].source
        /\ job'[w].pc \in {"snapshot", "open"} => job[w].pc \in {"snapshot", "open"}

Progress ==
    /\ started <= started'
    /\ \A f \in 1 .. started : SafetyFile(f)' => SafetyFile(f)
    /\ \A f \in 1 .. started : disk[f] # Partial /\ ~Awaited(f) => disk'[f] # Partial /\ ~Awaited(f)'
    /\ \A n \in Nat : Backed(n) => Backed(n)'

LEMMA AwaitedGoesOn ==
    ASSUME JobsGoOn, NEW f \in File, Awaited(f)'
    PROVE  Awaited(f)
  BY DEF JobsGoOn, Awaited

LEMMA SafetyGoesOn ==
    ASSUME JobsGoOn, NEW f \in File, SafetyFile(f)',
           \A c \in replaced' : c \in replaced \/ SafetyFile(c.safety)
    PROVE  SafetyFile(f)
  <1>1. CASE \E c \in replaced' : c.safety = f
    BY <1>1 DEF SafetyFile
  <1>2. CASE \E w \in Worker : Owns(w, f)' /\ job'[w].source # NoFile
    BY <1>2 DEF JobsGoOn, SafetyFile
  <1> QED
    BY <1>1, <1>2 DEF SafetyFile

(* The steps that do not start a backup. *)
LEMMA ProgressMade ==
    ASSUME IInv, JobsGoOn, started' = started,
           \A c \in replaced' : c \in replaced \/ SafetyFile(c.safety),
           \A f \in File : disk'[f] = Partial => disk[f] = Partial \/ Awaited(f),
           \A f \in File : Whole(f) \/ f \in discarded => Backed(f)'
    PROVE  Progress /\ JobsApart' /\ \A f \in File : SafetyFile(f)' => SafetyFile(f)
  <1>1. started \in Nat /\ started <= started' /\ 1 .. started \subseteq File /\ File \subseteq Nat
    BY BackupsAssumption DEF IInv, TypeOK, File
  <1>2. \A f \in File : SafetyFile(f)' => SafetyFile(f)
    BY SafetyGoesOn
  <1>3. \A f \in File : disk[f] # Partial /\ ~Awaited(f) => disk'[f] # Partial /\ ~Awaited(f)'
    BY AwaitedGoesOn
  <1>4. ASSUME NEW n \in Nat, Backed(n)
        PROVE  Backed(n)'
    <2>1. PICK f \in File : n <= f /\ (Whole(f) \/ f \in discarded)
      BY <1>4 DEF Backed
    <2>2. PICK g \in File : f <= g /\ (Whole(g)' \/ g \in discarded')
      BY <2>1 DEF Backed
    <2>3. n <= g
      BY <1>1, <2>1, <2>2
    <2> QED
      BY <2>2, <2>3 DEF Backed
  <1>5. JobsApart'
    BY DEF IInv, JobsApart, JobsGoOn
  <1> QED
    BY <1>1, <1>2, <1>3, <1>4, <1>5 DEF Progress

LEMMA RowKept ==
    ASSUME IInv, Progress, started' \in Nat, NEW r \in Row, RowSound(r)
    PROVE  RowSound(r)'
  <1>1. r.file \in 1 .. started /\ r.file \in Nat /\ started \in Nat
    BY BackupsAssumption DEF IInv, TypeOK, RowSound, Row, File
  <1> QED
    BY <1>1 DEF RowSound, Progress

LEMMA StaleKept ==
    ASSUME IInv, Progress, started' \in Nat, NEW r \in Row, StaleSound(r)
    PROVE  StaleSound(r)'
  <1>1. r.file + 1 \in Nat
    BY DEF Row, File
  <1> QED
    BY <1>1, RowKept DEF StaleSound, Progress

LEMMA BasesKept ==
    ASSUME IInv, TypeOK', Progress,
           \A base \in Base' : base \in Base \/ base = db',
           \A r \in db'.rows : r \in db.rows \/ RowSound(r)'
    PROVE  BasesSound'
  <1>1. started' \in Nat
    BY DEF TypeOK
  <1>2. db \in Base /\ Base \subseteq Database
    BY BaseTyped DEF Base
  <1>3. \A base \in Base : \A r \in base.rows : RowSound(r)'
    BY <1>1, <1>2, RowKept DEF Database, IInv, BasesSound
  <1>4. Tidy(db)'
    BY DEF TypeOK, Tidy
  <1>5. ASSUME NEW base \in Base'
        PROVE  Tidy(base) /\ \A r \in base.rows : RowSound(r)'
    <2>1. CASE base \in Base
      BY <1>3, <2>1 DEF IInv, BasesSound
    <2>2. CASE base = db'
      BY <1>2, <1>3, <1>4, <2>2 DEF Tidy
    <2> QED
      BY <1>5, <2>1, <2>2
  <1> QED
    BY <1>5 DEF BasesSound, Tidy

(* The bases of a step that changes neither archives nor snapshots. *)
LEMMA BasesSame ==
    ASSUME \A f \in File : Whole(f)' => Whole(f) /\ disk'[f] = disk[f],
           \A w \in Worker : (At(w, "open") \/ At(w, "close"))' =>
               /\ At(w, "open") \/ At(w, "close")
               /\ job'[w].snapshot = job[w].snapshot
    PROVE  \A base \in Base' : base \in Base \/ base = db'
  BY DEF Base

(* The jobs of the other workers. *)
LEMMA JobKept ==
    ASSUME IInv, TypeOK', Progress, NEW w \in Worker, job[w] # Idle, job'[w] = job[w]
    PROVE  JobSound(w)'
  <1>1. JobSound(w) /\ started' \in Nat /\ \A r \in job[w].stale : r \in Row
    BY JobTyped DEF IInv, JobsSound, TypeOK
  <1>2. \A r \in Row : job'[w].row = r => RowSound(r)' /\ r.kind = job'[w].kind
    BY <1>1, RowKept DEF JobSound
  <1>3. \A r \in job'[w].stale : StaleSound(r)'
    BY <1>1, StaleKept DEF JobSound
  <1> QED
    BY <1>1, <1>2, <1>3 DEF JobSound

LEMMA DataKept ==
    ASSUME IInv, NEW w \in Worker, job[w] # Idle, job'[w] = job[w], db.data \subseteq db'.data
    PROVE  DataSound(w)'
  BY DEF IInv, JobsSound, DataSound

LEMMA FileKept ==
    ASSUME IInv, NEW w \in Worker, job[w] # Idle, job'[w] = job[w],
           \A f \in File : Owns(w, f) => disk'[f] = disk[f], discarded \subseteq discarded'
    PROVE  FileSound(w)'
  <1>1. FileSound(w)
    BY DEF IInv, JobsSound
  <1>2. \A f \in File : Owns(w, f)' => Owns(w, f)
    BY DEF Owns
  <1> QED
    BY <1>1, <1>2 DEF FileSound, Holds, Whole

(* A step of a backup after its archive, which keeps its file. *)
LEMMA ActorKept ==
    ASSUME IInv, TypeOK', Progress, NEW w \in Worker, job[w] # Idle, job'[w] # Idle,
           job[w].pc # "start", job'[w].pc \notin {"start", "snapshot", "open", "close"},
           \A r \in Row : job'[w].row = r => RowSound(r) /\ r.kind = job'[w].kind,
           \A f \in File : Owns(w, f)' => Owns(w, f),
           job'[w].row # Idle, job'[w].kind = job[w].kind,
           job'[w].source = job[w].source, job'[w].held = job[w].held,
           \A r \in job'[w].stale : StaleSound(r),
           job'[w].pc \in {"save", "retain", "unlink", "remove", "replace"} =>
               job[w].pc \in {"save", "retain", "unlink", "remove", "replace"},
           job'[w].pc = "replace" => job[w].source # NoFile,
           UNCHANGED <<disk, discarded>>
    PROVE  JobSound(w)' /\ FileSound(w)' /\ DataSound(w)'
  <1>1. JobSound(w) /\ FileSound(w) /\ started' \in Nat
    BY DEF IInv, JobsSound, TypeOK
  <1>2. job'[w].stale \subseteq Row
    BY DEF TypeOK, Job
  <1>3. \A r \in Row : job'[w].row = r => RowSound(r)' /\ r.kind = job'[w].kind
    BY <1>1, RowKept
  <1>4. \A r \in job'[w].stale : StaleSound(r)'
    BY <1>1, <1>2, StaleKept
  <1>5. JobSound(w)'
    BY <1>1, <1>3, <1>4 DEF JobSound
  <1>6. FileSound(w)'
    BY <1>1 DEF FileSound, Holds, Whole
  <1> QED
    BY <1>5, <1>6 DEF DataSound

-----------------------------------------------------------------------------
(* Steps that leave the archives alone and start no backup *)

Quiet == JobsGoOn /\ UNCHANGED <<disk, started, discarded, replaced>>

LEMMA QuietProgress ==
    ASSUME IInv, Quiet
    PROVE  Progress /\ JobsApart' /\ FilesSound' /\ SafetyKept'
  <1>1. \A f \in File : Whole(f) \/ f \in discarded => Backed(f)'
    BY DEF Quiet, Backed, Whole, File
  <1>2. Progress /\ JobsApart' /\ \A f \in File : SafetyFile(f)' => SafetyFile(f)
    BY <1>1, ProgressMade DEF Quiet
  <1>3. FilesSound'
    BY <1>2 DEF Quiet, IInv, FilesSound, Whole
  <1>4. SafetyKept'
    BY DEF Quiet, IInv, SafetyKept, Whole
  <1> QED
    BY <1>2, <1>3, <1>4

LEMMA QuietInv ==
    ASSUME IInv, TypeOK', Quiet, recent' \in {recent, {}}, db.data \subseteq db'.data,
           \A r \in db'.rows : r \in db.rows \/ RowSound(r),
           \A base \in Base' : base \in Base \/ base = db',
           \A w \in Worker : job'[w] # Idle =>
               job'[w] = job[w] \/ (JobSound(w)' /\ FileSound(w)' /\ DataSound(w)')
    PROVE  IInv'
  <1>1. Progress /\ JobsApart' /\ FilesSound' /\ SafetyKept'
    BY QuietProgress
  <1>2. \A r \in db'.rows : r \in db.rows \/ RowSound(r)'
    <2>1. db'.rows \subseteq Row /\ started' \in Nat
      BY DEF TypeOK, Database
    <2> QED
      BY <1>1, <2>1, RowKept
  <1>3. BasesSound'
    BY <1>1, <1>2, BasesKept
  <1>4. ASSUME NEW w \in Worker, job'[w] # Idle
        PROVE  JobSound(w)' /\ FileSound(w)' /\ DataSound(w)'
    <2>1. CASE job'[w] = job[w]
      BY <1>1, <1>4, <2>1, JobKept, FileKept, DataKept DEF Quiet
    <2> QED
      BY <1>4, <2>1
  <1>5. JobsSound'
    BY <1>4 DEF JobsSound
  <1>6. RecentSound'
    BY DEF Quiet, IInv, RecentSound
  <1> QED
    BY <1>1, <1>3, <1>5, <1>6 DEF IInv

(* A request that begins. *)
LEMMA BeginInv ==
    ASSUME IInv, TypeOK', NEW w \in Worker, NEW kind \in Kind, NEW source \in File \cup {NoFile},
           kind = "pre_restore" <=> source # NoFile,
           job[w] = Idle, job' = [job EXCEPT ![w] = NewJob(kind, source)],
           UNCHANGED <<db, disk, started, recent, written, discarded, replaced>>
    PROVE  IInv'
  <1> DEFINE j == NewJob(kind, source)
  <1>1. /\ job'[w] = j
        /\ \A v \in Worker \ {w} : job'[v] = job[v]
    BY DEF IInv, TypeOK
  <1>2. /\ j.pc = "start" /\ j.row = Idle /\ j.kind = kind /\ j.source = source
        /\ j.stale = {} /\ j.held \subseteq db.data
    BY DEF NewJob
  <1> HIDE DEF j
  <1>3. Quiet
    BY <1>1, <1>2 DEF Quiet, JobsGoOn, Owns
  <1>4. \A base \in Base' : base \in Base \/ base = db'
    BY <1>1, <1>2, BasesSame DEF At, Whole
  <1>5. JobSound(w)'
    BY <1>1, <1>2, BackupsAssumption DEF JobSound
  <1>6. FileSound(w)' /\ DataSound(w)'
    BY <1>1, <1>2 DEF FileSound, DataSound, Owns
  <1> QED
    BY <1>1, <1>3, <1>4, <1>5, <1>6, QuietInv

(* A request that ends, or all of them. *)
LEMMA EndInv ==
    ASSUME IInv, TypeOK', UNCHANGED <<disk, started, recent, discarded, replaced>>,
           \A w \in Worker : job'[w] \in {job[w], Idle},
           db.data \subseteq db'.data, db'.rows \subseteq db.rows
    PROVE  IInv'
  <1>1. Quiet
    BY DEF Quiet, JobsGoOn, Owns
  <1>2. \A base \in Base' : base \in Base \/ base = db'
    BY BasesSame DEF At, Whole
  <1> QED
    BY <1>1, <1>2, QuietInv

(* A step of a job after its archive. *)
LEMMA ActorInv ==
    ASSUME IInv, TypeOK', NEW w \in Worker, job[w] # Idle, job'[w] # Idle,
           \A v \in Worker \ {w} : job'[v] = job[v],
           job[w].pc # "start", job'[w].pc \notin {"start", "snapshot", "open", "close"},
           \A r \in Row : job'[w].row = r => RowSound(r) /\ r.kind = job'[w].kind,
           job'[w].row.file = job[w].row.file, job'[w].row # Idle, job'[w].kind = job[w].kind,
           job'[w].source = job[w].source, job'[w].held = job[w].held,
           \A r \in job'[w].stale : StaleSound(r),
           job'[w].pc \in {"save", "retain", "unlink", "remove", "replace"} =>
               job[w].pc \in {"save", "retain", "unlink", "remove", "replace"},
           job'[w].pc = "replace" => job[w].source # NoFile,
           UNCHANGED <<disk, started, recent, discarded, replaced>>,
           db.data \subseteq db'.data,
           \A r \in db'.rows : r \in db.rows \/ RowSound(r)
    PROVE  IInv'
  <1>1. job[w].row # Idle
    BY JobTyped, BackupsAssumption
  <1>2. \A v \in Worker, f \in File : Owns(v, f)' => Owns(v, f)
    BY <1>1 DEF Owns
  <1>3. Quiet
    BY <1>2 DEF Quiet, JobsGoOn
  <1>4. \A base \in Base' : base \in Base \/ base = db'
    BY BasesSame DEF At, Whole
  <1>5. Progress
    BY <1>3, QuietProgress
  <1>6. JobSound(w)' /\ FileSound(w)' /\ DataSound(w)'
    BY <1>2, <1>5, ActorKept
  <1> QED
    BY <1>3, <1>4, <1>6, QuietInv

LEMMA SnapshotInv ==
    ASSUME IInv, TypeOK', NEW w \in Worker, Snapshot(w)
    PROVE  IInv'
  <1> DEFINE j == [job[w] EXCEPT !.snapshot = db, !.pc = "open"]
  <1>1. /\ job[w] \in Job /\ job[w] # Idle /\ job[w].pc = "snapshot" /\ job[w].row \in Row
        /\ JobSound(w) /\ FileSound(w) /\ DataSound(w)
    BY JobTyped DEF Snapshot, At, IInv, JobsSound
  <1>2. /\ j.pc = "open" /\ j.snapshot = db /\ j.row = job[w].row /\ j.kind = job[w].kind
        /\ j.source = job[w].source /\ j.held = job[w].held /\ j.stale = job[w].stale
    BY <1>1 DEF Job
  <1>3. /\ job' = [job EXCEPT ![w] = j]
        /\ UNCHANGED <<db, disk, started, recent, written, discarded, replaced>>
    BY DEF Snapshot
  <1> HIDE DEF j
  <1>4. /\ job'[w] = j
        /\ \A v \in Worker \ {w} : job'[v] = job[v]
    BY <1>3 DEF IInv, TypeOK
  <1>5. Quiet
    BY <1>1, <1>2, <1>3, <1>4 DEF Quiet, JobsGoOn, Owns
  <1>6. Progress
    BY <1>5, QuietProgress
  <1>7. \A base \in Base' : base \in Base \/ base = db'
    BY <1>2, <1>3, <1>4 DEF Base, At, Whole
  <1>8. JobSound(w)'
    <2>1. db # Idle /\ started' \in Nat /\ job[w].stale \subseteq Row
      BY <1>1, BackupsAssumption DEF IInv, TypeOK, Job
    <2>2. \A r \in Row : job'[w].row = r => RowSound(r)' /\ r.kind = job'[w].kind
      BY <1>1, <1>2, <1>4, <1>6, <2>1, RowKept DEF JobSound
    <2>3. \A r \in job'[w].stale : StaleSound(r)'
      BY <1>1, <1>2, <1>4, <1>6, <2>1, StaleKept DEF JobSound
    <2> QED
      BY <1>1, <1>2, <1>4, <2>1, <2>2, <2>3 DEF JobSound
  <1>9. FileSound(w)' /\ DataSound(w)'
    BY <1>1, <1>2, <1>3, <1>4 DEF FileSound, DataSound, Owns
  <1> QED
    BY <1>3, <1>4, <1>5, <1>7, <1>8, <1>9, QuietInv

LEMMA RecordSuccessInv ==
    ASSUME IInv, TypeOK', NEW w \in Worker, RecordSuccess(w)
    PROVE  IInv'
  <1> DEFINE r == [job[w].row EXCEPT !.status = "success"]
             j == [job[w] EXCEPT !.row = r, !.pc = "retain"]
  <1>1. /\ job[w] \in Job /\ job[w] # Idle /\ job[w].pc = "save"
        /\ job[w].row \in Row /\ job[w].row.file \in File
        /\ JobSound(w)
    BY JobTyped DEF RecordSuccess, At, IInv, JobsSound
  <1>2. r \in Row /\ r.file = job[w].row.file /\ r.kind = job[w].row.kind /\ r.status = "success"
    BY <1>1 DEF Row, Status
  <1>3. /\ job' = [job EXCEPT ![w] = j]
        /\ Whole(r.file) /\ CanSave(r) /\ db' = Saved(r)
        /\ UNCHANGED <<disk, started, recent, written, discarded, replaced>>
    BY DEF RecordSuccess
  <1> HIDE DEF r
  <1>4. /\ j.pc = "retain" /\ j.row = r /\ j.kind = job[w].kind
        /\ j.source = job[w].source /\ j.held = job[w].held /\ j.stale = job[w].stale
    BY <1>1 DEF Job
  <1> HIDE DEF j
  <1>5. /\ job'[w] = j
        /\ \A v \in Worker \ {w} : job'[v] = job[v]
    BY <1>3 DEF IInv, TypeOK
  <1>6. RowSound(r)
    <2>1. RowSound(job[w].row)
      BY <1>1 DEF JobSound
    <2>2. ~Awaited(r.file)
      BY <1>1, <1>2, BackupsAssumption DEF Awaited, Owns, IInv, JobsApart
    <2>3. Backed(r.file) /\ disk[r.file] # Partial
      BY <1>1, <1>2, <1>3 DEF Backed, Whole, File
    <2> QED
      BY <1>2, <2>1, <2>2, <2>3 DEF RowSound
  <1>7. db.data \subseteq db'.data /\ \A s \in db'.rows : s \in db.rows \/ s = r
    BY <1>2, <1>3, SavedTyped
  <1>8. r # Idle /\ r.kind = job[w].kind
    BY <1>1, <1>2, BackupsAssumption DEF JobSound
  <1>9. \A s \in job[w].stale : StaleSound(s)
    BY <1>1 DEF JobSound
  <1>10. j # Idle
    BY <1>1, <1>2, BackupsAssumption DEF j, Job
  <1> QED
    BY <1>1, <1>2, <1>3, <1>4, <1>5, <1>6, <1>7, <1>8, <1>9, <1>10, ActorInv

LEMMA RecordFailureInv ==
    ASSUME IInv, TypeOK', NEW w \in Worker, RecordFailure(w)
    PROVE  IInv'
  <1> DEFINE r == [job[w].row EXCEPT !.status = "failed"]
             j == [job[w] EXCEPT !.pc = "undo", !.snapshot = Idle]
  <1>1. /\ job[w] \in Job /\ job[w] # Idle
        /\ job[w].pc \in {"snapshot", "open", "close", "save"}
        /\ job[w].row \in Row /\ JobSound(w)
    BY JobTyped DEF RecordFailure, IInv, JobsSound
  <1>2. r \in Row /\ r.file = job[w].row.file /\ r.kind = job[w].row.kind /\ r.status = "failed"
    BY <1>1 DEF Row, Status
  <1>3. /\ job' = [job EXCEPT ![w] = j]
        /\ CanSave(r) /\ db' = Saved(r)
        /\ UNCHANGED <<disk, started, recent, written, discarded, replaced>>
    BY DEF RecordFailure
  <1>4. /\ j \in Job /\ j.pc = "undo" /\ j.row = job[w].row /\ j.kind = job[w].kind
        /\ j.source = job[w].source /\ j.held = job[w].held /\ j.stale = job[w].stale
    BY <1>1 DEF Job
  <1> HIDE DEF r, j
  <1>5. /\ job'[w] = j
        /\ \A v \in Worker \ {w} : job'[v] = job[v]
    BY <1>3 DEF IInv, TypeOK
  <1>6. RowSound(r) /\ \A s \in Row : job[w].row = s => RowSound(s) /\ s.kind = job[w].kind
    BY <1>1, <1>2 DEF JobSound, RowSound
  <1>7. db.data \subseteq db'.data /\ \A s \in db'.rows : s \in db.rows \/ s = r
    BY <1>2, <1>3, SavedTyped
  <1>8. \A s \in job[w].stale : StaleSound(s)
    BY <1>1 DEF JobSound
  <1>9. j # Idle /\ j.row # Idle
    BY <1>1, <1>4, BackupsAssumption
  <1> QED
    BY <1>1, <1>3, <1>4, <1>5, <1>6, <1>7, <1>8, <1>9, ActorInv

(* A step of a job after its archive that changes only where it is, what it
   removes and what it lists. *)
LEMMA MovesInv ==
    ASSUME IInv, TypeOK', NEW w \in Worker, job[w] # Idle,
           NEW pc \in {"unlink", "replace", "answer", "sync"}, NEW stale \in SUBSET Row,
           NEW unlisted \in SUBSET File,
           job' = [job EXCEPT ![w] = [@ EXCEPT !.pc = pc, !.stale = stale, !.unlisted = unlisted]],
           job[w].pc # "start",
           \A r \in stale : StaleSound(r),
           pc \in {"unlink", "replace"} => job[w].pc \in {"retain", "remove"},
           pc = "replace" => job[w].source # NoFile,
           UNCHANGED <<disk, started, recent, discarded, replaced>>,
           db.data \subseteq db'.data,
           \A r \in db'.rows : r \in db.rows \/ RowSound(r)
    PROVE  IInv'
  <1> DEFINE j == [job[w] EXCEPT !.pc = pc, !.stale = stale, !.unlisted = unlisted]
  <1>1. job[w] \in Job /\ job[w].row \in Row /\ JobSound(w)
    BY JobTyped DEF IInv, JobsSound
  <1>2. /\ j \in Job /\ j.pc = pc /\ j.row = job[w].row /\ j.kind = job[w].kind
        /\ j.source = job[w].source /\ j.held = job[w].held /\ j.stale = stale
    BY <1>1 DEF Job
  <1>3. job' = [job EXCEPT ![w] = j]
    OBVIOUS
  <1> HIDE DEF j
  <1>4. /\ job'[w] = j
        /\ \A v \in Worker \ {w} : job'[v] = job[v]
    BY <1>3 DEF IInv, TypeOK
  <1>5. \A r \in Row : job[w].row = r => RowSound(r) /\ r.kind = job[w].kind
    BY <1>1 DEF JobSound
  <1>6. j # Idle /\ j.row # Idle
    BY <1>1, <1>2, BackupsAssumption
  <1>7. /\ job'[w].pc \notin {"start", "snapshot", "open", "close"}
        /\ job'[w].pc \in {"save", "retain", "unlink", "remove", "replace"} =>
              job[w].pc \in {"save", "retain", "unlink", "remove", "replace"}
        /\ job'[w].pc = "replace" => job[w].source # NoFile
    BY <1>2, <1>4
  <1>8. /\ \A r \in job'[w].stale : StaleSound(r)
        /\ \A r \in Row : job'[w].row = r => RowSound(r) /\ r.kind = job'[w].kind
        /\ job'[w] # Idle /\ job'[w].row # Idle /\ job'[w].row.file = job[w].row.file
        /\ job'[w].kind = job[w].kind /\ job'[w].source = job[w].source
        /\ job'[w].held = job[w].held
    BY <1>2, <1>4, <1>5, <1>6
  <1> QED
    BY <1>4, <1>7, <1>8, ActorInv

-----------------------------------------------------------------------------
(* Steps that change one file *)

FileStep(f) ==
    /\ JobsGoOn /\ UNCHANGED <<started, recent, replaced>>
    /\ f <= started /\ \A g \in File \ {f} : disk'[g] = disk[g]
    /\ discarded \subseteq discarded'
    /\ disk'[f] = Partial => disk[f] = Partial \/ Awaited(f)
    /\ Whole(f) \/ f \in discarded => Backed(f)'
    /\ SafetyFile(f) =>
          /\ Whole(f)' => disk'[f].kind = "pre_restore"
          /\ f \in discarded => f \in discarded'
          /\ Whole(f) => (Whole(f)' /\ disk'[f].db = disk[f].db) \/ f \in discarded'

LEMMA FileProgress ==
    ASSUME IInv, NEW f \in File, FileStep(f)
    PROVE  Progress /\ JobsApart' /\ FilesSound' /\ RecentSound' /\ SafetyKept'
  <1>1. \A g \in File : Whole(g) \/ g \in discarded => Backed(g)'
    <2> SUFFICES ASSUME NEW g \in File \ {f}, Whole(g) \/ g \in discarded
                 PROVE  Backed(g)'
      BY DEF FileStep
    <2>1. Whole(g)' \/ g \in discarded'
      BY DEF FileStep, Whole
    <2> QED
      BY <2>1 DEF Backed, File
  <1>2. /\ Progress /\ JobsApart'
        /\ \A g \in File : SafetyFile(g)' => SafetyFile(g)
    BY <1>1, ProgressMade DEF FileStep
  <1>3. FilesSound'
    BY <1>2 DEF FileStep, IInv, FilesSound, Whole
  <1>4. RecentSound'
    BY DEF FileStep, IInv, RecentSound
  <1>5. SafetyKept'
    BY DEF FileStep, IInv, SafetyKept, Whole, SafetyFile, TypeOK
  <1> QED
    BY <1>2, <1>3, <1>4, <1>5

LEMMA FileInv ==
    ASSUME IInv, TypeOK', NEW f \in File, FileStep(f),
           db'.data = db.data, db'.rows \subseteq db.rows,
           \A base \in Base' : base \in Base \/ base = db',
           \A w \in Worker : job'[w] # Idle =>
               \/ job'[w] = job[w] /\ (Owns(w, f) => FileSound(w)')
               \/ JobSound(w)' /\ FileSound(w)' /\ DataSound(w)'
    PROVE  IInv'
  <1>1. Progress /\ JobsApart' /\ FilesSound' /\ RecentSound' /\ SafetyKept'
    BY FileProgress
  <1>2. BasesSound'
    BY <1>1, BasesKept
  <1>3. ASSUME NEW w \in Worker, job'[w] # Idle, job'[w] = job[w], Owns(w, f) => FileSound(w)'
        PROVE  JobSound(w)' /\ FileSound(w)' /\ DataSound(w)'
    <2>1. CASE Owns(w, f)
      BY <1>1, <1>3, <2>1, JobKept, DataKept
    <2>2. CASE ~Owns(w, f)
      <3>1. \A g \in File : Owns(w, g) => disk'[g] = disk[g]
        BY <2>2 DEF FileStep
      <3> QED
        BY <1>1, <1>3, <3>1, JobKept, DataKept, FileKept DEF FileStep
    <2> QED
      BY <2>1, <2>2
  <1>4. JobsSound'
    BY <1>3 DEF JobsSound
  <1> QED
    BY <1>1, <1>2, <1>4 DEF IInv

(* The worker itself, which goes on with the same record. *)
LEMMA GoesOn ==
    ASSUME IInv, TypeOK', Progress, NEW w \in Worker, job[w] # Idle,
           job[w].pc # "start", job'[w].pc \notin {"start", "open", "replace"},
           job'[w].row = job[w].row, job'[w].kind = job[w].kind,
           job'[w].source = job[w].source, job'[w].stale = job[w].stale,
           job'[w].pc = "close" => job'[w].snapshot # Idle
    PROVE  JobSound(w)'
  <1>1. JobSound(w) /\ started' \in Nat /\ job[w].stale \subseteq Row
    BY JobTyped DEF IInv, JobsSound, TypeOK
  <1>2. \A r \in Row : job'[w].row = r => RowSound(r)' /\ r.kind = job'[w].kind
    BY <1>1, RowKept DEF JobSound
  <1>3. \A r \in job'[w].stale : StaleSound(r)'
    BY <1>1, StaleKept DEF JobSound
  <1> QED
    BY <1>1, <1>2, <1>3 DEF JobSound

LEMMA GotoMoves ==
    ASSUME IInv, NEW w \in Worker, job[w] # Idle, NEW pc \in {"close", "remove"}, Goto(w, pc)
    PROVE  /\ \A v \in Worker \ {w} : job'[v] = job[v]
           /\ job'[w].pc = pc /\ job'[w].row = job[w].row /\ job'[w].kind = job[w].kind
           /\ job'[w].source = job[w].source /\ job'[w].stale = job[w].stale
           /\ job'[w].snapshot = job[w].snapshot /\ job'[w].held = job[w].held
  <1> DEFINE j == [job[w] EXCEPT !.pc = pc]
  <1>1. job[w] \in Job
    BY JobTyped
  <1>2. /\ j.pc = pc /\ j.row = job[w].row /\ j.kind = job[w].kind
        /\ j.source = job[w].source /\ j.stale = job[w].stale
        /\ j.snapshot = job[w].snapshot /\ j.held = job[w].held
    BY <1>1 DEF Job
  <1>3. job' = [job EXCEPT ![w] = j]
    BY DEF Goto
  <1> HIDE DEF j
  <1> QED
    BY <1>2, <1>3 DEF IInv, TypeOK

LEMMA OpenArchiveInv ==
    ASSUME IInv, TypeOK', NEW w \in Worker, OpenArchive(w)
    PROVE  IInv'
  <1> DEFINE f == job[w].row.file
  <1>1. PICK g \in File : g = f
    BY JobTyped DEF OpenArchive, At
  <1>2. /\ job[w] \in Job /\ job[w] # Idle /\ job[w].pc = "open" /\ job[w].row \in Row
        /\ job[w].snapshot \in Database
        /\ JobSound(w) /\ FileSound(w) /\ DataSound(w)
    BY JobTyped DEF OpenArchive, At, IInv, JobsSound
  <1>3. Owns(w, g) /\ \A h \in File : Owns(w, h) => h = g
    BY <1>1, <1>2, BackupsAssumption DEF Owns
  <1>4. disk[g] = Absent /\ Awaited(g)
    BY <1>2, <1>3 DEF FileSound, Awaited
  <1>5. /\ \A v \in Worker \ {w} : job'[v] = job[v]
        /\ job'[w].pc = "close" /\ job'[w].row = job[w].row /\ job'[w].kind = job[w].kind
        /\ job'[w].source = job[w].source /\ job'[w].stale = job[w].stale
        /\ job'[w].snapshot = job[w].snapshot /\ job'[w].held = job[w].held
    BY <1>2, GotoMoves DEF OpenArchive
  <1>6. /\ disk'[g] = Partial
        /\ \A h \in File \ {g} : disk'[h] = disk[h]
        /\ UNCHANGED <<db, started, recent, written, discarded, replaced>>
    BY <1>1 DEF OpenArchive, IInv, TypeOK
  <1>7. ~Whole(g) /\ ~Whole(g)'
    BY <1>4, <1>6 DEF Whole
  <1>8. JobsGoOn
    BY <1>2, <1>5 DEF JobsGoOn, Owns
  <1>9. g <= started
    BY <1>1, <1>2 DEF JobSound, RowSound
  <1>10. g \in discarded => Backed(g)'
    BY <1>6 DEF Backed, File
  <1>11. FileStep(g)
    BY <1>4, <1>6, <1>7, <1>8, <1>9, <1>10 DEF FileStep
  <1>12. \A base \in Base' : base \in Base \/ base = db'
    <2>1. \A h \in File : Whole(h)' => Whole(h) /\ disk'[h] = disk[h]
      BY <1>6, <1>7 DEF Whole
    <2> QED
      BY <1>2, <1>5, <2>1, BasesSame DEF At
  <1>13. JobSound(w)'
    BY <1>2, <1>5, <1>11, FileProgress, GoesOn, BackupsAssumption
  <1>14. FileSound(w)' /\ DataSound(w)'
    <2>1. \A h \in File : Owns(w, h)' => h = g
      BY <1>2, <1>3, <1>5 DEF Owns
    <2> QED
      BY <1>2, <1>5, <1>6, <2>1 DEF FileSound, DataSound
  <1>15. \A v \in Worker \ {w} : ~Owns(v, g)
    BY <1>3 DEF IInv, JobsApart
  <1> QED
    BY <1>5, <1>6, <1>11, <1>12, <1>13, <1>14, <1>15, FileInv

LEMMA CloseArchiveInv ==
    ASSUME IInv, TypeOK', NEW w \in Worker, CloseArchive(w)
    PROVE  IInv'
  <1> DEFINE archive == [kind |-> job[w].kind, db |-> job[w].snapshot]
             j == [job[w] EXCEPT !.pc = "save", !.snapshot = Idle]
  <1>1. PICK g \in File : g = job[w].row.file
    BY JobTyped DEF CloseArchive, At
  <1>2. /\ job[w] \in Job /\ job[w] # Idle /\ job[w].pc = "close" /\ job[w].row \in Row
        /\ job[w].snapshot \in Database
        /\ JobSound(w) /\ FileSound(w) /\ DataSound(w)
    BY JobTyped DEF CloseArchive, At, IInv, JobsSound
  <1>3. Owns(w, g) /\ \A h \in File : Owns(w, h) => h = g
    BY <1>1, <1>2, BackupsAssumption DEF Owns
  <1>4. disk[g] = Partial \/ (disk[g] = Absent /\ g \in discarded)
    BY <1>2, <1>3 DEF FileSound
  <1>5. /\ j.pc = "save" /\ j.row = job[w].row /\ j.kind = job[w].kind
        /\ j.source = job[w].source /\ j.stale = job[w].stale /\ j.held = job[w].held
    BY <1>2 DEF Job
  <1>6. /\ job' = [job EXCEPT ![w] = j]
        /\ disk' = [disk EXCEPT ![g] = IF @ = Absent THEN Absent ELSE archive]
        /\ UNCHANGED <<db, started, recent, written, discarded, replaced>>
    BY <1>1 DEF CloseArchive
  <1>7. /\ archive \in Archive /\ archive.db = job[w].snapshot /\ archive.kind = job[w].kind
    BY <1>2 DEF Archive, Job
  <1> HIDE DEF j, archive
  <1>8. /\ job'[w] = j
        /\ \A v \in Worker \ {w} : job'[v] = job[v]
    BY <1>6 DEF IInv, TypeOK
  <1>9. /\ \/ disk'[g] = archive
           \/ disk'[g] = Absent /\ g \in discarded
        /\ \A h \in File \ {g} : disk'[h] = disk[h]
    BY <1>4, <1>6, BackupsAssumption DEF IInv, TypeOK
  <1>10. /\ ~Whole(g)
         /\ disk'[g] # Partial
         /\ Whole(g)' => disk'[g] = archive
         /\ Whole(g)' \/ g \in discarded
    BY <1>4, <1>7, <1>9, BackupsAssumption DEF Whole
  <1>11. JobsGoOn
    BY <1>2, <1>5, <1>8 DEF JobsGoOn, Owns
  <1>12. g <= started /\ SafetyFile(g) => archive.kind = "pre_restore"
    BY <1>1, <1>2, <1>7 DEF JobSound, RowSound
  <1>13. FileStep(g)
    <2>1. g <= started
      BY <1>1, <1>2 DEF JobSound, RowSound
    <2>2. Backed(g)'
      BY <1>6, <1>10 DEF Backed, File
    <2> QED
      BY <1>6, <1>9, <1>10, <1>11, <1>12, <2>1, <2>2 DEF FileStep
  <1>14. \A base \in Base' : base \in Base \/ base = db'
    <2>1. job[w].snapshot \in Base
      BY <1>2 DEF Base, At
    <2>2. \A h \in File : Whole(h)' => (Whole(h) /\ disk'[h] = disk[h]) \/ disk'[h].db \in Base
      BY <1>7, <1>9, <1>10, <2>1 DEF Whole
    <2>3. \A v \in Worker : (At(v, "open") \/ At(v, "close"))' =>
              (At(v, "open") \/ At(v, "close")) /\ job'[v].snapshot = job[v].snapshot
      BY <1>5, <1>8 DEF At
    <2> QED
      BY <2>2, <2>3 DEF Base
  <1>15. JobSound(w)'
    BY <1>2, <1>5, <1>8, <1>13, FileProgress, GoesOn
  <1>16. FileSound(w)' /\ DataSound(w)'
    <2>1. \A h \in File : Owns(w, h)' => h = g
      BY <1>2, <1>3, <1>5, <1>8 DEF Owns
    <2>2. job[w].held \subseteq job[w].snapshot.data
      BY <1>2 DEF DataSound
    <2> QED
      BY <1>5, <1>6, <1>7, <1>8, <1>10, <2>1, <2>2 DEF FileSound, DataSound, Holds
  <1>17. \A v \in Worker \ {w} : ~Owns(v, g)
    BY <1>3 DEF IInv, JobsApart
  <1> QED
    BY <1>6, <1>8, <1>13, <1>14, <1>15, <1>16, <1>17, FileInv

LEMMA RemoveFailedInv ==
    ASSUME IInv, TypeOK', NEW w \in Worker, RemoveFailed(w)
    PROVE  IInv'
  <1>1. PICK g \in File : g = job[w].row.file
    BY JobTyped DEF RemoveFailed, At
  <1>2. /\ job[w] # Idle /\ job[w].pc = "undo" /\ job[w].row \in Row /\ JobSound(w)
    BY JobTyped DEF RemoveFailed, At, IInv, JobsSound
  <1>3. Owns(w, g) /\ \A v \in Worker \ {w} : ~Owns(v, g)
    BY <1>1, <1>2, BackupsAssumption DEF Owns, IInv, JobsApart
  <1>4. /\ disk' = [disk EXCEPT ![g] = Absent]
        /\ discarded' = IF Whole(g) THEN discarded \cup {g} ELSE discarded
        /\ job' = [job EXCEPT ![w] = Idle]
        /\ UNCHANGED <<db, started, recent, written, replaced>>
    BY <1>1 DEF RemoveFailed, End
  <1>5. /\ job'[w] = Idle
        /\ \A v \in Worker \ {w} : job'[v] = job[v]
        /\ disk'[g] = Absent
        /\ \A h \in File \ {g} : disk'[h] = disk[h]
    BY <1>4 DEF IInv, TypeOK
  <1>6. JobsGoOn
    BY <1>5 DEF JobsGoOn, Owns
  <1>7. ~Whole(g)' /\ disk'[g] # Partial
    BY <1>5, BackupsAssumption DEF Whole
  <1>8. FileStep(g)
    <2>1. g <= started
      BY <1>1, <1>2 DEF JobSound, RowSound
    <2>2. Whole(g) \/ g \in discarded => Backed(g)'
      BY <1>4 DEF Backed, File
    <2>3. SafetyFile(g) /\ Whole(g) => g \in discarded'
      BY <1>4
    <2> QED
      BY <1>4, <1>5, <1>6, <1>7, <2>1, <2>2, <2>3 DEF FileStep
  <1>9. \A base \in Base' : base \in Base \/ base = db'
    <2>1. \A h \in File : Whole(h)' => Whole(h) /\ disk'[h] = disk[h]
      BY <1>5, <1>7 DEF Whole
    <2> QED
      BY <1>5, <2>1, BasesSame DEF At
  <1> QED
    BY <1>3, <1>4, <1>5, <1>8, <1>9, FileInv

(* The file of a stale record is no safety copy, and no job writes it. *)
LEMMA StaleFile ==
    ASSUME IInv, NEW f \in File, NEW r \in Row, r.file = f, StaleSound(r),
           NEW w \in Worker, Owns(w, f), job'[w] # Idle, disk'[f] = Absent,
           job'[w].row = job[w].row, job'[w].source = job[w].source,
           discarded \subseteq discarded',
           job'[w].pc \in {"snapshot", "open", "close"} => job'[w].pc = job[w].pc
    PROVE  FileSound(w)'
  <1>1. disk[f] # Partial /\ ~SafetyFile(f)
    BY DEF StaleSound, RowSound, Kind
  <1>2. job[w].source = NoFile
    BY <1>1 DEF SafetyFile
  <1>3. FileSound(w)
    BY DEF IInv, JobsSound, Owns
  <1>4. \A g \in File : Owns(w, g)' => g = f
    BY DEF Owns
  <1> QED
    BY <1>1, <1>2, <1>3, <1>4 DEF FileSound

LEMMA UnlinkStaleInv ==
    ASSUME IInv, TypeOK', NEW w \in Worker, UnlinkStale(w)
    PROVE  IInv'
  <1>1. PICK r \in NextStale(w) : disk' = [disk EXCEPT ![r.file] = Absent]
    BY DEF UnlinkStale
  <1>2. /\ job[w] # Idle /\ job[w].pc = "unlink" /\ JobSound(w) /\ FileSound(w)
        /\ r \in job[w].stale /\ r \in Row
    BY <1>1, JobTyped DEF UnlinkStale, NextStale, At, IInv, JobsSound
  <1>3. PICK g \in File : g = r.file
    BY <1>2 DEF Row
  <1>4. StaleSound(r) /\ g <= started
    BY <1>2, <1>3 DEF JobSound, StaleSound, RowSound
  <1>5. /\ \A v \in Worker \ {w} : job'[v] = job[v]
        /\ job'[w].pc = "remove" /\ job'[w].row = job[w].row /\ job'[w].kind = job[w].kind
        /\ job'[w].source = job[w].source /\ job'[w].stale = job[w].stale
    BY <1>2, GotoMoves DEF UnlinkStale
  <1>6. /\ disk'[g] = Absent
        /\ \A h \in File \ {g} : disk'[h] = disk[h]
        /\ UNCHANGED <<db, started, recent, written, discarded, replaced>>
    BY <1>1, <1>3 DEF UnlinkStale, IInv, TypeOK
  <1>7. ~Whole(g)' /\ disk'[g] # Partial
    BY <1>6, BackupsAssumption DEF Whole
  <1>8. JobsGoOn
    BY <1>2, <1>5 DEF JobsGoOn, Owns
  <1>9. Backed(g)'
    <2>1. PICK h \in File : g + 1 <= h /\ (Whole(h) \/ h \in discarded)
      BY <1>3, <1>4 DEF StaleSound, Backed
    <2>2. h # g /\ g <= h
      BY <2>1 DEF File
    <2> QED
      BY <1>6, <2>1, <2>2 DEF Backed, Whole
  <1>10. ~SafetyFile(g)
    BY <1>3, <1>4 DEF StaleSound, RowSound
  <1>11. FileStep(g)
    BY <1>4, <1>6, <1>7, <1>8, <1>9, <1>10 DEF FileStep
  <1>12. \A base \in Base' : base \in Base \/ base = db'
    <2>1. \A h \in File : Whole(h)' => Whole(h) /\ disk'[h] = disk[h]
      BY <1>6, <1>7 DEF Whole
    <2> QED
      BY <1>2, <1>5, <2>1, BasesSame DEF At
  <1>13. \A v \in Worker \ {w} : job'[v] # Idle /\ Owns(v, g) => FileSound(v)'
    BY <1>2, <1>3, <1>4, <1>5, <1>6, StaleFile
  <1>14. CASE job'[w] = Idle
    BY <1>5, <1>6, <1>11, <1>12, <1>13, <1>14, FileInv
  <1>15. CASE job'[w] # Idle
    <2>1. JobSound(w)' /\ DataSound(w)'
      BY <1>2, <1>5, <1>11, FileProgress, GoesOn DEF DataSound
    <2>2. FileSound(w)'
      <3>1. CASE Owns(w, g)
        BY <1>2, <1>3, <1>4, <1>5, <1>6, <1>15, <3>1, StaleFile
      <3>2. CASE ~Owns(w, g)
        <4>1. \A h \in File : Owns(w, h)' => Owns(w, h) /\ h # g
          BY <1>2, <1>5, <3>2 DEF Owns
        <4>2. job'[w].held = job[w].held
          BY <1>2, GotoMoves DEF UnlinkStale
        <4> QED
          BY <1>2, <1>5, <1>6, <4>1, <4>2 DEF FileSound, Holds, Whole
      <3> QED
        BY <3>1, <3>2
    <2> QED
      BY <1>5, <1>6, <1>11, <1>12, <1>13, <2>1, <2>2, FileInv
  <1> QED
    BY <1>14, <1>15

LEMMA DeleteByHandInv ==
    ASSUME IInv, TypeOK', NEW r \in db.rows, DeleteByHand(r)
    PROVE  IInv'
  <1>1. r \in Row /\ RowSound(r)
    BY DEF IInv, TypeOK, Database, BasesSound, Base
  <1>2. PICK g \in File : g = r.file
    BY <1>1 DEF Row
  <1>3. /\ disk'[g] = Absent
        /\ \A h \in File \ {g} : disk'[h] = disk[h]
        /\ discarded' = discarded \cup {g}
        /\ UNCHANGED <<started, recent, job, written, replaced>>
    BY <1>2 DEF DeleteByHand, IInv, TypeOK
  <1>4. db'.data = db.data /\ db'.rows \subseteq db.rows
    BY <1>1, DeletedTidy DEF DeleteByHand, IInv, TypeOK, Tidy
  <1>5. ~Whole(g)' /\ disk'[g] # Partial
    BY <1>3, BackupsAssumption DEF Whole
  <1>6. FileStep(g)
    <2>1. JobsGoOn
      BY <1>3 DEF JobsGoOn, Owns
    <2>2. g <= started
      BY <1>1, <1>2 DEF RowSound
    <2>3. Backed(g)'
      BY <1>3 DEF Backed, File
    <2> QED
      BY <1>3, <1>5, <2>1, <2>2, <2>3 DEF FileStep
  <1>7. \A base \in Base' : base \in Base \/ base = db'
    <2>1. \A h \in File : Whole(h)' => Whole(h) /\ disk'[h] = disk[h]
      BY <1>3, <1>5 DEF Whole
    <2> QED
      BY <1>3, <2>1, BasesSame DEF At
  <1>8. ASSUME NEW w \in Worker, job[w] # Idle, Owns(w, g)
        PROVE  FileSound(w)'
    <2>1. \A h \in File : Owns(w, h)' => h = g
      BY <1>3, <1>8 DEF Owns
    <2> QED
      BY <1>3, <2>1 DEF FileSound, Holds
  <1> QED
    BY <1>3, <1>4, <1>6, <1>7, <1>8, FileInv

-----------------------------------------------------------------------------
(* A new record, and a restore *)

LEMMA CreateRecordInv ==
    ASSUME IInv, TypeOK', NEW w \in Worker, CreateRecord(w)
    PROVE  IInv'
  <1>1. /\ job[w] \in Job /\ job[w] # Idle /\ job[w].pc = "start"
        /\ job[w].row = Idle /\ JobSound(w) /\ DataSound(w)
    BY JobTyped DEF CreateRecord, At, IInv, JobsSound, JobSound
  <1>2. started \in Nat /\ started + 1 \in File /\ File \subseteq Nat
    BY BackupsAssumption DEF CreateRecord, IInv, TypeOK, File
  <1>a. PICK n \in File : n = started + 1
    BY <1>2
  <1>b. PICK r \in Row : r = NewRow(n, job[w].kind, "running")
    BY <1>1, NewRowTyped DEF Job, Status
  <1> DEFINE j == [job[w] EXCEPT !.row = r, !.pc = "snapshot"]
  <1>3. r \in Row /\ r.file = n /\ r.kind = job[w].kind /\ r.status = "running"
    BY <1>b DEF NewRow
  <1>4. /\ db' = [db EXCEPT !.rows = @ \cup {r}, !.sequence = r.pk]
        /\ started' = n /\ recent' = recent \cup {r.file}
        /\ job' = [job EXCEPT ![w] = j]
        /\ UNCHANGED <<disk, written, discarded, replaced>>
    BY <1>a, <1>b DEF CreateRecord
  <1>5. /\ j.pc = "snapshot" /\ j.row = r /\ j.kind = job[w].kind
        /\ j.source = job[w].source /\ j.stale = job[w].stale /\ j.held = job[w].held
    BY <1>1 DEF Job
  <1> HIDE DEF j
  <1>6. /\ job'[w] = j
        /\ \A v \in Worker \ {w} : job'[v] = job[v]
    BY <1>4 DEF IInv, TypeOK
  <1>7. db'.rows = db.rows \cup {r} /\ db'.data = db.data
    BY <1>4 DEF IInv, TypeOK, Database
  <1>8. \A f \in File : f <= started => f # n
    BY <1>2, <1>a
  <1>9. \A v \in Worker, f \in File : Owns(v, f)' =>
            \/ v = w /\ f = n
            \/ v # w /\ Owns(v, f) /\ job'[v] = job[v]
    BY <1>3, <1>5, <1>6 DEF Owns
  <1>10. \A v \in Worker, f \in File : Owns(v, f) => f <= started
    BY JobTyped DEF Owns, IInv, JobsSound, JobSound, RowSound
  <1>11. Progress
    <2>1. \A f \in 1 .. started : f \in File /\ f # n
      BY <1>2, <1>a, BackupsAssumption DEF File
    <2>2. \A f \in 1 .. started : SafetyFile(f)' => SafetyFile(f)
      BY <1>4, <1>9, <2>1 DEF SafetyFile
    <2>3. \A f \in 1 .. started : Awaited(f)' => Awaited(f)
      BY <1>9, <2>1 DEF Awaited
    <2>4. \A k \in Nat : Backed(k) => Backed(k)'
      BY <1>4 DEF Backed, Whole
    <2> QED
      BY <1>2, <1>a, <1>4, <2>2, <2>3, <2>4 DEF Progress
  <1>12. RowSound(r)'
    <2>1. r.file <= started'
      BY <1>2, <1>a, <1>3, <1>4
    <2>2. SafetyFile(n)' => r.kind = "pre_restore"
      <3>1. ASSUME NEW c \in replaced', c.safety = n
            PROVE  r.kind = "pre_restore"
        <4>1. disk[n] = Absent /\ n \notin discarded
          BY <1>2, <1>a, <1>8 DEF IInv, FilesSound, TypeOK
        <4> QED
          BY <1>4, <3>1, <4>1 DEF IInv, SafetyKept, Whole
      <3>2. ASSUME NEW v \in Worker, Owns(v, n)', job'[v].source # NoFile
            PROVE  r.kind = "pre_restore"
        <4>1. v = w
          BY <1>2, <1>a, <1>9, <1>10, <3>2
        <4> QED
          BY <1>1, <1>3, <1>5, <1>6, <3>2, <4>1 DEF JobSound
      <3> QED
        BY <3>1, <3>2 DEF SafetyFile
    <2> QED
      BY <1>3, <2>1, <2>2 DEF RowSound
  <1>13. BasesSound'
    <2>1. \A base \in Base' : base \in Base \/ base = db'
      BY <1>1, <1>4, <1>5, <1>6, BasesSame DEF At, Whole
    <2> QED
      BY <1>7, <1>11, <1>12, <2>1, BasesKept
  <1>14. ASSUME NEW v \in Worker \ {w}, job'[v] # Idle
         PROVE  JobSound(v)' /\ FileSound(v)' /\ DataSound(v)'
    <2>1. job'[v] = job[v] /\ job[v] # Idle
      BY <1>6, <1>14
    <2> QED
      BY <1>4, <1>7, <1>11, <2>1, JobKept, FileKept, DataKept
  <1>15. JobSound(w)' /\ FileSound(w)' /\ DataSound(w)'
    <2>1. \A s \in job'[w].stale : StaleSound(s)'
      <3>1. job[w].stale \subseteq Row /\ started' \in Nat
        BY <1>1 DEF Job, TypeOK
      <3> QED
        BY <1>1, <1>5, <1>6, <1>11, <3>1, StaleKept DEF JobSound
    <2>2. JobSound(w)'
      BY <1>1, <1>3, <1>5, <1>6, <1>12, <2>1, BackupsAssumption DEF JobSound
    <2>3. disk[n] = Absent
      BY <1>8 DEF IInv, FilesSound
    <2>4. \A f \in File : Owns(w, f)' => f = n
      BY <1>9
    <2>5. FileSound(w)'
      BY <1>4, <1>5, <1>6, <2>3, <2>4 DEF FileSound
    <2>6. DataSound(w)'
      BY <1>1, <1>5, <1>6, <1>7 DEF DataSound
    <2> QED
      BY <2>2, <2>5, <2>6
  <1>16. JobsSound'
    BY <1>14, <1>15 DEF JobsSound
  <1>17. JobsApart'
    BY <1>8, <1>9, <1>10 DEF IInv, JobsApart
  <1>18. FilesSound'
    <2>1. \A f \in File : disk[f] # Absent => f \in 1 .. started
      BY <1>2 DEF IInv, FilesSound, File
    <2>2. \A f \in File : Whole(f)' /\ SafetyFile(f)' => Whole(f) /\ SafetyFile(f)
      BY <1>4, <1>11, <2>1 DEF Progress, Whole
    <2> QED
      BY <1>2, <1>a, <1>4, <2>2 DEF IInv, FilesSound
  <1>19. RecentSound'
    <2>1. \A f \in Nat : f .. started' \subseteq (f .. started) \cup {n}
      BY <1>2, <1>a, <1>4
    <2>2. n .. started' = {n}
      BY <1>2, <1>a, <1>4
    <2>3. recent \subseteq Nat /\ recent' = recent \cup {n}
      BY <1>2, <1>3, <1>4 DEF IInv, TypeOK
    <2> QED
      BY <2>1, <2>2, <2>3 DEF IInv, RecentSound
  <1>20. SafetyKept'
    BY <1>4 DEF IInv, SafetyKept, Whole
  <1> QED
    BY <1>13, <1>16, <1>17, <1>18, <1>19, <1>20 DEF IInv

LEMMA ReplaceDatabaseInv ==
    ASSUME IInv, TypeOK', NEW w \in Worker, ReplaceDatabase(w)
    PROVE  IInv'
  <1> DEFINE source == job[w].source
             new == disk[source].db
             done == [safety |-> job[w].row.file, held |-> job[w].held]
  <1>1. /\ job[w] \in Job /\ job[w] # Idle /\ job[w].pc = "replace"
        /\ source \in File /\ source # NoFile
        /\ job[w].row \in Row /\ job[w].row.file \in File
        /\ JobSound(w) /\ FileSound(w)
    BY JobTyped DEF ReplaceDatabase, At, IInv, JobsSound, JobSound
  <1>2. Owns(w, done.safety) /\ SafetyFile(done.safety) /\ Holds(done.safety, done.held)
    <2>1. Owns(w, done.safety) /\ done.safety \in File
      BY <1>1, BackupsAssumption DEF Owns
    <2> QED
      BY <1>1, <2>1 DEF SafetyFile, FileSound, Holds
  <1>3. /\ db' = new /\ Whole(source)
        /\ replaced' = replaced \cup {done}
        /\ UNCHANGED <<disk, started, recent, written, discarded>>
    BY DEF ReplaceDatabase
  <1>4. job'[w] = [job[w] EXCEPT !.pc = "media"]
    BY DEF ReplaceDatabase
  <1>5. \A v \in Worker \ {w} : job'[v] =
            IF job[v] = Idle THEN Idle ELSE [job[v] EXCEPT !.held = @ \cap new.data]
    BY DEF ReplaceDatabase
  <1> HIDE DEF new, done, source
  <1>6. /\ job'[w] # Idle
        /\ job'[w].pc = "media" /\ job'[w].row = job[w].row /\ job'[w].kind = job[w].kind
        /\ job'[w].source = job[w].source /\ job'[w].stale = job[w].stale
        /\ job'[w].held = job[w].held
    BY <1>1, <1>4, BackupsAssumption DEF Job
  <1>7. \A v \in Worker \ {w} : job'[v] # Idle =>
            /\ job[v] # Idle
            /\ job'[v].pc = job[v].pc /\ job'[v].row = job[v].row /\ job'[v].kind = job[v].kind
            /\ job'[v].source = job[v].source /\ job'[v].stale = job[v].stale
            /\ job'[v].snapshot = job[v].snapshot
            /\ job'[v].held = job[v].held \cap new.data
    BY <1>5, JobTyped DEF Job
  <1>8. JobsGoOn
    BY <1>1, <1>6, <1>7 DEF JobsGoOn, Owns
  <1>9. /\ Progress /\ JobsApart'
        /\ \A f \in File : SafetyFile(f)' => SafetyFile(f)
    <2>1. \A f \in File : Whole(f) \/ f \in discarded => Backed(f)'
      BY <1>3 DEF Backed, Whole, File
    <2>2. \A c \in replaced' : c \in replaced \/ SafetyFile(c.safety)
      BY <1>2, <1>3
    <2> QED
      BY <1>3, <1>8, <2>1, <2>2, ProgressMade
  <1>10. db' \in Base
    BY <1>1, <1>3 DEF Base, new
  <1>11. BasesSound'
    <2>1. \A base \in Base' : base \in Base \/ base = db'
      BY <1>3, <1>6, <1>7, BasesSame DEF At, Whole
    <2>2. \A r \in db'.rows : RowSound(r)'
      <3>1. db'.rows \subseteq Row /\ started' \in Nat
        BY DEF TypeOK, Database
      <3>2. \A r \in db'.rows : RowSound(r)
        BY <1>10 DEF IInv, BasesSound
      <3> QED
        BY <1>9, <3>1, <3>2, RowKept
    <2> QED
      BY <1>9, <2>1, <2>2, BasesKept
  <1>12. ASSUME NEW v \in Worker, job'[v] # Idle
         PROVE  JobSound(v)'
    <2>1. /\ job[v] # Idle /\ job'[v].row = job[v].row /\ job'[v].kind = job[v].kind
          /\ job'[v].source = job[v].source /\ job'[v].stale = job[v].stale
          /\ job'[v].pc \in {job[v].pc, "media"} /\ (job'[v].pc = "media" => job[v].pc # "start")
          /\ job'[v].pc # "media" => job'[v].snapshot = job[v].snapshot
      BY <1>1, <1>6, <1>7, <1>12
    <2>2. JobSound(v) /\ job[v].stale \subseteq Row /\ started' \in Nat
      BY <2>1, JobTyped DEF IInv, JobsSound, TypeOK
    <2>3. \A r \in Row : job'[v].row = r => RowSound(r)' /\ r.kind = job'[v].kind
      BY <1>9, <2>1, <2>2, RowKept DEF JobSound
    <2>4. \A r \in job'[v].stale : StaleSound(r)'
      BY <1>9, <2>1, <2>2, StaleKept DEF JobSound
    <2> QED
      BY <2>1, <2>2, <2>3, <2>4 DEF JobSound
  <1>13. FileSound(w)' /\ DataSound(w)'
    BY <1>6 DEF FileSound, DataSound
  <1>14. ASSUME NEW v \in Worker \ {w}, job'[v] # Idle
         PROVE  FileSound(v)' /\ DataSound(v)'
    <2>1. FileSound(v) /\ DataSound(v)
      BY <1>7, <1>14 DEF IInv, JobsSound
    <2>2. FileSound(v)'
      <3>1. \A f \in File : Owns(v, f)' => Owns(v, f)
        BY <1>7, <1>14 DEF Owns
      <3> QED
        BY <1>3, <1>7, <1>14, <2>1, <3>1 DEF FileSound, Holds, Whole
    <2>3. DataSound(v)'
      BY <1>3, <1>7, <1>14, <2>1 DEF DataSound
    <2> QED
      BY <2>2, <2>3
  <1>15. JobsSound'
    BY <1>6, <1>12, <1>13, <1>14 DEF JobsSound
  <1>16. FilesSound'
    BY <1>3, <1>9 DEF IInv, FilesSound, Whole
  <1>17. RecentSound'
    BY <1>3 DEF IInv, RecentSound
  <1>18. SafetyKept'
    BY <1>2, <1>3 DEF IInv, SafetyKept, Whole, Holds
  <1> QED
    BY <1>9, <1>11, <1>15, <1>16, <1>17, <1>18 DEF IInv

-----------------------------------------------------------------------------
(* Every step *)

LEMMA ListArchiveInv ==
    ASSUME IInv, TypeOK', NEW w \in Worker, ListArchive(w)
    PROVE  IInv'
  <1>1. PICK f \in NextUnlisted(w) :
            \/ AfterListing(w, job[w].unlisted \ {f}) /\ UNCHANGED db
            \/ End(w) /\ UNCHANGED db
            \/ /\ Whole(f) /\ f \notin Known
               /\ db' = Saved(NewRow(f, disk[f].kind, "success"))
               /\ AfterListing(w, job[w].unlisted \ {f})
    BY DEF ListArchive
  <1>2. /\ job[w] \in Job /\ job[w] # Idle /\ job[w].pc = "sync"
        /\ JobSound(w) /\ FileSound(w)
        /\ f \in File /\ UNCHANGED <<disk, started, recent, written, discarded, replaced>>
    BY JobTyped DEF ListArchive, At, NextUnlisted, Job, IInv, JobsSound
  <1>3. CASE End(w) /\ UNCHANGED db
    <2>1. \A v \in Worker : job'[v] \in {job[v], Idle}
      BY <1>3 DEF End, IInv, TypeOK
    <2> QED
      BY <1>2, <1>3, <2>1, EndInv
  <1>4. ASSUME AfterListing(w, job[w].unlisted \ {f}),
               db.data \subseteq db'.data, \A r \in db'.rows : r \in db.rows \/ RowSound(r)
        PROVE  IInv'
    <2> DEFINE rest == job[w].unlisted \ {f}
               pc == IF rest = {} THEN "answer" ELSE "sync"
    <2>1. /\ pc \in {"answer", "sync"} /\ rest \in SUBSET File /\ job[w].stale \in SUBSET Row
          /\ \A r \in job[w].stale : StaleSound(r)
      BY <1>2 DEF Job, JobSound
    <2>2. job' = [job EXCEPT ![w] = [@ EXCEPT !.pc = pc, !.stale = job[w].stale, !.unlisted = rest]]
      BY <1>2, <1>4 DEF AfterListing, Job
    <2> HIDE DEF pc, rest
    <2>3. PICK to \in {"answer", "sync"}, unlisted \in SUBSET File, stale \in SUBSET Row :
              to = pc /\ unlisted = rest /\ stale = job[w].stale
      BY <2>1
    <2> QED
      BY <1>2, <1>4, <2>1, <2>2, <2>3, MovesInv
  <1>5. CASE Whole(f) /\ f \notin Known
             /\ db' = Saved(NewRow(f, disk[f].kind, "success"))
             /\ AfterListing(w, job[w].unlisted \ {f})
    <2> DEFINE r == NewRow(f, disk[f].kind, "success")
    <2>1. r \in Row
      BY <1>2, <1>5, NewRowTyped DEF IInv, TypeOK, Whole, Archive, Status
    <2>2. r.file = f /\ r.kind = disk[f].kind /\ CanSave(r)
      BY <1>5 DEF CanSave, Known, NewRow
    <2>3. RowSound(r)
      <3>1. f <= started /\ (SafetyFile(f) => disk[f].kind = "pre_restore") /\ disk[f] # Partial
        BY <1>2, <1>5 DEF IInv, FilesSound, Whole
      <3>2. ~Awaited(f)
        BY <1>2, <1>5 DEF Awaited, Owns, IInv, JobsSound, FileSound, Whole
      <3>3. Backed(f)
        BY <1>2, <1>5 DEF Backed, File
      <3> HIDE DEF r
      <3> QED
        BY <2>2, <3>1, <3>2, <3>3 DEF RowSound
    <2> HIDE DEF r
    <2>4. db' = Saved(r)
      BY <1>5 DEF r
    <2>5. db'.data = db.data /\ \A s \in db'.rows : s \in db.rows \/ s = r
      BY <2>1, <2>2, <2>4, SavedTyped
    <2> QED
      BY <1>4, <1>5, <2>3, <2>5
  <1>6. CASE AfterListing(w, job[w].unlisted \ {f}) /\ UNCHANGED db
    BY <1>4, <1>6
  <1> QED
    BY <1>1, <1>3, <1>5, <1>6

LEMMA StaleRows ==
    ASSUME IInv
    PROVE  \A r \in Stale : r \in Row /\ StaleSound(r)
  <1> SUFFICES ASSUME NEW r \in Stale
               PROVE  r \in Row /\ StaleSound(r)
    OBVIOUS
  <1> DEFINE counted == {s \in Success : s.kind = "regular"}
             later == {s \in counted : s.file > r.file}
  <1>1. r \in counted /\ KeepLast > 0 /\ Cardinality(later) >= KeepLast
    BY DEF Stale
  <1>2. later # {}
    <2>1. Cardinality({}) = 0
      BY FS_EmptySet
    <2> QED
      BY <1>1, <2>1, BackupsAssumption
  <1>3. \A s \in counted : s \in Row /\ s.kind = "regular" /\ s.status = "success" /\ RowSound(s)
    BY DEF Success, IInv, TypeOK, Database, BasesSound, Base
  <1>4. PICK s \in later : TRUE
    BY <1>2
  <1>5. s.file > r.file /\ Backed(s.file) /\ s.file \in Nat /\ r.file \in Nat
    BY <1>1, <1>3, <1>4 DEF RowSound, Row, File
  <1>6. Backed(r.file + 1)
    BY <1>5 DEF Backed, File
  <1> QED
    BY <1>1, <1>3, <1>6 DEF StaleSound

LEMMA RetentionMoves ==
    ASSUME IInv, TypeOK', NEW w \in Worker, job[w] # Idle, job[w].pc \in {"retain", "remove"},
           AfterRetention(w),
           UNCHANGED <<disk, started, recent, written, discarded, replaced>>,
           db'.data = db.data, db'.rows \subseteq db.rows
    PROVE  IInv'
  <1>1. CASE End(w)
    <2>1. \A v \in Worker : job'[v] \in {job[v], Idle}
      BY <1>1 DEF End, IInv, TypeOK
    <2> QED
      BY <2>1, EndInv
  <1>2. CASE /\ job[w].source # NoFile
             /\ job' = [job EXCEPT ![w] = [@ EXCEPT !.pc = "replace", !.stale = {}]]
    <2>1. job[w] \in Job
      BY JobTyped
    <2>2. PICK unlisted \in SUBSET File : unlisted = job[w].unlisted
      BY <2>1 DEF Job
    <2>3. PICK stale \in SUBSET Row : stale = {}
      OBVIOUS
    <2>4. job' = [job EXCEPT ![w] = [@ EXCEPT !.pc = "replace", !.stale = stale, !.unlisted = unlisted]]
      BY <1>2, <2>1, <2>2, <2>3 DEF Job
    <2>5. /\ \A r \in stale : StaleSound(r)
          /\ \A r \in db'.rows : r \in db.rows \/ RowSound(r)
          /\ db.data \subseteq db'.data
      BY <2>3
    <2> QED
      BY <1>2, <2>4, <2>5, MovesInv
  <1> QED
    BY <1>1, <1>2 DEF AfterRetention

LEMMA RetentionGoesOn ==
    ASSUME IInv, TypeOK', NEW w \in Worker, job[w] # Idle, job[w].pc \in {"retain", "remove"},
           NEW stale \in SUBSET Row, \A r \in stale : StaleSound(r),
           job' = [job EXCEPT ![w] = [@ EXCEPT !.stale = stale, !.pc = "unlink"]],
           UNCHANGED <<disk, started, recent, written, discarded, replaced>>,
           db'.data = db.data, db'.rows \subseteq db.rows
    PROVE  IInv'
  <1>1. job[w] \in Job
    BY JobTyped
  <1>2. PICK unlisted \in SUBSET File : unlisted = job[w].unlisted
    BY <1>1 DEF Job
  <1>3. job' = [job EXCEPT ![w] = [@ EXCEPT !.pc = "unlink", !.stale = stale, !.unlisted = unlisted]]
    BY <1>1, <1>2 DEF Job
  <1> QED
    BY <1>3, MovesInv

LEMMA ApplyRetentionInv ==
    ASSUME IInv, TypeOK', NEW w \in Worker, ApplyRetention(w)
    PROVE  IInv'
  <1>1. /\ job[w] # Idle /\ job[w].pc = "retain"
        /\ UNCHANGED <<db, disk, started, recent, written, discarded, replaced>>
    BY DEF ApplyRetention, At
  <1>2. PICK stale \in SUBSET Row : stale = Stale
    BY StaleRows
  <1>3. \A r \in stale : StaleSound(r)
    BY <1>2, StaleRows
  <1>4. \/ AfterRetention(w)
        \/ job' = [job EXCEPT ![w] = [@ EXCEPT !.stale = stale, !.pc = "unlink"]]
    BY <1>2 DEF ApplyRetention
  <1> QED
    BY <1>1, <1>3, <1>4, RetentionMoves, RetentionGoesOn

LEMMA RemoveStaleInv ==
    ASSUME IInv, TypeOK', NEW w \in Worker, RemoveStale(w)
    PROVE  IInv'
  <1>1. /\ job[w] \in Job /\ job[w] # Idle /\ job[w].pc = "remove" /\ JobSound(w)
        /\ UNCHANGED <<disk, started, recent, written, discarded, replaced>>
    BY JobTyped DEF RemoveStale, At, IInv, JobsSound
  <1>2. PICK r \in NextStale(w) : db' = Deleted(r)
    BY DEF RemoveStale
  <1>3. r \in Row
    BY <1>1, <1>2 DEF NextStale, Job
  <1>4. db'.data = db.data /\ db'.rows \subseteq db.rows
    BY <1>2, <1>3, DeletedTidy DEF IInv, TypeOK, Tidy
  <1>5. PICK stale \in SUBSET Row : stale = job[w].stale \ NextStale(w)
    BY <1>1 DEF Job
  <1>6. \A s \in stale : StaleSound(s)
    BY <1>1, <1>5 DEF JobSound
  <1>7. \/ AfterRetention(w)
        \/ job' = [job EXCEPT ![w] = [@ EXCEPT !.stale = stale, !.pc = "unlink"]]
    BY <1>5 DEF RemoveStale
  <1> QED
    BY <1>1, <1>4, <1>6, <1>7, RetentionMoves, RetentionGoesOn

LEMMA InvStep ==
    ASSUME IInv, [Next]_vars
    PROVE  IInv'
  <1>1. CASE UNCHANGED vars
    BY <1>1 DEF vars, IInv, TypeOK, BasesSound, Base, Tidy, RowSound, SafetyFile, Awaited, Backed,
        Owns, At, Whole, JobsSound, JobSound, FileSound, DataSound, StaleSound, Holds,
        JobsApart, FilesSound, RecentSound, SafetyKept
  <1>2. ASSUME Next
        PROVE  IInv'
    <2> USE <1>2
    <2>1. TypeOK'
      BY TypesStep
    <2>2. ASSUME NEW w \in Worker, BackupNow(w) \/ RunDueBackup(w)
          PROVE  IInv'
      <3>1. /\ job[w] = Idle /\ job' = [job EXCEPT ![w] = NewJob("regular", NoFile)]
            /\ UNCHANGED <<db, disk, started, recent, written, discarded, replaced>>
        BY <2>2 DEF BackupNow, RunDueBackup
      <3>2. PICK kind \in Kind, source \in File \cup {NoFile} : kind = "regular" /\ source = NoFile
        BY DEF Kind
      <3> QED
        BY <2>1, <3>1, <3>2, BeginInv
    <2>3. ASSUME NEW w \in Worker, NEW r \in db.rows, BeginRestore(w, r)
          PROVE  IInv'
      <3>1. /\ job[w] = Idle /\ job' = [job EXCEPT ![w] = NewJob("pre_restore", r.file)]
            /\ UNCHANGED <<db, disk, started, recent, written, discarded, replaced>>
        BY <2>3 DEF BeginRestore
      <3>2. PICK kind \in Kind, source \in File \cup {NoFile} :
                kind = "pre_restore" /\ source = r.file /\ source # NoFile
        BY DomainTyped DEF Kind, IInv, TypeOK, Database, Row
      <3> QED
        BY <2>1, <3>1, <3>2, BeginInv
    <2>4. ASSUME NEW w \in Worker, SaveRefused(w) \/ Answer(w)
          PROVE  IInv'
      <3>1. \A v \in Worker : job'[v] \in {job[v], Idle}
        BY <2>4 DEF SaveRefused, Answer, End, IInv, TypeOK
      <3> QED
        BY <2>1, <2>4, <3>1, EndInv DEF SaveRefused, Answer
    <2>5. ASSUME NEW w \in Worker, RestoreFails(w) \/ FindUnlisted(w)
          PROVE  IInv'
      <3>1. /\ job[w] \in Job /\ job[w] # Idle /\ job[w].pc \in {"replace", "media"} /\ JobSound(w)
            /\ UNCHANGED <<db, disk, started, recent, written, discarded, replaced>>
        BY <2>5, JobTyped DEF RestoreFails, FindUnlisted, At, IInv, JobsSound
      <3>2. PICK stale \in SUBSET Row : stale = job[w].stale
        BY <3>1 DEF Job
      <3>3. PICK unlisted \in SUBSET File, pc \in {"answer", "sync"} :
                job' = [job EXCEPT ![w] = [@ EXCEPT !.pc = pc, !.stale = stale, !.unlisted = unlisted]]
        <4>1. CASE RestoreFails(w)
          <5>1. job' = [job EXCEPT ![w] = [@ EXCEPT !.pc = "answer"]]
            BY <4>1 DEF RestoreFails, Goto
          <5>2. [job[w] EXCEPT !.pc = "answer"] =
                    [job[w] EXCEPT !.pc = "answer", !.stale = stale, !.unlisted = job[w].unlisted]
            BY <3>1, <3>2 DEF Job
          <5>3. job[w].unlisted \in SUBSET File
            BY <3>1 DEF Job
          <5> QED
            BY <5>1, <5>2, <5>3
        <4>2. CASE FindUnlisted(w)
          <5> DEFINE rest == {f \in File : disk[f] # Absent} \ Known
                     to == IF rest = {} THEN "answer" ELSE "sync"
          <5>1. job' = [job EXCEPT ![w] = [@ EXCEPT !.unlisted = rest, !.pc = to]]
            BY <4>2 DEF FindUnlisted, AfterListing
          <5>2. rest \in SUBSET File /\ to \in {"answer", "sync"}
            OBVIOUS
          <5> HIDE DEF rest, to
          <5>3. [job[w] EXCEPT !.unlisted = rest, !.pc = to] =
                    [job[w] EXCEPT !.pc = to, !.stale = stale, !.unlisted = rest]
            BY <3>1, <3>2 DEF Job
          <5> QED
            BY <5>1, <5>2, <5>3
        <4> QED
          BY <2>5, <4>1, <4>2
      <3>4. \A r \in stale : StaleSound(r)
        BY <3>1, <3>2 DEF JobSound
      <3> QED
        BY <2>1, <3>1, <3>3, <3>4, MovesInv
    <2>6. ASSUME AppWrite \/ HoursPass \/ Crash
          PROVE  IInv'
      <3>1. CASE Crash
        BY <2>1, <3>1, EndInv DEF Crash
      <3>2. CASE AppWrite
        <4>1. db'.rows = db.rows /\ db'.data = db.data \cup {written + 1}
          BY <3>2 DEF AppWrite, IInv, TypeOK, Database
        <4> QED
          BY <2>1, <3>2, <4>1, EndInv DEF AppWrite
      <3>3. CASE HoursPass
        <4>1. Quiet
          BY <3>3 DEF HoursPass, Quiet, JobsGoOn, Owns
        <4>2. \A base \in Base' : base \in Base \/ base = db'
          BY <3>3, BasesSame DEF HoursPass, At, Whole
        <4> QED
          BY <2>1, <3>3, <4>1, <4>2, QuietInv DEF HoursPass
      <3> QED
        BY <2>6, <3>1, <3>2, <3>3
    <2> QED
      BY <2>1, <2>2, <2>3, <2>4, <2>5, <2>6, CreateRecordInv, SnapshotInv, OpenArchiveInv,
         CloseArchiveInv, RecordSuccessInv, RecordFailureInv, RemoveFailedInv, ApplyRetentionInv,
         UnlinkStaleInv, RemoveStaleInv, DeleteByHandInv, ReplaceDatabaseInv, ListArchiveInv DEF Next
  <1> QED
    BY <1>1, <1>2

-----------------------------------------------------------------------------
(* The theorems *)

THEOREM Invariance == Spec => []IInv
  BY TypesInit, InvStep, PTL DEF Spec

(* Rows, archives and jobs keep their types; keys and file names stay unique
   whatever a restore brings back (create_backup, restore_backup,
   sync_records_from_disk). *)
THEOREM BackupsTypeCorrect == Spec => []TypeOK
  <1>1. IInv => TypeOK
    BY DEF IInv
  <1> QED
    BY <1>1, Invariance, PTL

(* What a restore replaces can be had back from its safety copy, unless a user
   or a late failure deleted it (restore_backup, apply_retention). *)
THEOREM SafetyCopiesKept == Spec => []SafetyKept
  <1>1. IInv => SafetyKept
    BY DEF IInv
  <1> QED
    BY <1>1, Invariance, PTL

(* No record of a success stands for half an archive (create_backup,
   sync_records_from_disk). *)
THEOREM SuccessesAreWhole == Spec => []SuccessIsWhole
  <1>1. IInv => SuccessIsWhole
    BY DEF IInv, BasesSound, Base, RowSound, SuccessIsWhole, Success
  <1> QED
    BY <1>1, Invariance, PTL

(* The scheduler is content only with a backup that exists (run_due_backup). *)
THEOREM RecentBackupsExist == Spec => []RecentBackupExists
  <1>1. ASSUME IInv, BackedUpRecently
        PROVE  \E f \in recent : Whole(f) \/ f \in discarded
    <2>1. PICK r \in db.rows : r.status = "success" /\ r.file \in recent
      BY <1>1 DEF BackedUpRecently, Success
    <2>2. Backed(r.file)
      BY <1>1, <2>1 DEF IInv, BasesSound, Base, RowSound
    <2>3. PICK g \in File : r.file <= g /\ (Whole(g) \/ g \in discarded)
      BY <2>2 DEF Backed
    <2>4. g <= started
      <3>1. Whole(g) => g <= started
        BY <1>1 DEF IInv, FilesSound, Whole
      <3>2. g \in discarded => g <= started
        BY <1>1 DEF IInv, TypeOK
      <3> QED
        BY <2>3, <3>1, <3>2
    <2>5. g \in r.file .. started
      BY <1>1, <2>3, <2>4, BackupsAssumption DEF IInv, TypeOK, File
    <2> QED
      BY <1>1, <2>1, <2>3, <2>5 DEF IInv, RecentSound
  <1>2. IInv => RecentBackupExists
    BY <1>1 DEF RecentBackupExists
  <1> QED
    BY <1>2, Invariance, PTL
=============================================================================
