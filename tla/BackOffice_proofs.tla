------------------------- MODULE BackOffice_proofs -------------------------
(***************************************************************************)
(* Theorems about the development center, for any numbers of files,        *)
(* proposals and developers: whatever they do at the same time, and        *)
(* wherever the process ends, the original content of every file can be    *)
(* had back; about the customers' accounts: no bill earns points twice,    *)
(* and the points are what the ledger says; about the numbers of           *)
(* documents; and about the back office as a whole.                        *)
(***************************************************************************)
EXTENDS MCBackOffice, Stock_proofs

-----------------------------------------------------------------------------
(* The development center: types *)

(* A developer who applies or takes back has a proposal, and what is put back
   has been saved. *)
RequestsSound ==
    \A c \in Client : developer[c] # Idle =>
        /\ developer[c].proposal \in Proposal \/ developer[c].pc = "restore"
        /\ developer[c].pc \in {"undo", "restore"} =>
              developer[c].todo \subseteq SavedFiles(developer[c].saved)

LEMMA NewRowTyped == NewProposal \in Row /\ NoSnapshot \in Snapshot
  BY DEF NewProposal, Row, AtMostOneOf, NoSnapshot, Snapshot

LEMMA TypesInit == DevCenterInit => DevCenterTypeOK /\ RequestsSound
  BY NewRowTyped DEF DevCenterInit, DevCenterTypeOK, RequestsSound, Content

(* What Starts and Turns make of a request. *)
LEMMA StartsTyped ==
    ASSUME DevCenterTypeOK, RequestsSound, NEW c \in Client,
           NEW pc \in {"ask", "unlink", "copy", "restore", "revert"},
           NEW p \in Proposal \cup {Idle}, NEW row \in Row, NEW s \in Snapshot,
           NEW todo \in SUBSET File, Starts(c, pc, p, row, s, todo),
           p \in Proposal \/ pc = "restore",
           pc = "restore" => todo \subseteq SavedFiles(s)
    PROVE  developer' \in [Client -> Work \cup {Idle}] /\ RequestsSound'
  BY DEF DevCenterTypeOK, RequestsSound, Starts, Work

LEMMA TurnsTyped ==
    ASSUME DevCenterTypeOK, RequestsSound, NEW c \in Client, developer[c] # Idle,
           NEW pc \in {"store", "write", "undo", "fail", "apply", "revert", "restore"},
           NEW todo \in SUBSET File, Turns(c, pc, todo),
           developer[c].proposal \in Proposal \/ pc = "restore",
           pc \in {"undo", "restore"} => todo \subseteq SavedFiles(developer[c].saved)
    PROVE  developer' \in [Client -> Work \cup {Idle}] /\ RequestsSound'
  <1> DEFINE w == [developer[c] EXCEPT !.pc = pc, !.todo = todo]
  <1>1. /\ developer[c] \in Work
        /\ developer' = [developer EXCEPT ![c] = w]
    BY DEF DevCenterTypeOK, Turns
  <1>2. /\ w \in Work
        /\ w.pc = pc /\ w.todo = todo
        /\ w.proposal = developer[c].proposal /\ w.saved = developer[c].saved
    BY <1>1 DEF Work
  <1> HIDE DEF w
  <1>3. developer' \in [Client -> Work \cup {Idle}] /\ developer'[c] = w
    BY <1>1, <1>2 DEF DevCenterTypeOK
  <1>4. \A d \in Client \ {c} : developer'[d] = developer[d]
    BY <1>1 DEF DevCenterTypeOK
  <1> QED
    BY <1>2, <1>3, <1>4 DEF RequestsSound

LEMMA StopsTyped ==
    ASSUME DevCenterTypeOK, RequestsSound, NEW c \in Client, Stops(c)
    PROVE  developer' \in [Client -> Work \cup {Idle}] /\ RequestsSound'
  BY DEF DevCenterTypeOK, RequestsSound, Stops

LEMMA TypesStep ==
    ASSUME DevCenterTypeOK, RequestsSound, [DevCenterNext]_devCenterVars
    PROVE  DevCenterTypeOK' /\ RequestsSound'
  <1> USE DEF DevCenterTypeOK
  <1>1. ASSUME NEW p \in Proposal, NEW outcome \in {"passed", "failed"}, TestsEnd(p, outcome)
        PROVE  DevCenterTypeOK' /\ RequestsSound'
    BY <1>1 DEF TestsEnd, Row, RequestsSound
  <1>2. ASSUME NEW c \in Client, NEW p \in Proposal, CreateProposal(c, p)
        PROVE  DevCenterTypeOK' /\ RequestsSound'
    <2> DEFINE row == [NewProposal EXCEPT !.status = "draft"]
    <2>1. row \in Row
      BY NewRowTyped DEF Row
    <2>2. /\ proposal' = [proposal EXCEPT ![p] = row]
          /\ Starts(c, "ask", p, row, NoSnapshot, {})
          /\ UNCHANGED <<tree, pending, snapshots>>
      BY <1>2 DEF CreateProposal
    <2> HIDE DEF row
    <2>3. developer' \in [Client -> Work \cup {Idle}] /\ RequestsSound'
      BY <2>1, <2>2, NewRowTyped, StartsTyped
    <2> QED
      BY <2>1, <2>2, <2>3
  <1>3. ASSUME NEW c \in Client, NEW p \in Proposal, Reject(c, p)
        PROVE  DevCenterTypeOK' /\ RequestsSound'
    <2>1. developer' \in [Client -> Work \cup {Idle}] /\ RequestsSound'
      BY <1>3, NewRowTyped, StartsTyped DEF Reject
    <2> QED
      BY <1>3, <2>1 DEF Reject, Row
  <1>4. ASSUME NEW c \in Client, NEW p \in Proposal, StartApply(c, p)
        PROVE  DevCenterTypeOK' /\ RequestsSound'
    <2>1. Target[p] \in SUBSET File
      BY DevCenterAssumption
    <2>2. developer' \in [Client -> Work \cup {Idle}] /\ RequestsSound'
      BY <1>4, <2>1, NewRowTyped, StartsTyped DEF StartApply
    <2> QED
      BY <1>4, <2>2 DEF StartApply
  <1>5. ASSUME NEW c \in Client, NEW p \in Proposal, StartRevert(c, p)
        PROVE  DevCenterTypeOK' /\ RequestsSound'
    <2>1. PICK s \in proposal[p].snapshot :
              Starts(c, IF SavedFiles(s) = {} THEN "revert" ELSE "restore", p, proposal[p], s,
                     SavedFiles(s))
      BY <1>5 DEF StartRevert
    <2>2. s \in Snapshot /\ SavedFiles(s) \in SUBSET File /\ proposal[p] \in Row
      BY DEF Row, AtMostOneOf, SavedFiles
    <2>3. developer' \in [Client -> Work \cup {Idle}] /\ RequestsSound'
      <3>1. CASE SavedFiles(s) = {}
        BY <2>1, <2>2, <3>1, StartsTyped
      <3>2. CASE SavedFiles(s) # {}
        BY <2>1, <2>2, <3>2, StartsTyped
      <3> QED
        BY <3>1, <3>2
    <2> QED
      BY <1>5, <2>3 DEF StartRevert
  <1>6. ASSUME NEW c \in Client, NEW s \in snapshots, StartRestore(c, s)
        PROVE  DevCenterTypeOK' /\ RequestsSound'
    <2>1. s \in Snapshot /\ SavedFiles(s) \in SUBSET File
      BY DEF SavedFiles
    <2>2. developer' \in [Client -> Work \cup {Idle}] /\ RequestsSound'
      BY <1>6, <2>1, NewRowTyped, StartsTyped DEF StartRestore
    <2> QED
      BY <1>6, <2>2 DEF StartRestore
  <1>7. ASSUME NEW c \in Client, \/ AnswerFails(c) \/ UnlinkPending(c)
                                 \/ SaveFailure(c) \/ SaveReverted(c)
        PROVE  DevCenterTypeOK' /\ RequestsSound'
    <2>1. Stops(c) /\ UNCHANGED <<tree, snapshots>> /\ pending' \subseteq pending
      BY <1>7 DEF AnswerFails, UnlinkPending, SaveFailure, SaveReverted
    <2>2. proposal' \in [Proposal -> Row]
      BY <1>7 DEF AnswerFails, UnlinkPending, SaveFailure, SaveReverted, Row
    <2> QED
      BY <2>1, <2>2, StopsTyped
  <1>8. ASSUME NEW c \in Client, SaveDiff(c)
        PROVE  DevCenterTypeOK' /\ RequestsSound'
    <2>1. developer[c] \in Work /\ developer[c].proposal \in Proposal
      BY <1>8 DEF SaveDiff, Works, RequestsSound
    <2>2. proposal' \in [Proposal -> Row]
      BY <1>8, <2>1 DEF SaveDiff, Row, Work
    <2>3. developer' \in [Client -> Work \cup {Idle}] /\ RequestsSound'
      BY <1>8, <2>1, TurnsTyped DEF SaveDiff, Works
    <2> QED
      BY <1>8, <2>2, <2>3 DEF SaveDiff
  <1>9. ASSUME NEW c \in Client, StorePending(c)
        PROVE  DevCenterTypeOK' /\ RequestsSound'
    BY <1>9, StopsTyped DEF StorePending, Works, RequestsSound
  <1>10. ASSUME NEW c \in Client, NEW f \in File, CopyFile(c, f)
         PROVE  DevCenterTypeOK' /\ RequestsSound'
    <2>1. developer[c] \in Work /\ developer[c].proposal \in Proposal
      BY <1>10 DEF CopyFile, Works, RequestsSound
    <2>2. PICK content \in Read(f) :
              developer' = [developer EXCEPT
                  ![c].saved = Copied(developer[c], f, content),
                  ![c].todo = developer[c].todo \ {f},
                  ![c].pc = IF developer[c].todo \ {f} = {} THEN "take" ELSE "copy"]
      BY <1>10 DEF CopyFile
    <2>3. content \in Content
      BY DEF Read, Content
    <2>4. Copied(developer[c], f, content) \in Snapshot
      BY <2>1, <2>3 DEF Copied, Snapshot, Work
    <2> HIDE DEF Copied
    <2>5. developer' \in [Client -> Work \cup {Idle}] /\ RequestsSound'
      BY <2>1, <2>2, <2>4 DEF Work, RequestsSound
    <2> QED
      BY <1>10, <2>5 DEF CopyFile
  <1>11. ASSUME NEW c \in Client, TakeSnapshot(c)
         PROVE  DevCenterTypeOK' /\ RequestsSound'
    <2>1. developer[c] \in Work /\ developer[c].proposal \in Proposal
      BY <1>11 DEF TakeSnapshot, Works, RequestsSound
    <2>2. Target[developer[c].proposal] \in SUBSET File
      BY <2>1, DevCenterAssumption
    <2>3. developer' \in [Client -> Work \cup {Idle}] /\ RequestsSound'
      BY <1>11, <2>1, <2>2, TurnsTyped DEF TakeSnapshot, Works
    <2> QED
      BY <1>11, <2>1, <2>3 DEF TakeSnapshot, Work
  <1>12. ASSUME NEW c \in Client, NEW f \in File, WriteFile(c, f)
         PROVE  DevCenterTypeOK' /\ RequestsSound'
    <2>1. developer[c] \in Work /\ developer[c].proposal \in Proposal
      BY <1>12 DEF WriteFile, Works, RequestsSound
    <2>2. developer[c].todo \ {f} \in SUBSET File
      BY <2>1 DEF Work
    <2>3. developer' \in [Client -> Work \cup {Idle}] /\ RequestsSound'
      <3>1. CASE developer[c].todo \ {f} = {}
        BY <1>12, <2>1, <2>2, <3>1, TurnsTyped DEF WriteFile, Works
      <3>2. CASE developer[c].todo \ {f} # {}
        BY <1>12, <2>1, <2>2, <3>2, TurnsTyped DEF WriteFile, Works
      <3> QED
        BY <3>1, <3>2
    <2> QED
      BY <1>12, <2>1, <2>3 DEF WriteFile, Content
  <1>13. ASSUME NEW c \in Client, NEW f \in File, WriteFails(c, f)
         PROVE  DevCenterTypeOK' /\ RequestsSound'
    <2>1. developer[c] \in Work /\ developer[c].proposal \in Proposal
      BY <1>13 DEF WriteFails, Works, RequestsSound
    <2>2. SavedFiles(developer[c].saved) \in SUBSET File
      BY DEF SavedFiles
    <2>3. developer' \in [Client -> Work \cup {Idle}] /\ RequestsSound'
      <3>1. CASE SavedFiles(developer[c].saved) = {}
        BY <1>13, <2>1, <2>2, <3>1, TurnsTyped DEF WriteFails, Works
      <3>2. CASE SavedFiles(developer[c].saved) # {}
        BY <1>13, <2>1, <2>2, <3>2, TurnsTyped DEF WriteFails, Works
      <3> QED
        BY <3>1, <3>2
    <2> QED
      BY <1>13, <2>3 DEF WriteFails, Content
  <1>14. ASSUME NEW c \in Client, SaveApplied(c)
         PROVE  DevCenterTypeOK' /\ RequestsSound'
    <2>1. developer[c] \in Work /\ developer[c].proposal \in Proposal
      BY <1>14 DEF SaveApplied, Works, RequestsSound
    <2>2. developer[c].saved \in Snapshot /\ developer[c].row \in Row
      BY <2>1 DEF Work
    <2>3. {developer[c].saved} \in AtMostOneOf(Snapshot)
      BY <2>2 DEF AtMostOneOf
    <2>4. [developer[c].row EXCEPT !.status = "applied", !.snapshot = {developer[c].saved}] \in Row
      BY <2>2, <2>3 DEF Row
    <2> QED
      BY <1>14, <2>1, <2>4, StopsTyped DEF SaveApplied
  <1>15. ASSUME NEW c \in Client, NEW f \in File, developer[c] # Idle, PutBack(c, f)
         PROVE  DevCenterTypeOK' /\ RequestsSound'
    <2>1. developer[c] \in Work
      BY <1>15
    <2> DEFINE rest == developer[c].todo \ {f}
    <2>2. rest \in SUBSET File
      BY <2>1 DEF Work
    <2>5. developer[c].todo \subseteq SavedFiles(developer[c].saved)
      BY <1>15 DEF PutBack, Works, RequestsSound
    <2>3. developer' \in [Client -> Work \cup {Idle}] /\ RequestsSound'
      <3>1. CASE Stops(c)
        BY <3>1, StopsTyped
      <3>2. CASE \/ Turns(c, "fail", rest) /\ Works(c, "undo")
                 \/ Turns(c, "undo", rest) /\ Works(c, "undo")
        BY <1>15, <2>2, <2>5, <3>2, TurnsTyped DEF Works, RequestsSound
      <3>3. CASE Turns(c, "revert", rest) /\ developer[c].proposal # Idle
        BY <1>15, <2>1, <2>2, <3>3, TurnsTyped DEF Work
      <3>4. CASE Turns(c, "restore", rest) /\ Works(c, "restore")
        BY <1>15, <2>2, <2>5, <3>4, TurnsTyped
      <3> QED
        BY <1>15, <3>1, <3>2, <3>3, <3>4 DEF PutBack
    <2>4. tree' \in [File -> Content]
      <3>1. developer[c].saved[f] # "unsaved"
        BY <1>15, <2>5 DEF PutBack, SavedFiles
      <3> QED
        BY <1>15, <2>1, <3>1 DEF PutBack, Work, Snapshot
    <2> QED
      BY <1>15, <2>3, <2>4 DEF PutBack
  <1>16. ASSUME NEW c \in Client, Dies(c)
         PROVE  DevCenterTypeOK' /\ RequestsSound'
    BY <1>16, StopsTyped DEF Dies, Content
  <1>17. UNCHANGED devCenterVars => DevCenterTypeOK' /\ RequestsSound'
    BY DEF devCenterVars, RequestsSound
  <1> QED
    BY <1>1, <1>2, <1>3, <1>4, <1>5, <1>6, <1>7, <1>8, <1>9, <1>10, <1>11, <1>12, <1>13, <1>14,
       <1>15, <1>16, <1>17 DEF DevCenterNext
(* Whatever the development center does, its variables keep their types. *)
THEOREM DevCenterTypeCorrect == DevCenterSpec => []DevCenterTypeOK
  BY TypesInit, TypesStep, PTL DEF DevCenterSpec

-----------------------------------------------------------------------------
(* Restore points *)

(* A snapshot has the original content of f. *)
IsKept(f) == \E s \in snapshots : s[f] = "original"

(* What a snapshot has of an original file is the original, or another has. *)
SnapshotsKeep ==
    \A s \in snapshots : \A f \in File \ Fresh : s[f] # "unsaved" => IsKept(f)

(* A copy that is taken is an original unless one is kept already; a file is
   written only when one is. *)
RequestKeeps(c) ==
    \A f \in File \ Fresh :
        /\ developer[c].pc \in {"copy", "take"} =>
              ((developer[c].saved[f] # "unsaved" \/ f \in Target[developer[c].proposal] \ developer[c].todo)
                  => (developer[c].saved[f] = "original" \/ IsKept(f)))
        /\ developer[c].pc = "write" =>
              ((developer[c].saved[f] # "unsaved" \/ f \in developer[c].todo) => IsKept(f))
        /\ developer[c].pc \in {"undo", "restore"} => (f \in developer[c].todo => IsKept(f))

(* Snapshots that requests hold, or that are noted in a row, have been taken. *)
SnapshotsTaken ==
    /\ \A p \in Proposal : proposal[p].snapshot \subseteq snapshots
    /\ \A c \in Client : developer[c] # Idle =>
          /\ developer[c].row.snapshot \subseteq snapshots
          /\ developer[c].pc \in {"write", "apply"} => developer[c].saved \in snapshots
          /\ developer[c].pc = "take" => developer[c].todo = {}

Keeping ==
    /\ OriginalsKept /\ SnapshotsKeep /\ SnapshotsTaken
    /\ \A c \in Client : developer[c] # Idle => RequestKeeps(c)

LEMMA KeepingInit == DevCenterInit => Keeping
  BY DEF DevCenterInit, Keeping, OriginalsKept, SnapshotsKeep, SnapshotsTaken, NewProposal

(* Snapshots are never lost. *)
LEMMA SnapshotsStay == [DevCenterNext]_devCenterVars => snapshots \subseteq snapshots'
  BY DEF DevCenterNext, devCenterVars, TestsEnd, CreateProposal, Reject, StartApply, StartRevert,
         AnswerFails, SaveDiff, StorePending, UnlinkPending, CopyFile, WriteFile, WriteFails,
         PutBack, TakeSnapshot, SaveFailure, SaveApplied, SaveReverted, StartRestore, Dies

LEMMA KeptStays ==
    ASSUME [DevCenterNext]_devCenterVars, NEW f \in File, IsKept(f)
    PROVE  IsKept(f)'
  BY SnapshotsStay DEF IsKept

(* Whoever is writing an original file, it is kept. *)
LEMMA WrittenAreKept ==
    ASSUME Keeping, NEW c \in Client, NEW f \in File \ Fresh, Writes(c, f)
    PROVE  IsKept(f)
  BY DEF Keeping, RequestKeeps, Writes

(* Only files that are being written change. *)
LEMMA OnlyWrittenChange ==
    ASSUME DevCenterTypeOK, [DevCenterNext]_devCenterVars, NEW f \in File, tree'[f] # tree[f]
    PROVE  \E c \in Client : Writes(c, f)
  <1> USE DEF DevCenterTypeOK
  <1>1. ASSUME NEW c \in Client, NEW g \in File, WriteFile(c, g) \/ WriteFails(c, g)
        PROVE  Writes(c, f)
    <2>1. Works(c, "write") /\ g \in developer[c].todo
      BY <1>1 DEF WriteFile, WriteFails
    <2>2. f = g
      BY <1>1 DEF WriteFile, WriteFails
    <2> QED
      BY <2>1, <2>2 DEF Works, Writes
  <1>2. ASSUME NEW c \in Client, NEW g \in File, PutBack(c, g)
        PROVE  Writes(c, f)
    <2>1. f = g
      BY <1>2 DEF PutBack
    <2> QED
      BY <1>2, <2>1 DEF PutBack, Works, Writes
  <1>3. ASSUME NEW c \in Client, Dies(c)
        PROVE  Writes(c, f)
    BY <1>3 DEF Dies
  <1> QED
    BY <1>1, <1>2, <1>3
    DEF DevCenterNext, devCenterVars, TestsEnd, CreateProposal, Reject, StartApply, StartRevert,
        AnswerFails, SaveDiff, StorePending, UnlinkPending, CopyFile, TakeSnapshot, SaveFailure,
        SaveApplied, SaveReverted, StartRestore

LEMMA OriginalsKeptStep ==
    ASSUME DevCenterTypeOK, Keeping, [DevCenterNext]_devCenterVars
    PROVE  OriginalsKept'
  <1> SUFFICES ASSUME NEW f \in File \ Fresh
               PROVE  tree'[f] = "original" \/ IsKept(f)'
    BY DEF OriginalsKept, IsKept
  <1>1. CASE tree'[f] = tree[f]
    BY <1>1, KeptStays DEF Keeping, OriginalsKept, IsKept
  <1>2. CASE tree'[f] # tree[f]
    BY <1>2, OnlyWrittenChange, WrittenAreKept, KeptStays
  <1> QED
    BY <1>1, <1>2

(* Requests that a step leaves alone go on keeping what they keep. *)
LEMMA OthersKeep ==
    ASSUME Keeping, [DevCenterNext]_devCenterVars, NEW c \in Client,
           developer'[c] = developer[c], developer[c] # Idle
    PROVE  RequestKeeps(c)'
  BY KeptStays DEF Keeping, RequestKeeps

(* What a request keeps after a step of its own. *)
LEMMA OwnStepKeeps ==
    ASSUME DevCenterTypeOK, Keeping, [DevCenterNext]_devCenterVars, NEW c \in Client,
           developer'[c] # developer[c], developer'[c] # Idle
    PROVE  RequestKeeps(c)'
  <1> USE DEF DevCenterTypeOK
  <1>1. ASSUME NEW d \in Client, NEW p \in Proposal, CreateProposal(d, p) \/ Reject(d, p)
        PROVE  RequestKeeps(c)'
    BY <1>1 DEF CreateProposal, Reject, Starts, RequestKeeps
  <1>2. ASSUME NEW d \in Client, NEW p \in Proposal, StartApply(d, p)
        PROVE  RequestKeeps(c)'
    BY <1>2 DEF StartApply, Starts, RequestKeeps, NoSnapshot
  <1>3. ASSUME NEW d \in Client, NEW s \in snapshots, NEW p \in Proposal \cup {Idle}, NEW row,
               NEW pc \in {"restore", "revert"}, Starts(d, pc, p, row, s, SavedFiles(s))
        PROVE  RequestKeeps(c)'
    <2>1. /\ c = d
          /\ developer'[c].pc \in {"restore", "revert"} /\ developer'[c].todo = SavedFiles(s)
      BY <1>3 DEF Starts
    <2>2. \A f \in File \ Fresh : f \in SavedFiles(s) => IsKept(f)'
      BY KeptStays DEF Keeping, SnapshotsKeep, SavedFiles
    <2> QED
      BY <2>1, <2>2 DEF RequestKeeps
  <1>4. ASSUME NEW d \in Client, NEW p \in Proposal, StartRevert(d, p)
        PROVE  RequestKeeps(c)'
    <2>1. PICK s \in proposal[p].snapshot :
              Starts(d, IF SavedFiles(s) = {} THEN "revert" ELSE "restore", p, proposal[p], s,
                     SavedFiles(s))
      BY <1>4 DEF StartRevert
    <2>2. s \in snapshots
      BY DEF Keeping, SnapshotsTaken
    <2>3. CASE SavedFiles(s) = {}
      BY <1>3, <2>1, <2>2, <2>3
    <2>4. CASE SavedFiles(s) # {}
      BY <1>3, <2>1, <2>2, <2>4
    <2> QED
      BY <2>3, <2>4
  <1>5. ASSUME NEW d \in Client, NEW s \in snapshots, StartRestore(d, s)
        PROVE  RequestKeeps(c)'
    BY <1>3, <1>5 DEF StartRestore
  <1>6. ASSUME NEW d \in Client, SaveDiff(d)
        PROVE  RequestKeeps(c)'
    <2>1. developer'[c].pc = "store"
      BY <1>6 DEF SaveDiff, Works, Turns
    <2> QED
      BY <2>1 DEF RequestKeeps
  <1>7. ASSUME NEW d \in Client, NEW g \in File, CopyFile(d, g)
        PROVE  RequestKeeps(c)'
    <2>1. c = d /\ Works(c, "copy") /\ tree' = tree /\ snapshots' = snapshots
      BY <1>7 DEF CopyFile
    <2>2. PICK content \in Read(g) :
              developer' = [developer EXCEPT
                  ![c].saved = Copied(developer[c], g, content),
                  ![c].todo = developer[c].todo \ {g},
                  ![c].pc = IF developer[c].todo \ {g} = {} THEN "take" ELSE "copy"]
      BY <1>7, <2>1 DEF CopyFile
    <2>3. developer[c] \in Work
      BY <2>1 DEF Works
    <2>4. /\ developer'[c].pc \in {"copy", "take"}
          /\ developer'[c].proposal = developer[c].proposal
          /\ developer'[c].todo = developer[c].todo \ {g}
          /\ developer'[c].saved = Copied(developer[c], g, content)
      BY <2>2, <2>3 DEF Work
    <2>5. g \in File \ Fresh => content = "original" \/ IsKept(g)
      <3>1. CASE content = tree[g]
        BY <3>1 DEF Keeping, OriginalsKept, IsKept
      <3>2. CASE \E e \in Client : Writes(e, g)
        BY <3>2, WrittenAreKept
      <3> QED
        BY <3>1, <3>2 DEF Read
    <2>6. ASSUME NEW f \in File \ Fresh,
                 \/ developer'[c].saved[f] # "unsaved"
                 \/ f \in Target[developer[c].proposal] \ developer'[c].todo
          PROVE  developer'[c].saved[f] = "original" \/ IsKept(f)
      <3>1. CASE f = g
        BY <2>3, <2>4, <2>5, <3>1 DEF Copied, Work, Snapshot
      <3>2. CASE f # g
        <4>1. developer'[c].saved[f] = developer[c].saved[f]
          BY <2>3, <2>4, <3>2 DEF Copied, Work, Snapshot
        <4>2. developer[c].saved[f] = "original" \/ IsKept(f)
          BY <2>1, <2>4, <2>6, <3>2, <4>1 DEF Keeping, RequestKeeps, Works
        <4> QED
          BY <4>1, <4>2
      <3> QED
        BY <3>1, <3>2
    <2> QED
      BY <2>4, <2>6, KeptStays DEF RequestKeeps
  <1>8. ASSUME NEW d \in Client, TakeSnapshot(d)
        PROVE  RequestKeeps(c)'
    <2>1. c = d /\ Works(c, "take") /\ developer[c].todo = {}
      BY <1>8 DEF TakeSnapshot, Turns, Keeping, SnapshotsTaken, Works
    <2>2. developer[c] \in Work /\ snapshots' = snapshots \cup {developer[c].saved}
      BY <1>8, <2>1 DEF TakeSnapshot, Works
    <2>3. /\ developer'[c].pc = "write"
          /\ developer'[c].saved = developer[c].saved
          /\ developer'[c].todo = Target[developer[c].proposal]
      BY <1>8, <2>1, <2>2 DEF TakeSnapshot, Turns, Work
    <2>4. ASSUME NEW f \in File \ Fresh,
                 developer[c].saved[f] # "unsaved" \/ f \in Target[developer[c].proposal]
          PROVE  IsKept(f)'
      <3>1. developer[c].saved[f] = "original" \/ IsKept(f)
        BY <2>1, <2>4 DEF Keeping, RequestKeeps, Works
      <3> QED
        BY <2>2, <3>1 DEF IsKept
    <2> QED
      BY <2>3, <2>4 DEF RequestKeeps
  <1>9. ASSUME NEW d \in Client, NEW g \in File, WriteFile(d, g)
        PROVE  RequestKeeps(c)'
    <2>1. c = d /\ Works(c, "write") /\ developer[c] \in Work
      BY <1>9 DEF WriteFile, Turns, Works
    <2>2. /\ developer'[c].pc \in {"write", "apply"}
          /\ developer'[c].saved = developer[c].saved
          /\ developer'[c].todo = developer[c].todo \ {g}
      BY <1>9, <2>1 DEF WriteFile, Turns, Work
    <2> QED
      BY <2>1, <2>2, KeptStays DEF Keeping, RequestKeeps, Works
  <1>10. ASSUME NEW d \in Client, NEW g \in File, WriteFails(d, g)
         PROVE  RequestKeeps(c)'
    <2>1. c = d /\ Works(c, "write") /\ developer[c] \in Work
      BY <1>10 DEF WriteFails, Turns, Works
    <2>2. /\ developer'[c].pc \in {"undo", "fail"}
          /\ developer'[c].todo = SavedFiles(developer[c].saved)
      BY <1>10, <2>1 DEF WriteFails, Turns, Work
    <2>3. \A f \in File \ Fresh : f \in SavedFiles(developer[c].saved) => IsKept(f)'
      BY <2>1, KeptStays DEF Keeping, RequestKeeps, Works, SavedFiles
    <2> QED
      BY <2>2, <2>3 DEF RequestKeeps
  <1>11. ASSUME NEW d \in Client, NEW g \in File, developer[d] # Idle, PutBack(d, g)
         PROVE  RequestKeeps(c)'
    <2>1. c = d /\ developer[c] \in Work /\ developer[c].pc \in {"undo", "restore"}
      BY <1>11 DEF PutBack, Turns, Stops, Works
    <2>2. /\ developer'[c].pc \in {"undo", "fail", "restore", "revert"}
          /\ developer'[c].todo = developer[c].todo \ {g}
      BY <1>11, <2>1 DEF PutBack, Turns, Stops, Work
    <2> QED
      BY <1>11, <2>1, <2>2, KeptStays DEF Keeping, RequestKeeps
  <1>12. ASSUME NEW d \in Client, Stops(d)
         PROVE  RequestKeeps(c)'
    BY <1>12 DEF Stops
  <1>13. CASE developer' = developer
    BY <1>13
  <1> QED
    BY <1>1, <1>2, <1>4, <1>5, <1>6, <1>7, <1>8, <1>9, <1>10, <1>11, <1>12, <1>13
    DEF DevCenterNext, devCenterVars, TestsEnd, AnswerFails, StorePending, UnlinkPending,
        SaveFailure, SaveApplied, SaveReverted, Dies

LEMMA SnapshotsKeepStep ==
    ASSUME DevCenterTypeOK, Keeping, [DevCenterNext]_devCenterVars
    PROVE  SnapshotsKeep'
  <1>1. ASSUME NEW c \in Client, TakeSnapshot(c)
        PROVE  SnapshotsKeep'
    <2>1. Works(c, "take") /\ snapshots' = snapshots \cup {developer[c].saved}
      BY <1>1 DEF TakeSnapshot
    <2>2. ASSUME NEW f \in File \ Fresh, developer[c].saved[f] # "unsaved"
          PROVE  IsKept(f)'
      <3>1. developer[c].saved[f] = "original" \/ IsKept(f)
        BY <2>1, <2>2 DEF Keeping, RequestKeeps, Works
      <3> QED
        BY <2>1, <3>1 DEF IsKept
    <2>3. \A s \in snapshots, f \in File \ Fresh : s[f] # "unsaved" => IsKept(f)'
      BY KeptStays DEF Keeping, SnapshotsKeep
    <2> QED
      BY <2>1, <2>2, <2>3 DEF SnapshotsKeep
  <1>2. CASE snapshots' = snapshots
    BY <1>2 DEF Keeping, SnapshotsKeep, IsKept
  <1> QED
    BY <1>1, <1>2
    DEF DevCenterNext, devCenterVars, TestsEnd, CreateProposal, Reject, StartApply, StartRevert,
        AnswerFails, SaveDiff, StorePending, UnlinkPending, CopyFile, WriteFile, WriteFails,
        PutBack, SaveFailure, SaveApplied, SaveReverted, StartRestore, Dies

LEMMA SnapshotsTakenStep ==
    ASSUME DevCenterTypeOK, Keeping, [DevCenterNext]_devCenterVars
    PROVE  SnapshotsTaken'
  <1> USE SnapshotsStay DEF DevCenterTypeOK, Keeping, SnapshotsTaken
  <1>1. ASSUME NEW p \in Proposal, NEW outcome \in {"passed", "failed"}, TestsEnd(p, outcome)
        PROVE  SnapshotsTaken'
    BY <1>1 DEF TestsEnd, Row
  <1>2. ASSUME NEW c \in Client, NEW p \in Proposal, CreateProposal(c, p)
        PROVE  SnapshotsTaken'
    BY <1>2 DEF CreateProposal, Starts, NewProposal
  <1>3. ASSUME NEW c \in Client, NEW p \in Proposal, Reject(c, p)
        PROVE  SnapshotsTaken'
    BY <1>3 DEF Reject, Starts, Row
  <1>4. ASSUME NEW c \in Client, NEW p \in Proposal, StartApply(c, p) \/ StartRevert(c, p)
        PROVE  SnapshotsTaken'
    BY <1>4 DEF StartApply, StartRevert, Starts
  <1>5. ASSUME NEW c \in Client, NEW s \in snapshots, StartRestore(c, s)
        PROVE  SnapshotsTaken'
    BY <1>5 DEF StartRestore, Starts, NewProposal
  <1>6. ASSUME NEW c \in Client, \/ AnswerFails(c) \/ SaveFailure(c) \/ SaveReverted(c)
                                 \/ StorePending(c) \/ UnlinkPending(c) \/ Dies(c)
        PROVE  SnapshotsTaken'
    <2>1. \A p \in Proposal : proposal'[p].snapshot = proposal[p].snapshot
      BY <1>6 DEF AnswerFails, SaveFailure, SaveReverted, StorePending, UnlinkPending, Dies, Row
    <2>2. Stops(c) /\ snapshots' = snapshots
      BY <1>6 DEF AnswerFails, SaveFailure, SaveReverted, StorePending, UnlinkPending, Dies
    <2> QED
      BY <2>1, <2>2 DEF Stops
  <1>7. ASSUME NEW c \in Client, SaveDiff(c)
        PROVE  SnapshotsTaken'
    <2>1. developer[c] \in Work /\ snapshots' = snapshots
      BY <1>7 DEF SaveDiff, Works
    <2>2. \A p \in Proposal : \/ proposal'[p] = proposal[p]
                             \/ proposal'[p].snapshot = developer[c].row.snapshot
      BY <1>7, <2>1 DEF SaveDiff, Work, Row
    <2>3. /\ developer'[c].pc = "store" /\ developer'[c].row = developer[c].row
          /\ \A d \in Client \ {c} : developer'[d] = developer[d]
      BY <1>7, <2>1 DEF SaveDiff, Turns, Work
    <2>4. developer[c] # Idle
      BY <1>7 DEF SaveDiff, Works
    <2> QED
      BY <2>1, <2>2, <2>3, <2>4
  <1>8. ASSUME NEW c \in Client, NEW f \in File, CopyFile(c, f)
        PROVE  SnapshotsTaken'
    <2>1. developer[c] \in Work /\ developer[c] # Idle /\ UNCHANGED <<snapshots, proposal>>
      BY <1>8 DEF CopyFile, Works
    <2>2. /\ developer'[c].pc \in {"copy", "take"} /\ developer'[c].row = developer[c].row
          /\ developer'[c].pc = "take" => developer'[c].todo = {}
          /\ \A d \in Client \ {c} : developer'[d] = developer[d]
      BY <1>8, <2>1 DEF CopyFile, Work
    <2> QED
      BY <2>1, <2>2
  <1>9. ASSUME NEW c \in Client, TakeSnapshot(c)
        PROVE  SnapshotsTaken'
    <2>1. /\ developer[c] \in Work /\ developer[c] # Idle /\ proposal' = proposal
          /\ snapshots' = snapshots \cup {developer[c].saved}
      BY <1>9 DEF TakeSnapshot, Works
    <2>2. /\ developer'[c].pc = "write" /\ developer'[c].row = developer[c].row
          /\ developer'[c].saved = developer[c].saved
          /\ \A d \in Client \ {c} : developer'[d] = developer[d]
      BY <1>9, <2>1 DEF TakeSnapshot, Turns, Work
    <2> QED
      BY <2>1, <2>2
  <1>10. ASSUME NEW c \in Client, NEW f \in File,
                \/ WriteFile(c, f) \/ WriteFails(c, f)
                \/ PutBack(c, f) /\ ~Stops(c) /\ developer[c] # Idle
         PROVE  SnapshotsTaken'
    <2>1. developer[c] \in Work /\ developer[c] # Idle /\ UNCHANGED <<snapshots, proposal>>
      BY <1>10 DEF WriteFile, WriteFails, PutBack, Works
    <2>2. /\ developer'[c].pc \in {"write", "apply", "undo", "fail", "restore", "revert"}
          /\ developer'[c].pc \in {"write", "apply"} => developer[c].pc = "write"
          /\ developer'[c].row = developer[c].row /\ developer'[c].saved = developer[c].saved
          /\ \A d \in Client \ {c} : developer'[d] = developer[d]
      <3>1. CASE WriteFile(c, f)
        BY <2>1, <3>1 DEF WriteFile, Turns, Work, Works
      <3>2. CASE WriteFails(c, f)
        BY <2>1, <3>2 DEF WriteFails, Turns, Work, Works
      <3>3. CASE PutBack(c, f) /\ ~Stops(c)
        BY <2>1, <3>3 DEF PutBack, Turns, Work, Works
      <3> QED
        BY <1>10, <3>1, <3>2, <3>3
    <2> QED
      BY <2>1, <2>2
  <1>11. ASSUME NEW c \in Client, SaveApplied(c)
         PROVE  SnapshotsTaken'
    <2>1. developer[c] \in Work /\ developer[c].saved \in snapshots
      BY <1>11 DEF SaveApplied, Works
    <2>2. \A p \in Proposal : \/ proposal'[p] = proposal[p]
                             \/ proposal'[p].snapshot = {developer[c].saved}
      BY <1>11, <2>1 DEF SaveApplied, Work, Row
    <2> QED
      BY <1>11, <2>1, <2>2 DEF SaveApplied, Stops
  <1>12. ASSUME NEW c \in Client, NEW f \in File, PutBack(c, f), Stops(c)
         PROVE  SnapshotsTaken'
    BY <1>12 DEF PutBack, Stops
  <1>13. CASE UNCHANGED devCenterVars
    BY <1>13 DEF devCenterVars
  <1> QED
    BY <1>1, <1>2, <1>3, <1>4, <1>5, <1>6, <1>7, <1>8, <1>9, <1>10, <1>11, <1>12, <1>13
    DEF DevCenterNext

(* "No code is applied without a restore point": for any numbers of files,
   proposals and developers, however their requests overlap or are cut off,
   the original content of each file is in place or in a snapshot. *)
THEOREM RestorePointsKept == DevCenterSpec => []OriginalsKept
  <1>1. DevCenterInit => DevCenterTypeOK /\ RequestsSound /\ Keeping
    BY TypesInit, KeepingInit
  <1>2. DevCenterTypeOK /\ RequestsSound /\ Keeping /\ [DevCenterNext]_devCenterVars
            => DevCenterTypeOK' /\ RequestsSound' /\ Keeping'
    <2> SUFFICES ASSUME DevCenterTypeOK, RequestsSound, Keeping, [DevCenterNext]_devCenterVars
                 PROVE  DevCenterTypeOK' /\ RequestsSound' /\ Keeping'
      OBVIOUS
    <2>1. \A c \in Client : developer'[c] # Idle => RequestKeeps(c)'
      BY OthersKeep, OwnStepKeeps
    <2> QED
      BY <2>1, TypesStep, OriginalsKeptStep, SnapshotsKeepStep, SnapshotsTakenStep DEF Keeping
  <1>3. Keeping => OriginalsKept
    BY DEF Keeping
  <1> QED
    BY <1>1, <1>2, <1>3, PTL DEF DevCenterSpec

-----------------------------------------------------------------------------
(* The accounts of customers *)

(* A request that credits is about a bill. *)
CreditsBills == \A c \in Client : Waits(c, "credit") => desk[c].bill \in Bill

LEMMA AccountsInit == CustomersInit => CustomersTypeOK /\ CreditsBills
  <1> SUFFICES ASSUME CustomersInit PROVE CustomersTypeOK /\ CreditsBills
    OBVIOUS
  <1>1. customer \in Account /\ ledger \in Int
    BY DEF CustomersInit, Account
  <1>4. consented \in BOOLEAN /\ overlapped \in BOOLEAN
    BY Zenon DEF CustomersInit
  <1>2. earned \subseteq Bill /\ earnings \in [Bill -> Nat]
    BY DEF CustomersInit
  <1>3. desk \in [Client -> Errand \cup {Idle}] /\ CreditsBills
    BY DEF CustomersInit, CreditsBills, Waits
  <1> QED
    BY <1>1, <1>2, <1>3, <1>4 DEF CustomersTypeOK

LEMMA AwardTyped ==
    ASSUME CustomersTypeOK, NEW b \in Bill, NEW n \in Points, NEW copy \in Account,
           Award(b, n, copy)
    PROVE  /\ customer' \in Account /\ ledger' \in Int
           /\ earned' \subseteq Bill /\ earnings' \in [Bill -> Nat]
  BY CustomersAssumption DEF CustomersTypeOK, Award, Account, Points

LEMMA AccountsStep ==
    ASSUME CustomersTypeOK, CreditsBills, [CustomersNext]_customersVars
    PROVE  CustomersTypeOK' /\ CreditsBills'
  <1> USE CustomersAssumption DEF CustomersTypeOK, CreditsBills, Waits
  <1>1. ASSUME NEW b \in Bill, NEW n \in Points, CloseBill(b, n)
        PROVE  CustomersTypeOK' /\ CreditsBills'
    BY <1>1, AwardTyped DEF CloseBill
  <1>2. ASSUME NEW c \in Client,
               \/ \E b \in Bill, n \in Points : BeginCredit(c, b, n)
               \/ \E n \in -MaxPoints .. MaxPoints : BeginAdjust(c, n)
               \/ BeginEdit(c) \/ BeginErase(c)
        PROVE  CustomersTypeOK' /\ CreditsBills'
    <2>1. /\ UNCHANGED <<customer, consented, ledger, earned, earnings>>
          /\ \E pc \in {"credit", "edit", "erase", "adjust"}, b \in Bill \cup {Idle}, n \in Int :
                Opens(c, pc, b, n) /\ (pc = "credit" => b \in Bill)
      BY <1>2 DEF BeginCredit, BeginEdit, BeginErase, BeginAdjust, Points
    <2> QED
      BY <2>1 DEF Opens, Errand
  <1>3. ASSUME NEW c \in Client, Credit(c)
        PROVE  CustomersTypeOK' /\ CreditsBills'
    <2>1. desk[c] \in Errand /\ desk[c].bill \in Bill /\ desk[c].copy \in Account
      BY <1>3 DEF Credit, Errand
    <2>2. Award(desk[c].bill, desk[c].points, desk[c].copy)
      BY <1>3 DEF Credit
    <2> QED
      BY <1>3, <2>1, <2>2 DEF Credit, Leaves, Award, Account, Errand
  <1>4. ASSUME NEW c \in Client, \/ Edit(c) \/ Anonymize(c) \/ DeleteConsents(c)
                                 \/ SavePoints(c) \/ BookPoints(c) \/ GiveUp(c)
        PROVE  CustomersTypeOK' /\ CreditsBills'
    <2>1. desk[c] \in Errand
      BY <1>4 DEF Edit, Anonymize, DeleteConsents, SavePoints, BookPoints, GiveUp
    <2>2. customer' \in Account
      <3>1. desk[c].copy \in Account /\ desk[c].points \in Int
        BY <2>1 DEF Errand
      <3>2. CASE customer' \in {customer, desk[c].copy}
        BY <3>1, <3>2
      <3>3. CASE customer' = [desk[c].copy EXCEPT !.erased = TRUE]
        BY <3>1, <3>3 DEF Account
      <3>4. CASE customer' = [customer EXCEPT !.points = desk[c].copy.points + desk[c].points]
        <4>1. desk[c].copy.points + desk[c].points \in Int
          BY <3>1 DEF Account
        <4> QED
          BY <3>4, <4>1 DEF Account
      <3> QED
        BY <1>4, <3>2, <3>3, <3>4
        DEF Edit, Anonymize, DeleteConsents, SavePoints, BookPoints, GiveUp
    <2>3. ledger' \in Int
      BY <1>4, <2>1 DEF Edit, Anonymize, DeleteConsents, SavePoints, BookPoints, GiveUp, Errand
    <2>4. /\ consented' \in BOOLEAN /\ overlapped' \in BOOLEAN
          /\ UNCHANGED <<earned, earnings>>
          /\ \/ Leaves(c) \/ Proceeds(c, "purge") \/ Proceeds(c, "book")
      BY <1>4 DEF Edit, Anonymize, DeleteConsents, SavePoints, BookPoints, GiveUp
    <2>5. desk' \in [Client -> Errand \cup {Idle}] /\ CreditsBills'
      BY <2>1, <2>4 DEF Leaves, Proceeds, Errand
    <2> QED
      BY <2>2, <2>3, <2>4, <2>5
  <1>5. CASE RecordConsent
    BY <1>5 DEF RecordConsent
  <1>6. CASE UNCHANGED customersVars
    BY <1>6 DEF customersVars
  <1> QED
    BY <1>1, <1>2, <1>3, <1>4, <1>5, <1>6 DEF CustomersNext

(* Whatever is done to a customer, the account keeps its types. *)
THEOREM CustomersTypeCorrect == CustomersSpec => []CustomersTypeOK
  BY AccountsInit, AccountsStep, PTL DEF CustomersSpec

(* A bill with an EARN transaction is found by the next closing. *)
Found == \A b \in Bill : earnings[b] <= 1 /\ (b \notin earned => earnings[b] = 0)

LEMMA FoundStep ==
    ASSUME CustomersTypeOK, Found, [CustomersNext]_customersVars
    PROVE  Found'
  <1>1. ASSUME NEW b, NEW n, NEW copy, Award(b, n, copy)
        PROVE  Found'
    BY <1>1 DEF Award, Credits, Found, CustomersTypeOK
  <1>2. CASE UNCHANGED <<earned, earnings>>
    BY <1>2 DEF Found
  <1> QED
    BY <1>1, <1>2
    DEF CustomersNext, customersVars, CloseBill, RecordConsent, BeginCredit, BeginAdjust, Credit,
        BeginEdit, Edit, BeginErase, Anonymize, DeleteConsents, SavePoints, BookPoints, GiveUp

(* A bill earns once, however many requests close it and whatever copies of
   the customer they hold (award_loyalty_points). *)
THEOREM BillsEarnOnce == CustomersSpec => []EarnedOnce
  <1>1. CustomersInit => Found
    BY DEF CustomersInit, Found
  <1>2. Found => EarnedOnce
    BY DEF Found, EarnedOnce
  <1> QED
    BY <1>1, <1>2, FoundStep, CustomersTypeCorrect, PTL DEF CustomersSpec

(* What makes the points agree with the ledger as long as requests come one by
   one: the copy of the request under way has the points of the customer, and
   points that are saved and not yet booked are the difference. *)
AccountSound ==
    ~overlapped =>
        /\ \A c, d \in Client : desk[c] # Idle /\ desk[d] # Idle => c = d
        /\ \A c \in Client : desk[c] # Idle /\ ~Waits(c, "book") =>
              desk[c].copy.points = customer.points
        /\ \A c \in Client : Waits(c, "book") => customer.points = ledger + desk[c].points
        /\ (\A c \in Client : ~Waits(c, "book")) => customer.points = ledger

(* Nobody else has a request under way, *)
Alone(c) == \A d \in Client \ {c} : desk[d] = Idle

(* ... so that a request that goes on is the only one that AccountSound is
   about, *)
LEMMA SoundWhenAlone ==
    ASSUME CustomersTypeOK', NEW c \in Client, Alone(c)',
           desk'[c] # Idle /\ ~Waits(c, "book")' =>
               desk'[c].copy.points = customer'.points /\ customer'.points = ledger',
           Waits(c, "book")' => customer'.points = ledger' + desk'[c].points,
           desk'[c] = Idle => customer'.points = ledger'
    PROVE  AccountSound'
  <1>1. \A d \in Client \ {c} : desk'[d] = Idle
    BY DEF Alone
  <1>2. (\A d \in Client : ~Waits(d, "book")') => customer'.points = ledger'
    OBVIOUS
  <1> QED
    BY <1>1, <1>2 DEF AccountSound, Waits

(* ... and closing a bill at once leaves one that nobody disturbs alone. *)
LEMMA AwardBalances ==
    ASSUME CustomersTypeOK, NEW b \in Bill, NEW n \in Points, NEW copy \in Account,
           customer.points = ledger, copy.points = customer.points, Award(b, n, copy)
    PROVE  customer'.points = ledger'
  <1>1. CASE Credits(b, copy)
    <2>1. customer' = [customer EXCEPT !.points = copy.points + n] /\ ledger' = ledger + n
      BY <1>1 DEF Award
    <2> QED
      BY <2>1 DEF CustomersTypeOK, Account
  <1>2. CASE ~Credits(b, copy)
    BY <1>2 DEF Award
  <1> QED
    BY <1>1, <1>2

LEMMA SoundStep ==
    ASSUME CustomersTypeOK, CustomersTypeOK', CreditsBills, AccountSound,
           [CustomersNext]_customersVars
    PROVE  AccountSound'
  <1> SUFFICES ASSUME ~overlapped' PROVE AccountSound'
    BY DEF AccountSound
  <1>1. ASSUME NEW b \in Bill, NEW n \in Points, CloseBill(b, n)
        PROVE  AccountSound'
    <2>1. \A d \in Client : desk[d] = Idle /\ desk'[d] = Idle
      BY <1>1 DEF CloseBill
    <2>2. ~overlapped
      BY <1>1 DEF CloseBill
    <2>3. customer.points = ledger
      BY <2>1, <2>2 DEF AccountSound, Waits
    <2>4. customer'.points = ledger'
      BY <1>1, <2>3, AwardBalances DEF CloseBill, CustomersTypeOK
    <2> QED
      BY <2>1, <2>4 DEF AccountSound, Waits
  <1>2. ASSUME NEW c \in Client,
               \/ \E b \in Bill, n \in Points : BeginCredit(c, b, n)
               \/ \E n \in -MaxPoints .. MaxPoints : BeginAdjust(c, n)
               \/ BeginEdit(c) \/ BeginErase(c)
        PROVE  AccountSound'
    <2>1. UNCHANGED <<customer, ledger>>
      BY <1>2 DEF BeginCredit, BeginEdit, BeginErase, BeginAdjust
    <2>2. PICK pc \in {"credit", "edit", "erase", "adjust"}, b \in Bill \cup {Idle}, n \in Int :
              Opens(c, pc, b, n)
      BY <1>2, CustomersAssumption DEF BeginCredit, BeginEdit, BeginErase, BeginAdjust, Points
    <2>3. ~overlapped /\ \A d \in Client : desk[d] = Idle
      BY <2>2 DEF Opens
    <2>4. customer.points = ledger
      BY <2>3 DEF AccountSound, Waits
    <2>5. desk'[c] = [pc |-> pc, copy |-> customer, bill |-> b, points |-> n]
      BY <2>2 DEF Opens, CustomersTypeOK
    <2>6. Alone(c)'
      BY <2>2, <2>3 DEF Alone, Opens, CustomersTypeOK
    <2>7. desk'[c] # Idle
      <3>1. [pc |-> pc, copy |-> customer, bill |-> b, points |-> n] \in Errand
        BY DEF Errand, CustomersTypeOK
      <3> QED
        BY <2>5, <3>1, IdleAssumption, Zenon
    <2>8. ~Waits(c, "book")' /\ desk'[c].copy.points = customer'.points
      BY <2>1, <2>5 DEF Waits
    <2> QED
      BY <2>1, <2>4, <2>6, <2>7, <2>8, SoundWhenAlone
  <1>3. ASSUME NEW c \in Client, desk[c] # Idle,
               \/ Credit(c) \/ Edit(c) \/ Anonymize(c) \/ DeleteConsents(c)
               \/ SavePoints(c) \/ BookPoints(c)
        PROVE  AccountSound'
    <2>1. desk[c] \in Errand /\ desk[c].copy \in Account /\ desk[c].points \in Int
      BY <1>3 DEF CustomersTypeOK, Errand
    <2>2. ~overlapped
      BY <1>3 DEF Credit, Edit, Anonymize, DeleteConsents, SavePoints, BookPoints
    <2>3. Alone(c)
      BY <1>3, <2>2 DEF Alone, AccountSound
    <2>4. Alone(c)'
      BY <1>3, <2>3 DEF Alone, CustomersTypeOK, Credit, Edit, Anonymize, DeleteConsents,
                        SavePoints, BookPoints, Leaves, Proceeds
    <2>5. ~Waits(c, "book") =>
              customer.points = ledger /\ desk[c].copy.points = customer.points
      BY <1>3, <2>2, <2>3 DEF Alone, AccountSound, Waits
    <2>6. CASE Credit(c)
      <3>1. Waits(c, "credit") /\ Award(desk[c].bill, desk[c].points, desk[c].copy)
        BY <2>6 DEF Credit
      <3>2. desk'[c] = Idle
        BY <2>6 DEF Credit, Leaves, CustomersTypeOK
      <3>3. customer.points = ledger /\ desk[c].copy.points = customer.points
        BY <2>5, <3>1 DEF Waits
      <3>4. CASE Credits(desk[c].bill, desk[c].copy)
        <4>1. /\ customer' = [customer EXCEPT !.points = desk[c].copy.points + desk[c].points]
              /\ ledger' = ledger + desk[c].points
          BY <3>1, <3>4 DEF Award
        <4>2. customer'.points = ledger'
          BY <4>1, <3>3 DEF CustomersTypeOK, Account
        <4> QED
          BY <4>2, <3>2, <2>4, SoundWhenAlone DEF Waits
      <3>5. CASE ~Credits(desk[c].bill, desk[c].copy)
        <4>1. customer'.points = ledger'
          BY <3>1, <3>3, <3>5 DEF Award
        <4> QED
          BY <4>1, <3>2, <2>4, SoundWhenAlone DEF Waits
      <3> QED
        BY <3>4, <3>5
    <2>7. CASE Edit(c) \/ DeleteConsents(c)
      <3>1. desk'[c] = Idle /\ ledger' = ledger /\ ~Waits(c, "book")
        BY <2>7 DEF Edit, DeleteConsents, Leaves, Waits, CustomersTypeOK
      <3>2. customer'.points = ledger'
        BY <2>5, <2>7, <3>1 DEF Edit, DeleteConsents
      <3> QED
        BY <3>1, <3>2, <2>4, SoundWhenAlone DEF Waits
    <2>8. CASE Anonymize(c)
      <3>1. ~Waits(c, "book") /\ ledger' = ledger
        BY <2>8 DEF Anonymize, Waits
      <3>2. desk'[c] = [desk[c] EXCEPT !.pc = "purge"]
        BY <2>8 DEF Anonymize, Proceeds, CustomersTypeOK
      <3>3. desk'[c].pc = "purge" /\ desk'[c].copy = desk[c].copy /\ desk'[c] # Idle
        BY <3>2, <2>1, IdleAssumption DEF Errand
      <3>4. customer'.points = desk[c].copy.points
        BY <2>8, <2>1 DEF Anonymize, Account
      <3> QED
        BY <2>4, <2>5, <3>1, <3>3, <3>4, SoundWhenAlone DEF Waits
    <2>9. CASE SavePoints(c)
      <3>1. ~Waits(c, "book") /\ ledger' = ledger
        BY <2>9 DEF SavePoints, Waits
      <3>2. desk'[c] = [desk[c] EXCEPT !.pc = "book"]
        BY <2>9 DEF SavePoints, Proceeds, CustomersTypeOK
      <3>3. desk'[c].pc = "book" /\ desk'[c].points = desk[c].points /\ desk'[c] # Idle
        BY <3>2, <2>1, IdleAssumption DEF Errand
      <3>4. customer'.points = desk[c].copy.points + desk[c].points
        BY <2>9, <2>1 DEF SavePoints, Account, CustomersTypeOK
      <3> QED
        BY <2>4, <2>5, <3>1, <3>3, <3>4, SoundWhenAlone DEF Waits
    <2>10. CASE BookPoints(c)
      <3>1. /\ desk'[c] = Idle /\ Waits(c, "book")
            /\ ledger' = ledger + desk[c].points /\ customer' = customer
        BY <2>10 DEF BookPoints, Leaves, CustomersTypeOK
      <3>2. customer'.points = ledger'
        BY <2>2, <3>1 DEF AccountSound
      <3> QED
        BY <3>1, <3>2, <2>4, SoundWhenAlone DEF Waits
    <2> QED
      BY <1>3, <2>6, <2>7, <2>8, <2>9, <2>10
  <1>4. CASE RecordConsent \/ UNCHANGED customersVars
    BY <1>4 DEF RecordConsent, customersVars, AccountSound, Waits
  <1>5. \A c \in Client : ~GiveUp(c)
    BY DEF GiveUp
  <1>6. \A c \in Client :
            Credit(c) \/ Edit(c) \/ Anonymize(c) \/ DeleteConsents(c) \/ SavePoints(c)
                \/ BookPoints(c) => desk[c] # Idle
    BY DEF Credit, Edit, Anonymize, DeleteConsents, SavePoints, BookPoints, Waits
  <1> QED
    BY <1>1, <1>2, <1>3, <1>4, <1>5, <1>6 DEF CustomersNext

(* As long as requests come one by one and none breaks off, the customer has
   the points that the ledger explains, for any bills, clients and amounts
   (award_loyalty_points, loyalty_adjust, customer_edit,
   customer_anonymize). *)
THEOREM LedgerExplainsPoints == CustomersSpec => []AccountAgrees
  <1>1. CustomersInit => AccountSound
    BY DEF CustomersInit, AccountSound, Waits
  <1>2. AccountSound => AccountAgrees
    BY DEF AccountSound, AccountAgrees
  <1>3. CustomersTypeOK /\ CreditsBills /\ AccountSound /\ [CustomersNext]_customersVars
            => CustomersTypeOK' /\ CreditsBills' /\ AccountSound'
    BY AccountsStep, SoundStep
  <1> QED
    BY <1>1, <1>2, <1>3, AccountsInit, PTL DEF CustomersSpec

-----------------------------------------------------------------------------
(* The numbers of documents *)

LEMMA GreatestExists ==
    ASSUME NEW S, S \subseteq Number, S # {}
    PROVE  \E n \in S : \A m \in S : m <= n
  <1> DEFINE T == {MaxNumber + 1 - n : n \in S}
  <1>2. T \subseteq Nat /\ T # {}
    <2>1. \A n \in Number : MaxNumber + 1 - n \in Nat
      BY NumbersAssumption DEF Number
    <2> QED
      BY <2>1
  <1>3. PICK x \in T : \A y \in T : x <= y
    <2> HIDE DEF T
    <2> QED
      BY <1>2, LeastNumber
  <1>5. PICK n \in S : x = MaxNumber + 1 - n
    BY <1>3
  <1>6. ASSUME NEW m \in S PROVE m <= n
    <2>1. MaxNumber \in Int /\ n \in Int /\ m \in Int
      BY NumbersAssumption DEF Number
    <2>2. MaxNumber + 1 - m \in T
      OBVIOUS
    <2>3. MaxNumber + 1 - n <= MaxNumber + 1 - m
      BY <1>3, <1>5, <2>2
    <2> QED
      BY <2>1, <2>3
  <1> QED
    BY <1>5, <1>6

(* Texts of the padded width come in the order of the numbers, and any text
   of another width is elsewhere. *)
LEMMA RankOrders ==
    ASSUME NEW m \in Number, NEW n \in Number, TextRank(m) <= TextRank(n), n < Limit, m < Limit
    PROVE  m <= n
  BY NumbersAssumption, SMTT(30) DEF TextRank, Number

LEMMA RankKeepsOrder ==
    ASSUME NEW m \in Number, NEW n \in Number, m <= n, n < Limit <=> m < Limit
    PROVE  TextRank(m) <= TextRank(n)
  BY NumbersAssumption, SMTT(30) DEF TextRank, Number

LEMMA RanksAreNumbers == \A n \in Number : TextRank(n) \in Int
  BY NumbersAssumption, SMTT(30) DEF TextRank, Number

(* The last of the texts exists: the greatest of the padded ones or the
   greatest of the wider ones. *)
LEMMA LastExists ==
    ASSUME NEW S, S \subseteq Number, S # {}
    PROVE  \E n \in S : \A m \in S : TextRank(m) <= TextRank(n)
  <1> DEFINE Narrow == {n \in S : n < Limit}
             Wide   == {n \in S : ~(n < Limit)}
             IsLast(U, n) == n \in U /\ \A m \in U : TextRank(m) <= TextRank(n)
  <1>1. ASSUME Narrow # {} PROVE \E n : IsLast(Narrow, n)
    <2>1. PICK n \in Narrow : \A m \in Narrow : m <= n
      BY <1>1, GreatestExists
    <2> QED
      BY <2>1, RankKeepsOrder
  <1>2. ASSUME Wide # {} PROVE \E n : IsLast(Wide, n)
    <2>1. PICK n \in Wide : \A m \in Wide : m <= n
      BY <1>2, GreatestExists
    <2> QED
      BY <2>1, RankKeepsOrder
  <1>3. CASE Narrow = {} \/ Wide = {}
    BY <1>1, <1>2, <1>3
  <1>4. CASE Narrow # {} /\ Wide # {}
    <2>1. PICK n, w : IsLast(Narrow, n) /\ IsLast(Wide, w)
      BY <1>1, <1>2, <1>4
    <2>2. CASE TextRank(n) <= TextRank(w)
      <3>1. \A m \in S : TextRank(m) <= TextRank(w)
        BY <2>1, <2>2, RanksAreNumbers
      <3> QED
        BY <2>1, <3>1
    <2>3. CASE TextRank(w) <= TextRank(n)
      <3>1. \A m \in S : TextRank(m) <= TextRank(n)
        BY <2>1, <2>3, RanksAreNumbers
      <3> QED
        BY <2>1, <3>1
    <2> QED
      BY <2>1, <2>2, <2>3, RanksAreNumbers
  <1> QED
    BY <1>3, <1>4

(* The next number follows a visible document that comes last. *)
LEMMA NextFollowsLast ==
    ASSUME NumbersTypeOK, Visible # {}
    PROVE  \E n \in Visible : /\ NextNumber = 1 + n
                              /\ \A m \in Visible : TextRank(m) <= TextRank(n)
  BY LastExists DEF NumbersTypeOK, NextNumber, Visible

LEMMA NextIsNumber ==
    ASSUME NumbersTypeOK, NextNumber <= MaxNumber
    PROVE  NextNumber \in Number
  <1>1. CASE Visible = {}
    BY <1>1, NumbersAssumption DEF NextNumber, Number
  <1>2. CASE Visible # {}
    BY <1>2, NextFollowsLast, NumbersAssumption DEF Number, Visible, NumbersTypeOK
  <1> QED
    BY <1>1, <1>2

LEMMA NumbersStep == NumbersTypeOK /\ [NumbersNext]_numbersVars => NumbersTypeOK'
  <1> SUFFICES ASSUME NumbersTypeOK, [NumbersNext]_numbersVars PROVE NumbersTypeOK'
    OBVIOUS
  <1> USE DEF NumbersTypeOK
  <1>1. CASE CreateInService
    BY <1>1, NextIsNumber DEF CreateInService, Insert
  <1>2. ASSUME NEW c \in Client, AskNumber(c) PROVE NumbersTypeOK'
    BY <1>2, NextIsNumber DEF AskNumber
  <1>3. ASSUME NEW c \in Client, CreateDirectly(c) PROVE NumbersTypeOK'
    BY <1>3 DEF CreateDirectly, Insert
  <1>4. ASSUME NEW n \in Number, Destroy(n) PROVE NumbersTypeOK'
    BY <1>4 DEF Destroy, Visible
  <1>5. CASE UNCHANGED numbersVars
    BY <1>5 DEF numbersVars
  <1> QED
    BY <1>1, <1>2, <1>3, <1>4, <1>5 DEF NumbersNext

(* Whatever is created and deleted, the numbers keep their types. *)
THEOREM NumbersTypeCorrect == NumbersSpec => []NumbersTypeOK
  <1>1. NumbersInit => NumbersTypeOK
    BY DEF NumbersInit, NumbersTypeOK
  <1> QED
    BY <1>1, NumbersStep, PTL DEF NumbersSpec

(* Within the padding, the next document gets a number that no row has,
   whatever is created at the same time and however many were deleted
   (daily_sequence_number). *)
THEOREM NumbersAreNew == NumbersSpec => []NumberIsNew
  <1>1. NumbersTypeOK => NumberIsNew
    <2> SUFFICES ASSUME NumbersTypeOK, NEW k \in issued, NextNumber = k,
                        \A n \in issued : n < Limit,
                        \A d \in removed : \E n \in Visible : d < n
                 PROVE  FALSE
      BY DEF NumberIsNew
    <2>1. PICK m \in Visible : k <= m
      BY DEF Visible, NumbersTypeOK, Number
    <2>2. PICK n \in Visible : NextNumber = 1 + n /\ TextRank(m) <= TextRank(n)
      BY <2>1, NextFollowsLast
    <2>3. m \in Number /\ n \in Number /\ m < Limit /\ n < Limit
      BY <2>1, <2>2 DEF Visible, NumbersTypeOK
    <2>4. m <= n
      BY <2>2, <2>3, RankOrders
    <2> QED
      BY <2>1, <2>2, <2>3, <2>4 DEF Number
  <1> QED
    BY <1>1, NumbersTypeCorrect, PTL
-----------------------------------------------------------------------------
(* The back office as a whole *)

(* The run of the back office moves one part at a time and bounds what it
   does: what it does to a part is a behaviour of that part's specification,
   so that the theorems about the parts hold of it. *)
THEOREM PartsOfBackOffice ==
    BackOfficeSpec => DocumentsSpec /\ CustomersSpec /\ DevCenterSpec /\ NumbersSpec
  <1>1. BackOfficeInit => DocumentsInit /\ CustomersInit /\ DevCenterInit /\ NumbersInit
    BY DEF BackOfficeInit
  <1>2. [BackOfficeNext]_<<stockPart, customersVars, devCenterVars, numbersVars>>
            => /\ [DocumentsNext]_<<vars, documentVars>>
               /\ [CustomersNext]_customersVars
               /\ [DevCenterNext]_devCenterVars
               /\ [NumbersNext]_numbersVars
    BY Zenon DEF BackOfficeNext, stockPart
  <1> QED
    BY <1>1, <1>2, PTL DEF BackOfficeSpec, DocumentsSpec, CustomersSpec, DevCenterSpec, NumbersSpec

(* Every part of the back office keeps its types. *)
THEOREM BackOfficeTypeCorrect == BackOfficeSpec => []BackOfficeTypeOK
  <1>1. TypeOK /\ DocumentsTypeOK /\ CustomersTypeOK /\ DevCenterTypeOK /\ NumbersTypeOK
            => BackOfficeTypeOK
    BY DEF BackOfficeTypeOK
  <1> QED
    BY <1>1, PartsOfBackOffice, StockTypeCorrect, DocumentsTypeCorrect, CustomersTypeCorrect,
       DevCenterTypeCorrect, NumbersTypeCorrect, PTL

=============================================================================
