----------------------------- MODULE DevCenter -----------------------------
(***************************************************************************)
(* The development center (apps/devcenter): code proposals of the AI, the  *)
(* files they are applied to, and the snapshots they are taken back by.    *)
(*                                                                         *)
(* A proposal holds whole files.  Every file is copied, written and        *)
(* restored by a step of its own, and several developers may be at work.   *)
(* What becomes of a file is all that is told of its contents.  Git        *)
(* branches and the terminal are left out, and so are two snapshots of one *)
(* proposal within one second, which share a directory.                    *)
(***************************************************************************)
EXTENDS Clients

CONSTANTS
    File,        \* the project files that proposals touch
    Fresh,       \* those that do not exist at first
    Proposal,
    Target       \* [Proposal -> the files it changes]

ASSUME DevCenterAssumption ==
    Fresh \subseteq File /\ Target \in [Proposal -> SUBSET File]

VARIABLES
    tree,        \* [File -> where its content comes from]
    proposal,    \* [Proposal -> its row]
    pending,     \* proposals whose new contents are stored
    snapshots,   \* the snapshots taken
    developer    \* [Client -> the request]

devCenterVars == <<tree, proposal, pending, snapshots, developer>>

(* A half written file is torn. *)
Content == {"original", "none", "torn"} \cup Proposal

(* What a snapshot has of each file; of missing files, and of files that are
   none of the proposal's, it has nothing. *)
Snapshot == [File -> (Content \ {"none"}) \cup {"unsaved"}]
NoSnapshot == [f \in File |-> "unsaved"]

(* A proposal has one snapshot or none. *)
AtMostOneOf(S) == {T \in SUBSET S : \A s, t \in T : s = t}

Row == [status : {"none", "draft", "reviewing", "applied", "rejected", "reverted", "failed"},
        diff : BOOLEAN, tested : {"no", "passed", "failed"}, snapshot : AtMostOneOf(Snapshot)]

Work == [pc : {"ask", "store", "copy", "take", "write", "undo", "fail", "apply",
               "restore", "revert", "unlink"},
         proposal : Proposal \cup {Idle}, row : Row, saved : Snapshot, todo : SUBSET File]

DevCenterTypeOK ==
    /\ tree \in [File -> Content]
    /\ proposal \in [Proposal -> Row]
    /\ pending \subseteq Proposal
    /\ snapshots \subseteq Snapshot
    /\ developer \in [Client -> Work \cup {Idle}]

NewProposal == [status |-> "none", diff |-> FALSE, tested |-> "no", snapshot |-> {}]

DevCenterInit ==
    /\ tree = [f \in File |-> IF f \in Fresh THEN "none" ELSE "original"]
    /\ proposal = [p \in Proposal |-> NewProposal]
    /\ pending = {} /\ snapshots = {}
    /\ developer = [c \in Client |-> Idle]

Works(c, pc) == developer[c] # Idle /\ developer[c].pc = pc

Starts(c, pc, p, row, saved, todo) ==
    /\ developer[c] = Idle
    /\ developer' = [developer EXCEPT ![c] =
          [pc |-> pc, proposal |-> p, row |-> row, saved |-> saved, todo |-> todo]]

Stops(c) == developer' = [developer EXCEPT ![c] = Idle]

Turns(c, pc, todo) == developer' = [developer EXCEPT ![c].pc = pc, ![c].todo = todo]

-----------------------------------------------------------------------------
(* create_proposal: the row, the answer of the AI, the stored contents. *)

CreateProposal(c, p) ==
    LET row == [NewProposal EXCEPT !.status = "draft"]
    IN  /\ proposal[p].status = "none"
        /\ proposal' = [proposal EXCEPT ![p] = row]
        /\ Starts(c, "ask", p, row, NoSnapshot, {})
        /\ UNCHANGED <<tree, pending, snapshots>>

(* No answer, or none that can be used. *)
AnswerFails(c) ==
    /\ Works(c, "ask")
    /\ proposal' = [proposal EXCEPT ![developer[c].proposal].status = "failed"]
    /\ Stops(c)
    /\ UNCHANGED <<tree, pending, snapshots>>

(* The whole row is saved, from the copy that was created. *)
SaveDiff(c) ==
    /\ Works(c, "ask")
    /\ proposal' = [proposal EXCEPT ![developer[c].proposal] =
          [developer[c].row EXCEPT !.status = "reviewing", !.diff = TRUE]]
    /\ Turns(c, "store", {})
    /\ UNCHANGED <<tree, pending, snapshots>>

StorePending(c) ==
    /\ Works(c, "store")
    /\ pending' = pending \cup {developer[c].proposal}
    /\ Stops(c)
    /\ UNCHANGED <<tree, proposal, snapshots>>

(* run_tests runs for long and then saves its own fields only. *)
TestsEnd(p, outcome) ==
    /\ proposal[p].status # "none"
    /\ proposal' = [proposal EXCEPT ![p].tested = outcome]
    /\ UNCHANGED <<tree, pending, snapshots, developer>>

(* reject_proposal, in any status: the row, then the stored contents. *)
Reject(c, p) ==
    /\ proposal[p].status # "none"
    /\ proposal' = [proposal EXCEPT ![p].status = "rejected"]
    /\ Starts(c, "unlink", p, proposal[p], NoSnapshot, {})
    /\ UNCHANGED <<tree, pending, snapshots>>

UnlinkPending(c) ==
    /\ Works(c, "unlink")
    /\ pending' = pending \ {developer[c].proposal}
    /\ Stops(c)
    /\ UNCHANGED <<tree, proposal, snapshots>>

-----------------------------------------------------------------------------
(* apply_proposal: rows and contents are loaded, ... *)
StartApply(c, p) ==
    /\ proposal[p].status # "applied" /\ proposal[p].tested # "failed"
    /\ proposal[p].diff /\ p \in pending
    /\ Starts(c, "copy", p, proposal[p], NoSnapshot, Target[p])
    /\ UNCHANGED <<tree, proposal, pending, snapshots>>

(* What a reader finds, who may come while the file is written. *)
Writes(c, f) ==
    developer[c] # Idle /\ developer[c].pc \in {"write", "undo", "restore"} /\ f \in developer[c].todo
Read(f) == {tree[f]} \cup {"torn" : c \in {d \in Client : Writes(d, f)}}

Copied(w, f, content) == IF content = "none" THEN w.saved ELSE [w.saved EXCEPT ![f] = content]

(* ... the files are copied ... *)
CopyFile(c, f) ==
    LET w == developer[c]
        rest == w.todo \ {f}
    IN  /\ Works(c, "copy") /\ f \in w.todo
        /\ \E content \in Read(f) :
              developer' = [developer EXCEPT ![c].saved = Copied(w, f, content), ![c].todo = rest,
                                             ![c].pc = IF rest = {} THEN "take" ELSE "copy"]
        /\ UNCHANGED <<tree, proposal, pending, snapshots>>

(* Mutant: the copies are thrown away. *)
TakeNoSnapshot(c) ==
    /\ Works(c, "take")
    /\ Turns(c, "write", Target[developer[c].proposal])
    /\ UNCHANGED <<tree, proposal, pending, snapshots>>

(* ... to a snapshot, ... *)
TakeSnapshot(c) ==
    /\ Works(c, "take")
    /\ snapshots' = snapshots \cup {developer[c].saved}
    /\ Turns(c, "write", Target[developer[c].proposal])
    /\ UNCHANGED <<tree, proposal, pending>>

(* ... and written. *)
WriteFile(c, f) ==
    LET rest == developer[c].todo \ {f}
    IN  /\ Works(c, "write") /\ f \in developer[c].todo
        /\ tree' = [tree EXCEPT ![f] = developer[c].proposal]
        /\ Turns(c, IF rest = {} THEN "apply" ELSE "write", rest)
        /\ UNCHANGED <<proposal, pending, snapshots>>

SavedFiles(s) == {f \in File : s[f] # "unsaved"}

(* A write fails, perhaps half way: what the snapshot has is put back ... *)
WriteFails(c, f) ==
    LET undo == SavedFiles(developer[c].saved)
    IN  /\ Works(c, "write") /\ f \in developer[c].todo
        /\ \E content \in {tree[f], "torn"} : tree' = [tree EXCEPT ![f] = content]
        /\ Turns(c, IF undo = {} THEN "fail" ELSE "undo", undo)
        /\ UNCHANGED <<proposal, pending, snapshots>>

(* ... and the proposal has failed; its snapshot is not noted in it. *)
SaveFailure(c) ==
    /\ Works(c, "fail")
    /\ proposal' = [proposal EXCEPT ![developer[c].proposal].status = "failed"]
    /\ Stops(c)
    /\ UNCHANGED <<tree, pending, snapshots>>

(* The whole row is saved, from the copy loaded at first. *)
SaveApplied(c) ==
    LET w == developer[c]
    IN  /\ Works(c, "apply")
        /\ proposal' = [proposal EXCEPT ![w.proposal] =
              [w.row EXCEPT !.status = "applied", !.snapshot = {w.saved}]]
        /\ Stops(c)
        /\ UNCHANGED <<tree, pending, snapshots>>

-----------------------------------------------------------------------------
(* revert_proposal, in any status, and snapshot_restore. *)
StartRevert(c, p) ==
    \E s \in proposal[p].snapshot :
        /\ Starts(c, IF SavedFiles(s) = {} THEN "revert" ELSE "restore", p, proposal[p], s,
                  SavedFiles(s))
        /\ UNCHANGED <<tree, proposal, pending, snapshots>>

StartRestore(c, s) ==
    /\ s \in snapshots /\ SavedFiles(s) # {}
    /\ Starts(c, "restore", Idle, NewProposal, s, SavedFiles(s))
    /\ UNCHANGED <<tree, proposal, pending, snapshots>>

(* Files that the snapshot does not have stay as they are. *)
PutBack(c, f) ==
    LET w == developer[c]
        rest == w.todo \ {f}
    IN  /\ f \in w.todo
        /\ tree' = [tree EXCEPT ![f] = w.saved[f]]
        /\ \/ Works(c, "undo") /\ Turns(c, IF rest = {} THEN "fail" ELSE "undo", rest)
           \/ /\ Works(c, "restore")
              /\ IF rest = {} /\ w.proposal = Idle THEN Stops(c)
                 ELSE Turns(c, IF rest = {} THEN "revert" ELSE "restore", rest)
        /\ UNCHANGED <<proposal, pending, snapshots>>

SaveReverted(c) ==
    /\ Works(c, "revert")
    /\ proposal' = [proposal EXCEPT ![developer[c].proposal].status = "reverted"]
    /\ Stops(c)
    /\ UNCHANGED <<tree, pending, snapshots>>

(* The process ends, perhaps in the middle of a file. *)
Dies(c) ==
    /\ developer[c] # Idle
    /\ \/ UNCHANGED tree
       \/ \E f \in File : Writes(c, f) /\ tree' = [tree EXCEPT ![f] = "torn"]
    /\ Stops(c)
    /\ UNCHANGED <<proposal, pending, snapshots>>

DevCenterNext ==
    \/ \E p \in Proposal : \E outcome \in {"passed", "failed"} : TestsEnd(p, outcome)
    \/ \E c \in Client :
          \/ \E p \in Proposal :
                CreateProposal(c, p) \/ Reject(c, p) \/ StartApply(c, p) \/ StartRevert(c, p)
          \/ AnswerFails(c) \/ SaveDiff(c) \/ StorePending(c) \/ UnlinkPending(c)
          \/ \E f \in File : CopyFile(c, f) \/ WriteFile(c, f) \/ WriteFails(c, f)
          \/ \E f \in File : developer[c] # Idle /\ PutBack(c, f)
          \/ TakeSnapshot(c) \/ SaveFailure(c) \/ SaveApplied(c) \/ SaveReverted(c)
          \/ \E s \in snapshots : StartRestore(c, s)
          \/ Dies(c)

DevCenterSpec == DevCenterInit /\ [][DevCenterNext]_devCenterVars

-----------------------------------------------------------------------------
(* "No code is applied without a restore point" (apps/devcenter/services.py):
   whatever is applied, reverted, cut off or restored, in whatever order and
   however interleaved, each file the project had is still what it was or can
   be put back from a snapshot. *)
OriginalsKept ==
    \A f \in File \ Fresh :
        tree[f] = "original" \/ \E s \in snapshots : s[f] = "original"
=============================================================================
