---------------------------- MODULE FileManager ----------------------------
(***************************************************************************)
(* Files that the program writes on a remote host, across successive runs  *)
(* of the program on one stack: FileManager.CopyInlineFile, which writes   *)
(* the content to a fresh local temporary file, and copyRemoteFile, which  *)
(* registers a copy of that file to the remote temporary directory and a   *)
(* MoveFile command that puts it in place.                                 *)
(*                                                                         *)
(* An update asks for some content at some paths (`want').  A path that    *)
(* the stack already manages is replaced in every update, since the random *)
(* name of the temporary file is part of the command: the old command is   *)
(* deleted (which puts the original file back) before the new one is       *)
(* created.  A path no longer asked for is deleted once everything asked   *)
(* for is in place.  A command may fail, the connection may drop or the    *)
(* program may be killed at any point, and then what was done may or may   *)
(* not have been recorded in the stack's checkpoint.                       *)
(***************************************************************************)
EXTENDS MovedFile

CONSTANTS
  Path,      \* remote paths the program may write
  Content,   \* contents it may write
  Original,  \* content of a file that was there before the program
  Torn,      \* what an interrupted `cp' leaves behind
  None       \* "not asked for" and "not in the checkpoint"

ASSUME ContentAssumption ==
  /\ NoFile \notin Content \cup {Original, Torn}
  /\ Original \notin Content \cup {Torn}
  /\ Torn \notin Content
  /\ None \notin Content

VARIABLES
  want,      \* what the current update asks for at each path
  stage,     \* where each path stands in the current update
  tmp,       \* the file in the remote temporary directory, by path
  fs,        \* the remote paths
  recorded,  \* the stack's checkpoint: the content recorded for each path
  before,    \* (ghost) the file that was at each path before the program
  unsaved    \* (ghost) a command of this path acted and was not recorded

vars == <<want, stage, tmp, fs, recorded, before, unsaved>>

Stages == {"idle", "temp", "replace", "move", "copy", "remove", "done"}

FileContent == Content \cup {Original, Torn, NoFile}
AnyFile == [content : FileContent, mode : {"default"}]

TypeOK ==
  /\ want \in [Path -> Content \cup {None}]
  /\ stage \in [Path -> Stages]
  /\ tmp \in [Path -> Content \cup {NoFile}]
  /\ fs \in [Path -> [dest : AnyFile, backup : AnyFile]]
  /\ recorded \in [Path -> Content \cup {None}]
  /\ before \in [Path -> {Missing, File(Original, "default")}]
  /\ unsaved \in [Path -> BOOLEAN]

Init ==
  /\ want = [p \in Path |-> None]
  /\ stage = [p \in Path |-> "idle"]
  /\ tmp = [p \in Path |-> NoFile]
  /\ before \in [Path -> {Missing, File(Original, "default")}]
  /\ fs = [p \in Path |-> Untouched(before[p])]
  /\ recorded = [p \in Path |-> None]
  /\ unsaved = [p \in Path |-> FALSE]

Idle == \A p \in Path : stage[p] = "idle"

----------------------------------------------------------------------------
(* One update.                                                             *)

(* Mutant: MoveFile is registered without its dependency on the copy.      *)
UpdateMoveFirst(w) ==
  /\ Idle
  /\ want' = w
  /\ tmp' = [p \in Path |-> NoFile]
  /\ stage' = [p \in Path |-> IF w[p] # None
                              THEN IF recorded[p] # None THEN "replace" ELSE "move"
                              ELSE IF recorded[p] # None THEN "remove"
                              ELSE "done"]
  /\ UNCHANGED <<fs, recorded, before, unsaved>>

(* The program runs: it registers a copy and a move for each path of w.    *)
(* The temporary names are new, so no temporary file has them yet.         *)
Update(w) ==
  /\ Idle
  /\ want' = w
  /\ tmp' = [p \in Path |-> NoFile]
  /\ stage' = [p \in Path |-> IF w[p] # None THEN "temp"
                              ELSE IF recorded[p] # None THEN "remove"
                              ELSE "done"]
  /\ UNCHANGED <<fs, recorded, before, unsaved>>

(* remote.CopyFile to the temporary directory, which MoveFile waits for.   *)
CopyTemp(p) ==
  /\ stage[p] = "temp"
  /\ tmp' = [tmp EXCEPT ![p] = want[p]]
  /\ stage' = [stage EXCEPT ![p] = IF recorded[p] = None THEN "move"
                                   ELSE "replace"]
  /\ UNCHANGED <<want, fs, recorded, before, unsaved>>

(* Mutant: the record keeps the file instead of being cleared.             *)
DeleteOldKeepsRecord(p) ==
  /\ stage[p] = "replace"
  /\ fs' = [fs EXCEPT ![p] = MoveFileDelete(@)]
  /\ recorded' = [recorded EXCEPT ![p] = NoFile]
  /\ stage' = [stage EXCEPT ![p] = "move"]
  /\ UNCHANGED <<want, tmp, before, unsaved>>

(* DeleteBeforeReplace: the delete command of the recorded MoveFile.       *)
DeleteOld(p) ==
  /\ stage[p] = "replace"
  /\ fs' = [fs EXCEPT ![p] = MoveFileDelete(@)]
  /\ recorded' = [recorded EXCEPT ![p] = None]
  /\ stage' = [stage EXCEPT ![p] = "move"]
  /\ UNCHANGED <<want, tmp, before, unsaved>>

(* The create command of MoveFile, up to its `cp'.                         *)
Move(p) ==
  /\ stage[p] = "move"
  /\ fs' = [fs EXCEPT ![p] = MoveAside(@)]
  /\ stage' = [stage EXCEPT ![p] = "copy"]
  /\ UNCHANGED <<want, tmp, recorded, before, unsaved>>

(* Its `cp', and the record of the new command in the checkpoint.          *)
Copy(p) ==
  /\ stage[p] = "copy"
  /\ fs' = [fs EXCEPT ![p] = CopyOver(@, tmp[p])]
  /\ recorded' = [recorded EXCEPT ![p] = want[p]]
  /\ stage' = [stage EXCEPT ![p] = "done"]
  /\ UNCHANGED <<want, tmp, before, unsaved>>

(* Mutant: a deletion waits for the other deletions.                       *)
RemovableLast(p) ==
  stage[p] = "remove" /\ \A q \in Path \ {p} : stage[q] = "done"

(* Deletions come last, when everything the update creates is in place.    *)
Removable(p) ==
  stage[p] = "remove" /\ \A q \in Path : stage[q] \in {"remove", "done"}

Remove(p) ==
  /\ Removable(p)
  /\ fs' = [fs EXCEPT ![p] = MoveFileDelete(@)]
  /\ recorded' = [recorded EXCEPT ![p] = None]
  /\ stage' = [stage EXCEPT ![p] = "done"]
  /\ UNCHANGED <<want, tmp, before, unsaved>>

Finish ==
  /\ \A p \in Path : stage[p] = "done"
  /\ stage' = [p \in Path |-> "idle"]
  /\ UNCHANGED <<want, tmp, fs, recorded, before, unsaved>>

----------------------------------------------------------------------------
(* An update that stops half way.                                          *)

(* A command fails before it acts, or the program is killed.               *)
Interrupt ==
  /\ ~Idle
  /\ stage' = [p \in Path |-> "idle"]
  /\ UNCHANGED <<want, tmp, fs, recorded, before, unsaved>>

(* `cp' wrote all or part of the file, and the update stopped before the   *)
(* command was recorded.                                                   *)
CopyUnsaved(p) ==
  /\ stage[p] = "copy"
  /\ \E written \in {tmp[p], Torn} : fs' = [fs EXCEPT ![p] = CopyOver(@, written)]
  /\ unsaved' = [unsaved EXCEPT ![p] = TRUE]
  /\ stage' = [q \in Path |-> "idle"]
  /\ UNCHANGED <<want, tmp, recorded, before>>

(* The delete command ran, and the update stopped before that was recorded.*)
DeleteUnsaved(p) ==
  /\ stage[p] = "replace" \/ Removable(p)
  /\ fs' = [fs EXCEPT ![p] = MoveFileDelete(@)]
  /\ unsaved' = [unsaved EXCEPT ![p] = TRUE]
  /\ stage' = [q \in Path |-> "idle"]
  /\ UNCHANGED <<want, tmp, recorded, before>>

----------------------------------------------------------------------------
Step(p) == CopyTemp(p) \/ DeleteOld(p) \/ Move(p) \/ Copy(p) \/ Remove(p)

Next ==
  \/ \E w \in [Path -> Content \cup {None}] : Update(w)
  \/ \E p \in Path : CopyTemp(p)
  \/ \E p \in Path : DeleteOld(p)
  \/ \E p \in Path : Move(p)
  \/ \E p \in Path : Copy(p)
  \/ \E p \in Path : Remove(p)
  \/ Finish
  \/ Interrupt
  \/ \E p \in Path : CopyUnsaved(p)
  \/ \E p \in Path : DeleteUnsaved(p)

Spec == Init /\ [][Next]_vars

(* The engine keeps executing steps that are ready.                        *)
FairSpec == Spec /\ WF_vars(Finish) /\ \A p \in Path : WF_vars(Step(p))

----------------------------------------------------------------------------
(* Properties.                                                             *)

(* A file that was on the host before the program wrote its path is never  *)
(* lost, whatever fails in between: it is at the path or at the backup     *)
(* path.  The one way to lose it is a command that acted and was not       *)
(* recorded (MoveFile's create and delete, run twice, drop the backup).    *)
OriginalKept ==
  \A p \in Path :
    Exists(before[p]) /\ ~unsaved[p] => before[p] \in {fs[p].dest, fs[p].backup}

(* When an update has carried out everything, each path it asked for holds *)
(* the content of this update, not that of an earlier one or of a          *)
(* temporary file that was not there (copyRemoteFile).                     *)
InPlace ==
  (\A p \in Path : stage[p] = "done") =>
    \A p \in Path : want[p] # None => fs[p].dest = File(want[p], "default")

(* ... and each path it did not ask for shows what was there before the    *)
(* program, unless a create was cut short between its `mv' and its `cp':   *)
(* then the file is still at the backup path, and nothing of the program's *)
(* is left in its place (MoveFile's delete command).                       *)
NothingLeftBehind ==
  (\A p \in Path : stage[p] = "done") =>
    \A p \in Path :
      want[p] = None /\ ~unsaved[p] =>
        \/ fs[p] = Untouched(before[p])
        \/ fs[p] = [dest |-> Missing, backup |-> before[p]]

(* Every update comes to an end: what it registers is never waiting for    *)
(* itself (the temporary copy, the move and the deletions).                *)
UpdateEnds == (\E p \in Path : stage[p] # "idle") ~> Idle

(* The inductive invariant behind OriginalKept: where each file is, given  *)
(* what is recorded of the path.                                           *)
Overlaid(p, c) ==
  fs[p] = [dest |-> File(c, "default"), backup |-> before[p]]

Aside(p) == fs[p] = [dest |-> Missing, backup |-> before[p]]

Placement ==
  \A p \in Path :
    ~unsaved[p] =>
      IF recorded[p] # None
      THEN Overlaid(p, recorded[p])
      ELSE fs[p] = Untouched(before[p]) \/ Aside(p)

Progress ==
  \A p \in Path :
    /\ stage[p] \in {"temp", "replace", "move", "copy"} => want[p] # None
    /\ stage[p] \in {"replace", "move", "copy"} => tmp[p] = want[p]
    /\ stage[p] \in {"move", "copy"} => recorded[p] = None
    /\ stage[p] \in {"replace", "remove"} => recorded[p] # None
    /\ stage[p] = "copy" => ~Exists(fs[p].dest)
    /\ stage[p] = "remove" => want[p] = None
    /\ stage[p] = "done" =>
         /\ recorded[p] = want[p]
         /\ want[p] # None => fs[p].dest = File(want[p], "default")

IInv == TypeOK /\ Placement /\ Progress

(* The abstract promise (ManagedFile), under this view of a path.          *)
Shown(p) ==
  IF unsaved[p] THEN "unknown"
  ELSE IF fs[p].dest.content = NoFile THEN "absent"
  ELSE fs[p].dest.content

MF == INSTANCE ManagedFile
        WITH Absent <- "absent", Unknown <- "unknown",
             had <- [p \in Path |-> Exists(before[p])],
             shown <- [p \in Path |-> Shown(p)]

(* The commands that copyRemoteFile registers implement ManagedFile.       *)
ManagedFileSpec == MF!Spec
=============================================================================
