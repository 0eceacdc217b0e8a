------------------------- MODULE FileManagerProofs -------------------------
(***************************************************************************)
(* Proofs about FileManager for any set of paths and contents.             *)
(***************************************************************************)
EXTENDS FileManager, TLAPS

(***************************************************************************)
(* What the shell commands of MoveFile do to a path, whatever it holds.    *)
(***************************************************************************)
LEMMA MissingFile == ~Exists(Missing) /\ Missing \in AnyFile
  BY DEF Exists, Missing, File, AnyFile, FileContent

LEMMA FilesOnHost ==
  ASSUME NEW c \in Content \cup {Original, Torn}
  PROVE  File(c, "default") \in AnyFile /\ Exists(File(c, "default"))
  BY ContentAssumption DEF Exists, File, AnyFile, FileContent

LEMMA PathsOnHost ==
  ASSUME NEW path \in [dest : AnyFile, backup : AnyFile],
         NEW c \in FileContent
  PROVE  /\ MoveAside(path) \in [dest : AnyFile, backup : AnyFile]
         /\ MoveFileDelete(path) \in [dest : AnyFile, backup : AnyFile]
         /\ CopyOver(path, c) \in [dest : AnyFile, backup : AnyFile]
         /\ ~Exists(MoveAside(path).dest)
         /\ CopyOver(path, c).dest = File(c, "default")
<1>1. MoveAside(path) \in [dest : AnyFile, backup : AnyFile]
  BY MissingFile DEF MoveAside
<1>2. MoveFileDelete(path) \in [dest : AnyFile, backup : AnyFile]
  BY MissingFile DEF MoveFileDelete, PutBack
<1>3. ~Exists(MoveAside(path).dest)
  BY MissingFile DEF MoveAside
<1>4. File(c, "default") \in AnyFile
  BY DEF File, AnyFile
<1>5. QED
  BY <1>1, <1>2, <1>3, <1>4 DEF CopyOver

(* Deleting a written file leaves what was there before it was created.    *)
LEMMA PutBackUndoes ==
  ASSUME NEW old \in AnyFile, NEW dest \in AnyFile,
         ~Exists(old) => old = Missing
  PROVE  MoveFileDelete([dest |-> dest, backup |-> old]) = Untouched(old)
  BY DEF MoveFileDelete, PutBack, Untouched

(* Moving aside is done once: on a path already moved aside it does        *)
(* nothing, so a create that is tried again keeps the backup.              *)
LEMMA MoveAsideOnce ==
  ASSUME NEW old \in AnyFile,
         ~Exists(old) => old = Missing
  PROVE  /\ MoveAside(Untouched(old)) = [dest |-> Missing, backup |-> old]
         /\ MoveAside([dest |-> Missing, backup |-> old])
              = [dest |-> Missing, backup |-> old]
  BY MissingFile DEF MoveAside, Untouched

----------------------------------------------------------------------------
(***************************************************************************)
(* Type correctness.                                                       *)
(***************************************************************************)
LEMMA InitTypeOK == Init => TypeOK
<1> SUFFICES ASSUME Init PROVE TypeOK
  OBVIOUS
<1>1. \A p \in Path : before[p] \in AnyFile
  BY MissingFile, FilesOnHost DEF Init
<1>2. fs \in [Path -> [dest : AnyFile, backup : AnyFile]]
  BY <1>1, MissingFile DEF Init, Untouched
<1>3. QED
  BY <1>2 DEF Init, TypeOK, Stages


LEMMA InitIInv == Init => IInv
<1> SUFFICES ASSUME Init PROVE IInv
  OBVIOUS
<1>1. TypeOK
  BY InitTypeOK
<1>2. Placement
  BY DEF Init, Placement
<1>3. Progress
  BY DEF Init, Progress
<1>4. QED
  BY <1>1, <1>2, <1>3 DEF IInv

(***************************************************************************)
(* The invariant is preserved by each action.                              *)
(***************************************************************************)
LEMMA UpdateIInv ==
  ASSUME IInv, NEW w \in [Path -> Content \cup {None}], Update(w)
  PROVE  IInv'
<1>1. TypeOK'
  BY DEF IInv, TypeOK, Update, Stages
<1>2. Placement'
  BY DEF IInv, Placement, Overlaid, Aside, Update
<1>3. Progress'
  BY DEF IInv, TypeOK, Progress, Update
<1>4. QED
  BY <1>1, <1>2, <1>3 DEF IInv

LEMMA CopyTempIInv ==
  ASSUME IInv, NEW p \in Path, CopyTemp(p)
  PROVE  IInv'
<1>0. want[p] \in Content
  BY DEF IInv, TypeOK, Progress, CopyTemp
<1>1. TypeOK'
  BY <1>0 DEF IInv, TypeOK, CopyTemp, Stages
<1>2. Placement'
  BY DEF IInv, Placement, Overlaid, Aside, CopyTemp
<1>3. Progress'
  BY DEF IInv, TypeOK, Progress, CopyTemp
<1>4. QED
  BY <1>1, <1>2, <1>3 DEF IInv

(* What was at a path before the program is a file, or Missing.            *)
LEMMA BeforeType ==
  ASSUME TypeOK, NEW p \in Path
  PROVE  before[p] \in AnyFile /\ (~Exists(before[p]) => before[p] = Missing)
  BY MissingFile, FilesOnHost DEF TypeOK

(* Deleting the file the program put at a path uncovers what was there.    *)
LEMMA DeleteUncovers ==
  ASSUME IInv, NEW p \in Path, recorded[p] # None, ~unsaved[p]
  PROVE  MoveFileDelete(fs[p]) = Untouched(before[p])
<1>1. recorded[p] \in Content
  BY DEF IInv, TypeOK
<1>2. File(recorded[p], "default") \in AnyFile
  BY <1>1, FilesOnHost
<1>3. fs[p] = [dest |-> File(recorded[p], "default"), backup |-> before[p]]
  BY DEF IInv, Placement, Overlaid
<1>4. before[p] \in AnyFile /\ (~Exists(before[p]) => before[p] = Missing)
  BY BeforeType DEF IInv
<1>5. QED
  BY <1>2, <1>3, <1>4, PutBackUndoes

LEMMA DeleteType ==
  ASSUME TypeOK, NEW p \in Path
  PROVE  [fs EXCEPT ![p] = MoveFileDelete(@)]
           \in [Path -> [dest : AnyFile, backup : AnyFile]]
<1>1. fs[p] \in [dest : AnyFile, backup : AnyFile]
  BY DEF TypeOK
<1>2. MoveFileDelete(fs[p]) \in [dest : AnyFile, backup : AnyFile]
  BY <1>1, PathsOnHost DEF FileContent
<1>3. QED
  BY <1>2 DEF TypeOK

LEMMA DeleteOldIInv ==
  ASSUME IInv, NEW p \in Path, DeleteOld(p)
  PROVE  IInv'
<1>1. TypeOK'
  BY DeleteType DEF IInv, TypeOK, DeleteOld, Stages
<1>2. Placement'
  <2> SUFFICES ASSUME NEW q \in Path, ~unsaved'[q]
               PROVE  IF recorded'[q] # None
                      THEN Overlaid(q, recorded[q])'
                      ELSE (fs[q] = Untouched(before[q]) \/ Aside(q))'
    BY DEF Placement
  <2>1. CASE q = p
    <3>1. recorded[p] # None /\ ~unsaved[p]
      BY <2>1 DEF IInv, Progress, DeleteOld
    <3>2. MoveFileDelete(fs[p]) = Untouched(before[p])
      BY <3>1, DeleteUncovers
    <3>3. QED
      BY <2>1, <3>2 DEF DeleteOld, IInv, TypeOK
  <2>2. CASE q # p
    BY <2>2 DEF DeleteOld, IInv, TypeOK, Placement, Overlaid, Aside
  <2>3. QED
    BY <2>1, <2>2
<1>3. Progress'
  BY DEF IInv, TypeOK, Progress, DeleteOld
<1>4. QED
  BY <1>1, <1>2, <1>3 DEF IInv

LEMMA MoveIInv ==
  ASSUME IInv, NEW p \in Path, Move(p)
  PROVE  IInv'
<1>0. /\ fs[p] \in [dest : AnyFile, backup : AnyFile]
      /\ recorded[p] = None /\ want[p] # None
  BY DEF IInv, TypeOK, Progress, Move
<1>1. /\ MoveAside(fs[p]) \in [dest : AnyFile, backup : AnyFile]
      /\ ~Exists(MoveAside(fs[p]).dest)
  BY <1>0, PathsOnHost DEF FileContent
<1>2. TypeOK'
  BY <1>1 DEF IInv, TypeOK, Move, Stages
<1>3. Placement'
  <2> SUFFICES ASSUME NEW q \in Path, ~unsaved'[q]
               PROVE  IF recorded'[q] # None
                      THEN Overlaid(q, recorded[q])'
                      ELSE (fs[q] = Untouched(before[q]) \/ Aside(q))'
    BY DEF Placement
  <2>1. CASE q = p
    <3>1. before[p] \in AnyFile /\ (~Exists(before[p]) => before[p] = Missing)
      BY BeforeType DEF IInv
    <3>2. fs[p] = Untouched(before[p]) \/ Aside(p)
      BY <1>0, <2>1 DEF IInv, Placement, Move
    <3>3. MoveAside(fs[p]) = [dest |-> Missing, backup |-> before[p]]
      BY <3>1, <3>2, MoveAsideOnce DEF Aside
    <3>4. QED
      BY <1>0, <2>1, <3>3 DEF Move, IInv, TypeOK, Aside
  <2>2. CASE q # p
    BY <2>2 DEF Move, IInv, TypeOK, Placement, Overlaid, Aside
  <2>3. QED
    BY <2>1, <2>2
<1>4. Progress'
  BY <1>0, <1>1 DEF IInv, TypeOK, Progress, Move
<1>5. QED
  BY <1>2, <1>3, <1>4 DEF IInv

(* A create that was moved aside copies over nothing.                      *)
LEMMA CopyType ==
  ASSUME IInv, NEW p \in Path, stage[p] = "copy", NEW c \in FileContent
  PROVE  /\ [fs EXCEPT ![p] = CopyOver(@, c)]
              \in [Path -> [dest : AnyFile, backup : AnyFile]]
         /\ CopyOver(fs[p], c).dest = File(c, "default")
<1>1. fs[p] \in [dest : AnyFile, backup : AnyFile]
  BY DEF IInv, TypeOK
<1>2. QED
  BY <1>1, PathsOnHost DEF IInv, TypeOK

LEMMA CopyIInv ==
  ASSUME IInv, NEW p \in Path, Copy(p)
  PROVE  IInv'
<1>0. /\ want[p] \in Content /\ tmp[p] = want[p]
      /\ recorded[p] = None /\ ~Exists(fs[p].dest)
  BY DEF IInv, TypeOK, Progress, Copy
<1>1. /\ [fs EXCEPT ![p] = CopyOver(@, tmp[p])]
           \in [Path -> [dest : AnyFile, backup : AnyFile]]
      /\ CopyOver(fs[p], tmp[p]).dest = File(tmp[p], "default")
  BY <1>0, CopyType DEF Copy, FileContent
<1>2. TypeOK'
  BY <1>0, <1>1 DEF IInv, TypeOK, Copy, Stages
<1>3. Placement'
  <2> SUFFICES ASSUME NEW q \in Path, ~unsaved'[q]
               PROVE  IF recorded'[q] # None
                      THEN Overlaid(q, recorded[q])'
                      ELSE (fs[q] = Untouched(before[q]) \/ Aside(q))'
    BY DEF Placement
  <2>1. CASE q = p
    <3>1. before[p] \in AnyFile /\ (~Exists(before[p]) => before[p] = Missing)
      BY BeforeType DEF IInv
    <3>2. fs[p] = Untouched(before[p]) \/ Aside(p)
      BY <1>0, <2>1 DEF IInv, Placement, Copy
    <3>3. fs[p] = [dest |-> Missing, backup |-> before[p]]
      BY <1>0, <3>1, <3>2 DEF Aside, Untouched
    <3>4. CopyOver(fs[p], tmp[p])
            = [dest |-> File(tmp[p], "default"), backup |-> before[p]]
      BY <3>3 DEF CopyOver
    <3>5. QED
      BY <1>0, <2>1, <3>4, ContentAssumption DEF Copy, IInv, TypeOK, Overlaid
  <2>2. CASE q # p
    BY <2>2 DEF Copy, IInv, TypeOK, Placement, Overlaid, Aside
  <2>3. QED
    BY <2>1, <2>2
<1>4. Progress'
  BY <1>0, <1>1 DEF IInv, TypeOK, Progress, Copy
<1>5. QED
  BY <1>2, <1>3, <1>4 DEF IInv

LEMMA RemoveIInv ==
  ASSUME IInv, NEW p \in Path, Remove(p)
  PROVE  IInv'
<1>0. recorded[p] # None /\ want[p] = None
  BY DEF IInv, Progress, Remove, Removable
<1>1. TypeOK'
  BY DeleteType DEF IInv, TypeOK, Remove, Stages
<1>2. Placement'
  <2> SUFFICES ASSUME NEW q \in Path, ~unsaved'[q]
               PROVE  IF recorded'[q] # None
                      THEN Overlaid(q, recorded[q])'
                      ELSE (fs[q] = Untouched(before[q]) \/ Aside(q))'
    BY DEF Placement
  <2>1. CASE q = p
    BY <1>0, <2>1, DeleteUncovers DEF Remove, IInv, TypeOK
  <2>2. CASE q # p
    BY <2>2 DEF Remove, IInv, TypeOK, Placement, Overlaid, Aside
  <2>3. QED
    BY <2>1, <2>2
<1>3. Progress'
  BY <1>0 DEF IInv, TypeOK, Progress, Remove
<1>4. QED
  BY <1>1, <1>2, <1>3 DEF IInv

LEMMA CopyUnsavedIInv ==
  ASSUME IInv, NEW p \in Path, CopyUnsaved(p)
  PROVE  IInv'
<1>0. PICK written \in {tmp[p], Torn} : fs' = [fs EXCEPT ![p] = CopyOver(@, written)]
  BY DEF CopyUnsaved
<1>1. written \in FileContent
  BY DEF IInv, TypeOK, FileContent
<1>2. TypeOK'
  BY <1>0, <1>1, CopyType DEF IInv, TypeOK, CopyUnsaved, Stages
<1>3. Placement'
  BY <1>0 DEF CopyUnsaved, IInv, TypeOK, Placement, Overlaid, Aside
<1>4. Progress'
  BY DEF IInv, TypeOK, Progress, CopyUnsaved
<1>5. QED
  BY <1>2, <1>3, <1>4 DEF IInv

LEMMA DeleteUnsavedIInv ==
  ASSUME IInv, NEW p \in Path, DeleteUnsaved(p)
  PROVE  IInv'
<1>1. TypeOK'
  BY DeleteType DEF IInv, TypeOK, DeleteUnsaved, Stages
<1>2. Placement'
  BY DEF DeleteUnsaved, IInv, TypeOK, Placement, Overlaid, Aside
<1>3. Progress'
  BY DEF IInv, TypeOK, Progress, DeleteUnsaved
<1>4. QED
  BY <1>1, <1>2, <1>3 DEF IInv

LEMMA StopIInv ==
  ASSUME IInv, Finish \/ Interrupt
  PROVE  IInv'
<1>1. TypeOK'
  BY DEF IInv, TypeOK, Finish, Interrupt, Stages
<1>2. Placement'
  BY DEF Finish, Interrupt, IInv, Placement, Overlaid, Aside
<1>3. Progress'
  BY DEF Finish, Interrupt, IInv, Progress
<1>4. QED
  BY <1>1, <1>2, <1>3 DEF IInv

LEMMA NextIInv == IInv /\ [Next]_vars => IInv'
<1> SUFFICES ASSUME IInv, [Next]_vars PROVE IInv'
  OBVIOUS
<1>1. CASE Next
  BY <1>1, UpdateIInv, CopyTempIInv, DeleteOldIInv, MoveIInv, CopyIInv,
     RemoveIInv, CopyUnsavedIInv, DeleteUnsavedIInv, StopIInv
  DEF Next
<1>2. CASE UNCHANGED vars
  <2>1. TypeOK'
    BY <1>2 DEF IInv, TypeOK, vars
  <2>2. Placement'
    BY <1>2 DEF IInv, Placement, Overlaid, Aside, vars
  <2>3. Progress'
    BY <1>2 DEF IInv, Progress, vars
  <2>4. QED
    BY <2>1, <2>2, <2>3 DEF IInv
<1>3. QED
  BY <1>1, <1>2

LEMMA Invariance == Spec => []IInv
  BY InitIInv, NextIInv, PTL DEF Spec

----------------------------------------------------------------------------
(***************************************************************************)
(* The theorems.                                                           *)
(***************************************************************************)

(* The state of the host, of the checkpoint and of the update is what it   *)
(* is declared to be, for any set of paths and contents.                   *)
THEOREM TypeCorrect == Spec => []TypeOK
<1>1. IInv => TypeOK
  BY DEF IInv
<1>2. QED
  BY <1>1, Invariance, PTL

(* MoveFile never loses a file that was on the host, through failures at   *)
(* any point, as long as what acted was recorded.                          *)
THEOREM OriginalsAreKept == Spec => []OriginalKept
<1>1. IInv => OriginalKept
  <2> SUFFICES ASSUME IInv, NEW p \in Path, Exists(before[p]), ~unsaved[p]
               PROVE  before[p] \in {fs[p].dest, fs[p].backup}
    BY DEF OriginalKept
  <2>1. CASE recorded[p] # None
    <3>1. Overlaid(p, recorded[p])
      BY <2>1 DEF IInv, Placement
    <3>2. fs[p].backup = before[p]
      BY <3>1 DEF Overlaid
    <3>3. QED
      BY <3>2
  <2>2. CASE recorded[p] = None
    <3>1. fs[p] = Untouched(before[p]) \/ Aside(p)
      BY <2>2 DEF IInv, Placement
    <3>2. QED
      BY <3>1 DEF Untouched, Aside
  <2>3. QED
    BY <2>1, <2>2
<1>2. QED
  BY <1>1, Invariance, PTL

(* When an update is over, the paths it asked for hold what it asked for.  *)
THEOREM WrittenInPlace == Spec => []InPlace
<1>1. IInv => InPlace
  BY DEF IInv, Progress, InPlace
<1>2. QED
  BY <1>1, Invariance, PTL

(* ... and nothing of the program is left at the others.                   *)
THEOREM RemovedCleanly == Spec => []NothingLeftBehind
<1>1. IInv => NothingLeftBehind
  BY DEF IInv, Progress, Placement, Aside, NothingLeftBehind
<1>2. QED
  BY <1>1, Invariance, PTL

----------------------------------------------------------------------------
(***************************************************************************)
(* The commands implement ManagedFile.                                     *)
(***************************************************************************)

LEMMA InitRefines == Init => MF!Init
<1> SUFFICES ASSUME Init PROVE MF!Init
  OBVIOUS
<1>1. \A p \in Path : Shown(p) = MF!Bare(p)
  <2> SUFFICES ASSUME NEW p \in Path PROVE Shown(p) = MF!Bare(p)
    OBVIOUS
  <2> QED
    <3>1. /\ fs[p].dest = before[p] /\ ~unsaved[p]
          /\ before[p] \in {Missing, File(Original, "default")}
      BY DEF Init, Untouched
    <3>a. [q \in Path |-> Exists(before[q])][p] = Exists(before[p])
      OBVIOUS
    <3>2. CASE before[p] = Missing
      <4>1. ~Exists(before[p]) /\ fs[p].dest.content = NoFile
        BY <3>1, <3>2 DEF Exists, Missing, File
      <4>2. MF!Bare(p) = "absent"
        BY <3>a, <4>1 DEF MF!Bare
      <4>3. QED
        BY <3>1, <4>1, <4>2 DEF Shown
    <3>3. CASE before[p] = File(Original, "default")
      <4>1. Exists(before[p]) /\ fs[p].dest.content = Original
        BY <3>1, <3>3, ContentAssumption DEF Exists, File
      <4>2. MF!Bare(p) = Original
        BY <3>a, <4>1 DEF MF!Bare
      <4>3. QED
        BY <3>1, <4>1, <4>2, ContentAssumption DEF Shown
    <3>4. QED
      BY <3>1, <3>2, <3>3
<1>2. [p \in Path |-> Exists(before[p])] \in [Path -> BOOLEAN]
  BY DEF Exists
<1>3. QED
  BY <1>1, <1>2 DEF MF!Init

(* A step that acts on one path shows at that path only.                   *)
LEMMA OnePath ==
  ASSUME IInv, NEW p \in Path, NEW v,
         before' = before,
         \A q \in Path \ {p} : fs'[q] = fs[q] /\ unsaved'[q] = unsaved[q],
         Shown(p)' = v
  PROVE  /\ [q \in Path |-> Shown(q)]' = [[q \in Path |-> Shown(q)] EXCEPT ![p] = v]
         /\ [q \in Path |-> Exists(before[q])]' = [q \in Path |-> Exists(before[q])]
  BY DEF Shown, IInv, TypeOK, Exists

LEMMA NotShown ==
  ASSUME IInv, UNCHANGED <<before, fs, unsaved>>
  PROVE  UNCHANGED MF!vars
  BY DEF Shown, MF!vars

LEMMA ShownUnchanged ==
  ASSUME IInv, NEW p \in Path,
         before' = before,
         \A q \in Path \ {p} : fs'[q] = fs[q] /\ unsaved'[q] = unsaved[q],
         Shown(p)' = Shown(p)
  PROVE  UNCHANGED MF!vars
  BY OnePath DEF MF!vars

LEMMA DeleteReveals ==
  ASSUME IInv, NEW p \in Path, recorded[p] # None,
         fs' = [fs EXCEPT ![p] = MoveFileDelete(@)],
         UNCHANGED <<before, unsaved>>
  PROVE  MF!Next \/ UNCHANGED MF!vars
<1>0. \A q \in Path \ {p} : fs'[q] = fs[q] /\ unsaved'[q] = unsaved[q]
  BY DEF IInv, TypeOK
<1>1. CASE unsaved[p]
  BY <1>0, <1>1, ShownUnchanged DEF Shown
<1>2. CASE ~unsaved[p]
  <2>1. recorded[p] \in Content /\ recorded[p] # NoFile
    BY ContentAssumption DEF IInv, TypeOK
  <2>2. fs[p].dest = File(recorded[p], "default")
    <3>1. Overlaid(p, recorded[p])
      BY <1>2 DEF IInv, Placement
    <3>2. QED
      BY <3>1 DEF Overlaid
  <2>3. Shown(p) = recorded[p]
    BY <1>2, <2>1, <2>2 DEF Shown, File
  <2>4. fs'[p] = Untouched(before[p])
    BY <1>2, DeleteUncovers DEF IInv, TypeOK
  <2>5. Shown(p)' = MF!Bare(p)
    <3>0. [q \in Path |-> Exists(before[q])][p] = Exists(before[p])
      OBVIOUS
    <3>1. before[p] \in {Missing, File(Original, "default")} /\ ~unsaved'[p]
      BY <1>2 DEF IInv, TypeOK
    <3>2. fs'[p].dest = before[p]
      BY <2>4 DEF Untouched
    <3>3. CASE before[p] = Missing
      <4>1. ~Exists(before[p]) /\ fs'[p].dest.content = NoFile
        BY <3>2, <3>3 DEF Exists, Missing, File
      <4>2. MF!Bare(p) = "absent"
        BY <3>0, <4>1 DEF MF!Bare
      <4>3. QED
        BY <3>1, <4>1, <4>2 DEF Shown
    <3>4. CASE before[p] = File(Original, "default")
      <4>1. Exists(before[p]) /\ fs'[p].dest.content = Original
        BY <3>2, <3>4, ContentAssumption DEF Exists, File
      <4>2. MF!Bare(p) = Original
        BY <3>0, <4>1 DEF MF!Bare
      <4>3. QED
        BY <3>1, <4>1, <4>2, ContentAssumption DEF Shown
    <3>5. QED
      BY <3>1, <3>3, <3>4
  <2>6. MF!Reveal(p)
    BY <1>0, <2>1, <2>3, <2>5, OnePath DEF MF!Reveal
  <2>7. QED
    BY <2>6 DEF MF!Next
<1>3. QED
  BY <1>1, <1>2

LEMMA MoveHides ==
  ASSUME IInv, NEW p \in Path, Move(p)
  PROVE  MF!Next \/ UNCHANGED MF!vars
<1>0. /\ \A q \in Path \ {p} : fs'[q] = fs[q] /\ unsaved'[q] = unsaved[q]
      /\ before' = before /\ unsaved' = unsaved
      /\ fs'[p] = MoveAside(fs[p]) /\ recorded[p] = None
  BY DEF IInv, TypeOK, Progress, Move
<1>1. CASE unsaved[p]
  BY <1>0, <1>1, ShownUnchanged DEF Shown
<1>2. CASE ~unsaved[p]
  <2>1. fs[p] = Untouched(before[p]) \/ Aside(p)
    BY <1>0, <1>2 DEF IInv, Placement
  <2>2. before[p] \in AnyFile /\ (~Exists(before[p]) => before[p] = Missing)
    BY BeforeType DEF IInv
  <2>3. fs'[p] = [dest |-> Missing, backup |-> before[p]]
    BY <1>0, <2>1, <2>2, MoveAsideOnce DEF Aside
  <2>4. Shown(p)' = "absent"
    BY <1>0, <1>2, <2>3 DEF Shown, Missing, File
  <2>5. CASE Shown(p) = "absent"
    BY <1>0, <2>4, <2>5, ShownUnchanged
  <2>6. CASE Shown(p) # "absent"
    <3>1. fs[p].dest.content # NoFile
      BY <1>2, <2>6 DEF Shown
    <3>2. fs[p].dest = before[p]
      BY <2>1, <3>1 DEF Untouched, Aside, Missing, File
    <3>3. before[p] = File(Original, "default")
      BY <3>1, <3>2 DEF IInv, TypeOK, Missing, File
    <3>4. Shown(p) = Original
      BY <1>2, <3>1, <3>2, <3>3 DEF Shown, File
    <3>5. MF!Hide(p)
      BY <1>0, <2>4, <3>4, OnePath DEF MF!Hide
    <3>6. QED
      BY <3>5 DEF MF!Next
  <2>7. QED
    BY <2>5, <2>6
<1>3. QED
  BY <1>1, <1>2

LEMMA CopyShows ==
  ASSUME IInv, NEW p \in Path, Copy(p)
  PROVE  MF!Next \/ UNCHANGED MF!vars
<1>0. /\ \A q \in Path \ {p} : fs'[q] = fs[q] /\ unsaved'[q] = unsaved[q]
      /\ before' = before /\ unsaved' = unsaved
      /\ fs'[p] = CopyOver(fs[p], tmp[p])
      /\ ~Exists(fs[p].dest) /\ tmp[p] = want[p] /\ want[p] \in Content
  BY DEF IInv, TypeOK, Progress, Copy
<1>1. CASE unsaved[p]
  BY <1>0, <1>1, ShownUnchanged DEF Shown
<1>2. CASE ~unsaved[p]
  <2>1. Shown(p) = "absent"
    BY <1>0, <1>2 DEF Shown, Exists
  <2>2. fs'[p].dest = File(want[p], "default")
    BY <1>0, CopyType DEF Copy, FileContent
  <2>3. Shown(p)' = want[p]
    BY <1>0, <1>2, <2>2, ContentAssumption DEF Shown, File
  <2>4. MF!Show(p, want[p])
    BY <1>0, <2>1, <2>3, OnePath DEF MF!Show
  <2>5. QED
    BY <1>0, <2>4 DEF MF!Next
<1>3. QED
  BY <1>1, <1>2

LEMMA UnsavedGivesUp ==
  ASSUME IInv, NEW p \in Path, CopyUnsaved(p) \/ DeleteUnsaved(p)
  PROVE  MF!Next
<1>1. /\ \A q \in Path \ {p} : fs'[q] = fs[q] /\ unsaved'[q] = unsaved[q]
      /\ before' = before /\ unsaved'[p]
  BY DEF IInv, TypeOK, CopyUnsaved, DeleteUnsaved
<1>2. Shown(p)' = "unknown"
  BY <1>1 DEF Shown
<1>3. MF!GiveUp(p)
  BY <1>1, <1>2, OnePath DEF MF!GiveUp
<1>4. QED
  BY <1>3 DEF MF!Next

LEMMA NextRefines == IInv /\ [Next]_vars => [MF!Next]_(MF!vars)
<1> SUFFICES ASSUME IInv, [Next]_vars PROVE MF!Next \/ UNCHANGED MF!vars
  OBVIOUS
<1>1. ASSUME NEW w \in [Path -> Content \cup {None}], Update(w)
      PROVE  UNCHANGED MF!vars
  BY <1>1, NotShown DEF Update
<1>2. ASSUME NEW p \in Path, CopyTemp(p) PROVE UNCHANGED MF!vars
  BY <1>2, NotShown DEF CopyTemp
<1>3. ASSUME NEW p \in Path, DeleteOld(p) \/ Remove(p)
      PROVE  MF!Next \/ UNCHANGED MF!vars
  <2>1. /\ recorded[p] # None /\ fs' = [fs EXCEPT ![p] = MoveFileDelete(@)]
        /\ UNCHANGED <<before, unsaved>>
    BY <1>3 DEF IInv, Progress, DeleteOld, Remove, Removable
  <2>2. QED
    BY <2>1, DeleteReveals
<1>4. ASSUME Finish \/ Interrupt \/ UNCHANGED vars PROVE UNCHANGED MF!vars
  BY <1>4, NotShown DEF Finish, Interrupt, vars
<1>5. QED
  BY <1>1, <1>2, <1>3, <1>4, MoveHides, CopyShows, UnsavedGivesUp DEF Next

(* For any paths and contents, what an onlooker sees of the files is a     *)
(* behaviour of ManagedFile: no content is overwritten in place and a file *)
(* that was hidden comes back.                                             *)
THEOREM Refinement == Spec => ManagedFileSpec
  BY InitRefines, NextRefines, Invariance, PTL DEF Spec, MF!Spec, ManagedFileSpec
=============================================================================
