---------------------------- MODULE ManagedFile ----------------------------
(***************************************************************************)
(* What FileManager and MoveFile promise about the files they manage, as   *)
(* somebody on the host sees them.  A path shows the file that was there   *)
(* before, a content the program wrote, or nothing.  Contents never follow *)
(* one another directly and a file that was there is never overwritten in  *)
(* place: it is hidden first, and comes back each time the content that    *)
(* took its place is taken away.  Once a command has acted without being   *)
(* recorded nothing is promised any more for its path.                     *)
(***************************************************************************)
CONSTANTS
  Path, Content,
  Original,  \* shows the file that was there before
  Absent,    \* shows nothing
  Unknown    \* nothing is promised

VARIABLES
  had,       \* was there a file before?
  shown

vars == <<had, shown>>

Bare(p) == IF had[p] THEN Original ELSE Absent

Init ==
  /\ had \in [Path -> BOOLEAN]
  /\ shown = [p \in Path |-> Bare(p)]

Hide(p) ==
  /\ shown[p] = Original
  /\ shown' = [shown EXCEPT ![p] = Absent]
  /\ UNCHANGED had

Show(p, c) ==
  /\ shown[p] = Absent
  /\ shown' = [shown EXCEPT ![p] = c]
  /\ UNCHANGED had

Reveal(p) ==
  /\ shown[p] \in Content
  /\ shown' = [shown EXCEPT ![p] = Bare(p)]
  /\ UNCHANGED had

GiveUp(p) ==
  /\ shown' = [shown EXCEPT ![p] = Unknown]
  /\ UNCHANGED had

Next ==
  \E p \in Path :
    \/ Hide(p)
    \/ \E c \in Content : Show(p, c)
    \/ Reveal(p)
    \/ GiveUp(p)

Spec == Init /\ [][Next]_vars
=============================================================================
