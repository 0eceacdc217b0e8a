-------------------------- MODULE MCFileManager --------------------------
(* FileManager on two paths and two contents.  No bound is needed: the      *)
(* states of the host and of the checkpoint are finite.  Symmetry is not    *)
(* used, since the run checks liveness.                                     *)
EXTENDS FileManager

CONSTANTS p1, p2, c1, c2

MCPath == {p1, p2}
MCContent == {c1, c2}
=============================================================================
