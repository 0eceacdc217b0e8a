----------------------------- MODULE MovedFile -----------------------------
(***************************************************************************)
(* What the shell commands of unixOSCommand.MoveFile do to one path of the *)
(* remote host.  A path is a record of two files: `dest', the file at the  *)
(* path itself, and `backup', the file at the path with backupExtension.   *)
(* NoFile stands for "no such file", and a file's mode is "default" until  *)
(* a permissions command changes it.                                       *)
(***************************************************************************)
CONSTANTS NoFile   \* not a content

(* A file as the commands tell files apart: what is in it and its mode.    *)
File(content, mode) == [content |-> content, mode |-> mode]

Missing == File(NoFile, "default")

Exists(file) == file.content # NoFile

(* Mutants of MoveAside: without the test, and without the move.           *)
MoveAsideAlways(path) == [dest |-> Missing, backup |-> path.dest]

KeepInPlace(path) == path

(* `if [ -f dest ]; then mv -f dest backup; fi'.  The shell goes on to the  *)
(* `cp' whether or not the `mv' succeeds; it is assumed to succeed, since   *)
(* it is run by root and both paths are in one directory.                   *)
MoveAside(path) ==
  IF Exists(path.dest)
  THEN [dest |-> Missing, backup |-> path.dest]
  ELSE path

(* `cp source dest', run by root on a destination that was moved away: the *)
(* copy is a new file and has the default mode.                            *)
CopyOver(path, content) ==
  [path EXCEPT !.dest = File(content, "default")]

(* Mutant: without the `rm'.                                               *)
PutBackOnly(path) ==
  IF Exists(path.backup) THEN [dest |-> path.backup, backup |-> Missing] ELSE path

(* `if [ -f backup ]; then mv -f backup dest; else rm -f dest; fi'         *)
PutBack(path) ==
  IF Exists(path.backup)
  THEN [dest |-> path.backup, backup |-> Missing]
  ELSE [path EXCEPT !.dest = Missing]

(* The whole create command, and the whole delete command.                 *)
MoveFileCreate(path, content) == CopyOver(MoveAside(path), content)
MoveFileDelete(path) == PutBack(path)

(* chmod and friends, on a file that is there (they fail on a missing one).*)
SetMode(path, mode) == [path EXCEPT !.dest.mode = mode]

Untouched(file) == [dest |-> file, backup |-> Missing]
=============================================================================
