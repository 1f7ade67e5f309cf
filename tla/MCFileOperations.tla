-------------------------- MODULE MCFileOperations --------------------------
(***************************************************************************)
(* The instance of FileOperations for TLC.  There is a liveness property,  *)
(* hence no symmetry.                                                      *)
(***************************************************************************)
EXTENDS FileOperations

(* Nothing to move, one buffer, two, and an empty one before another.      *)
SomeShapes == {<<>>, <<2>>, <<1, 2>>, <<0, 1>>}
=============================================================================
