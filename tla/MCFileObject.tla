---------------------------- MODULE MCFileObject ----------------------------
(***************************************************************************)
(* The instance of FileObject for TLC.                                     *)
(***************************************************************************)
EXTENDS FileObject, TLC

Interchangeable ==
  Permutations(Files) \cup Permutations(Numbers) \cup Permutations(Ops)
=============================================================================
