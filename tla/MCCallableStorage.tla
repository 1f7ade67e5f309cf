------------------------- MODULE MCCallableStorage --------------------------
(***************************************************************************)
(* The instance of CallableStorage for TLC.                                *)
(***************************************************************************)
EXTENDS CallableStorage, TLC

Interchangeable == Permutations(Storages) \cup Permutations(Blocks)
=============================================================================
