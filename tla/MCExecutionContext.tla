------------------------ MODULE MCExecutionContext --------------------------
(***************************************************************************)
(* Instances of ExecutionContext for TLC.                                  *)
(***************************************************************************)
EXTENDS ExecutionContext, TLC

(* Which worker does something makes no difference to the safety properties. *)
Interchangeable == Permutations(Workers)
=============================================================================
