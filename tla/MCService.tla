----------------------------- MODULE MCService ------------------------------
(***************************************************************************)
(* Instances of Service for TLC.                                           *)
(***************************************************************************)
EXTENDS Service, TLC

(* Completions, objects and operations are each as good as one another.    *)
Interchangeable ==
  Permutations(Completions) \cup Permutations(Objects) \cup Permutations(Ops)
=============================================================================
