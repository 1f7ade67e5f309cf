-------------------------- MODULE MCEventfdQueue ---------------------------
(***************************************************************************)
(* Instances of EventfdQueue for TLC.                                      *)
(***************************************************************************)
EXTENDS EventfdQueue, TLC

(* Addresses are as good as one another.  (Producers are not: the initial  *)
(* `taken' is the value of one of them.)                                   *)
Interchangeable == Permutations(Nodes)
=============================================================================
