--------------------------- MODULE MCConnections ----------------------------
(***************************************************************************)
(* The instances of Connections for TLC.  There is a liveness property,    *)
(* hence no symmetry.                                                      *)
(***************************************************************************)
EXTENDS Connections
=============================================================================
