-------------------------- MODULE MCControllerQueue --------------------------
(***************************************************************************)
(* Instances of ControllerQueue for TLC: two keys compete for two workers. *)
(***************************************************************************)
EXTENDS ControllerQueue

CONSTANTS k1, k2, w1, w2
=============================================================================
