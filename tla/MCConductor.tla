---------------------------- MODULE MCConductor ----------------------------
(* Conductor with a few start commands. *)
EXTENDS Conductor
=============================================================================
