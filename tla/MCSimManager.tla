---------------------------- MODULE MCSimManager ----------------------------
(* SimManager on a few calls. *)
EXTENDS SimManager
=============================================================================
