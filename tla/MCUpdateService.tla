---------------------------- MODULE MCUpdateService ----------------------------
(* The update flow on small instances. *)
EXTENDS UpdateService
=============================================================================
