----------------------------- MODULE MCAccounts -----------------------------
(* Users and sessions on small instances. *)
EXTENDS Accounts
=============================================================================
