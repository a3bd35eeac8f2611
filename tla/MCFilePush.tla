------------------------------ MODULE MCFilePush ------------------------------
(* Uploads on small instances. *)
EXTENDS FilePush
=============================================================================
