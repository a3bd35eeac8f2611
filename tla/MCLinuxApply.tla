------------------------------ MODULE MCLinuxApply -----------------------------
(* Updates on Linux on a small instance.                                    *)
EXTENDS LinuxApply
================================================================================
