------------------------------ MODULE MCAdbDaemon ------------------------------
(* Instances of AdbDaemon for TLC.                                          *)
EXTENDS AdbDaemon
================================================================================
