---------------------------- MODULE MCScrcpySession ----------------------------
(* Instances of ScrcpySession for TLC.                                      *)
EXTENDS ScrcpySession
================================================================================
