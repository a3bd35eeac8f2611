--------------------------- MODULE MCNetworkScanner ---------------------------
(* Instances of NetworkScanner for TLC.                                     *)
EXTENDS NetworkScanner

\* Nothing is connected, or a host of the subnet is.
OneKnown == {{}, {2}}
================================================================================
