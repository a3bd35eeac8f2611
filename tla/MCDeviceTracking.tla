--------------------------- MODULE MCDeviceTracking ---------------------------
(* The list of devices on a small instance. *)
EXTENDS DeviceTracking
===============================================================================
