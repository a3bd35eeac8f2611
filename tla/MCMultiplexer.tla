---------------------------- MODULE MCMultiplexer ----------------------------
(* Multiplexer on small instances. *)
EXTENDS Multiplexer
=============================================================================
