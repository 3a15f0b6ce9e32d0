---------------------------- MODULE MCTransport ----------------------------
(* An instance of Transport for TLC; the bounds are in the .cfg. *)
EXTENDS Transport
=============================================================================
