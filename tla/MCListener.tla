------------------------------ MODULE MCListener ------------------------------
(* An instance of Listener for TLC. *)
EXTENDS Listener

CONSTANTS q1, q2, own, other, cid1, cid2
===============================================================================
