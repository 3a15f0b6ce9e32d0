------------------------------ MODULE MCWiring ------------------------------
(* An instance of Wiring for TLC. *)
EXTENDS Wiring

CONSTANTS r1, r2

\* Both programs, with all ports free and with one taken, of a node or of HTTP;
\* the runner also where an address may be bound twice.
Both == {[program |-> "server", shared |-> FALSE, taken |-> {}],
         [program |-> "server", shared |-> FALSE, taken |-> {2}],
         [program |-> "server", shared |-> FALSE, taken |-> {0}],
         [program |-> "runner", shared |-> FALSE, taken |-> {}],
         [program |-> "runner", shared |-> TRUE, taken |-> {}]}
=============================================================================
