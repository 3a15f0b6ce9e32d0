--------------------------- MODULE MCPromptServer ---------------------------
(* An instance of PromptServer for TLC. *)
EXTENDS PromptServer

\* A leader alone with prompts that overlap; a leader alone that gets one
\* prompt at a time and votes after the quorum; a leader and a peer with one
\* prompt at a time, as the listener sends them, and failing calls.
Server == {[nodes |-> 1, overlap |-> TRUE, fails |-> FALSE, messages |-> 1],
           [nodes |-> 1, overlap |-> FALSE, fails |-> FALSE, messages |-> 2],
           [nodes |-> 2, overlap |-> FALSE, fails |-> TRUE, messages |-> 1]}
=============================================================================
