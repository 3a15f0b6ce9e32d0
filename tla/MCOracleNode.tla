---------------------------- MODULE MCOracleNode ----------------------------
(* Instances of OracleNode for TLC. *)
EXTENDS OracleNode

CONSTANTS c1, c2, c3, r1, r2

\* The third call passes the ID of the first.
IDs == [c \in Calls |-> IF c = c2 THEN r2 ELSE r1]

Node(leader, storage, llm, fails, calls, messages) ==
  [leader |-> leader, storage |-> storage, llm |-> llm, fails |-> fails,
   calls |-> calls, messages |-> messages]

\* The leader of cmd/server/main.go, which has storage; an LLM client may be
\* left out (llmClient == nil in ProcessPrompt). The first leader may meet any
\* failure and more messages than it needs, the second none and no message to
\* spare, the third two calls with one ID; then a node that does not lead, as
\* there, and one with storage, as in the integration test.
Served == {Node(TRUE, TRUE, TRUE, TRUE, {c1, c2}, Quorum + 1),
           Node(TRUE, TRUE, TRUE, FALSE, {c1}, Quorum),
           Node(TRUE, TRUE, TRUE, TRUE, {c1, c3}, Quorum + 1),
           Node(FALSE, FALSE, FALSE, TRUE, {c1, c2}, Quorum + 1),
           Node(FALSE, TRUE, TRUE, TRUE, {c1}, Quorum + 1)}

\* A leader with two calls and no failure.
BusyLeader == {Node(TRUE, TRUE, TRUE, FALSE, {c1, c2}, Quorum + 1)}
=============================================================================
