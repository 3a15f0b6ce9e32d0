------------------------------- MODULE MCPbft -------------------------------
(* Instances of Pbft for TLC: a cfg picks the nodes and their lists. *)
EXTENDS Pbft, TLC

CONSTANTS n0, n1, n2, n3

\* What oracle/cmd/server/main.go:140 gives every node: all of them, in one
\* order, the leader first.
AllFour  == [n \in Nodes |-> <<n0, n1, n2, n3>>]
AllThree == [n \in Nodes |-> <<n0, n1, n2>>]
AllTwo   == [n \in Nodes |-> <<n0, n1>>]

\* The nodes behind the leader are alike.
RunningPeers == Permutations({n1, n2})
=============================================================================
