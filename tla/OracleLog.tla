------------------------------ MODULE OracleLog ------------------------------
(***************************************************************************)
(* What the consensus engines promise together, seen from the callers: a   *)
(* leader numbers payloads, and every node is handed numbered payloads.    *)
(* Two weaknesses of the code are part of the promise: a number whose      *)
(* announcement failed is given out again, and a node may be handed the    *)
(* same numbered payload more than once, in any order.                     *)
(***************************************************************************)
EXTENDS Naturals, Sequences

CONSTANTS Nodes, Values

VARIABLES
  next,       \* the number the next payload gets
  proposals,  \* numbered payloads
  failed,     \* numbers whose announcement failed at least once
  delivered   \* per node, what was handed over, in order

vars == <<next, proposals, failed, delivered>>

Entry == [sequence : Nat, data : Values]

Init ==
  /\ next = 0
  /\ proposals = {}
  /\ failed = {}
  /\ delivered = [n \in Nodes |-> <<>>]

Propose(v) ==
  /\ \A p \in proposals : p.data # v
  /\ proposals' = proposals \cup {[sequence |-> next, data |-> v]}
  /\ \/ /\ next' = next + 1
        /\ UNCHANGED failed
     \/ /\ failed' = failed \cup {next}
        /\ UNCHANGED next
  /\ UNCHANGED delivered

Deliver(n) ==
  /\ \E p \in proposals :
       delivered' = [delivered EXCEPT ![n] = Append(@, p)]
  /\ UNCHANGED <<next, proposals, failed>>

Next ==
  \/ \E v \in Values : Propose(v)
  \/ \E n \in Nodes : Deliver(n)

Spec == Init /\ [][Next]_vars
===============================================================================
