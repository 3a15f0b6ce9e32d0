----------------------------- MODULE PbftProofs -----------------------------
(***************************************************************************)
(* Proofs about Pbft, for any number of nodes and payloads, any member     *)
(* lists with one leader at most, and any number of faults and crashes.    *)
(*                                                                         *)
(* The inductive invariant Safe is the conjunction of: the types; Traffic, *)
(* nothing is in transit or stored that was not handed to Broadcast;       *)
(* Votes, who can have cast what; Echo, every vote repeats a proposal;     *)
(* LeaderAhead; Unique, one proposal per number unless a broadcast failed; *)
(* Validity; and the two quorum properties.                                *)
(***************************************************************************)
EXTENDS Pbft, FiniteSetTheorems, TLAPS

\* Messages travelling from i to j, and messages waiting at n.
From(i, j) == {m \in cast : m.nodeID = i /\ i # j}
Foreign(n) == {m \in cast : m.nodeID # n}

Traffic ==
  /\ \A i, j \in Nodes : link[<<i, j>>] \in Seq(From(i, j))
  /\ \A n \in Nodes : msgChan[n] \in Seq(Foreign(n))
  /\ \A n \in Nodes : prepareMessages[n] \subseteq cast
  /\ \A n \in Nodes : commitMessages[n] \subseteq cast

Votes ==
  /\ \A n \in Nodes : isLeader[n] <=> Members[n][1] = n
  /\ \A m \in cast : m.type = "PrePrepare" => isLeader[m.nodeID]
  /\ \A m \in cast : m.type = "Prepare" => ~ isLeader[m.nodeID]
  /\ \A n \in proposing : isLeader[n]
  /\ \A n \in Nodes : \A m \in prepareMessages[n] :
       m.type # "Commit" /\ (m.type = "PrePrepare" => m.nodeID = n)
  /\ \A n \in Nodes : \A m \in commitMessages[n] : m.type = "Commit"

Echo == \A m \in cast : Proposed(m.sequence, m.data)

Unique ==
  \A x, y \in cast :
    /\ x.type = "PrePrepare" /\ y.type = "PrePrepare"
    /\ x.sequence = y.sequence
    /\ x.sequence \notin aborted
    => x.data = y.data

Safe ==
  /\ TypeOK
  /\ Traffic
  /\ Votes
  /\ Echo
  /\ LeaderAhead
  /\ Unique
  /\ Validity
  /\ QuorumBehindResult
  /\ PrepareQuorumBehindCommit
-----------------------------------------------------------------------------
(* The operators. *)

\* A sequence over a set is a sequence over any larger one.
LEMMA SeqGrows ==
  ASSUME NEW S, NEW T, S \subseteq T, NEW s \in Seq(S)
  PROVE  s \in Seq(T)
  <1>1. Len(s) \in Nat /\ \A k \in 1 .. Len(s) : s[k] \in T
    OBVIOUS
  <1> QED
    BY <1>1

\* The head of a queue is one of its messages, the tail holds no other.
LEMMA QueueEnds ==
  ASSUME NEW S, NEW s \in Seq(S), s # <<>>
  PROVE  Head(s) \in S /\ Tail(s) \in Seq(S)
  OBVIOUS

\* A vote that is cast is a well-formed message.
LEMMA VoteType ==
  ASSUME NEW type \in {"PrePrepare", "Prepare", "Commit"}, NEW n \in Nodes,
         NEW vw \in Nat, NEW seq \in Nat, NEW v \in Values
  PROVE  /\ Vote(type, n, vw, seq, v) \in ConsensusMessage
         /\ Vote(type, n, vw, seq, v).type = type
         /\ Vote(type, n, vw, seq, v).nodeID = n
         /\ Vote(type, n, vw, seq, v).sequence = seq
         /\ Vote(type, n, vw, seq, v).data = v
  BY DEF Vote, ConsensusMessage, Digests

\* The fields of a message.
LEMMA Fields ==
  ASSUME NEW m \in ConsensusMessage
  PROVE  /\ m.type \in {"PrePrepare", "Prepare", "Commit"}
         /\ m.nodeID \in Nodes
         /\ m.view \in Nat
         /\ m.sequence \in Nat
         /\ m.data \in Values
  BY DEF ConsensusMessage

\* Put adds its message and keeps the map a map.
LEMMA PutLemma ==
  ASSUME NEW map, NEW m
  PROVE  /\ Put(map, m) \subseteq map \cup {m}
         /\ OneVotePerKey(map) => OneVotePerKey(Put(map, m))
  BY DEF Put, OneVotePerKey

\* A map that forgot some of its keys is a map.
LEMMA KeepLemma ==
  ASSUME NEW map, NEW seq
  PROVE  /\ KeepFrom(map, seq) \subseteq map
         /\ OneVotePerKey(map) => OneVotePerKey(KeepFrom(map, seq))
  BY DEF KeepFrom, OneVotePerKey

\* A broadcast appends one message to some of the links of the sender.
LEMMA BroadcastLemma ==
  ASSUME NEW n \in Nodes, NEW m, NEW reached, Broadcast(n, m, reached)
  PROVE  /\ cast' = cast \cup {m}
         /\ \/ faults' = faults
            \/ faults < MaxFaults /\ faults' = faults + 1
         /\ DOMAIN link' = Nodes \X Nodes
         /\ \A i, j \in Nodes :
              \/ link'[<<i, j>>] = link[<<i, j>>]
              \/ /\ i = n /\ j # n
                 /\ link'[<<i, j>>] = Append(link[<<i, j>>], m)
  BY DEF Broadcast, Peers

-----------------------------------------------------------------------------
(* What the steps do to the queues and to the set of cast messages. *)

\* The link and queue conditions survive when cast grows.
LEMMA QueuesGrow ==
  ASSUME Traffic, cast \subseteq cast'
  PROVE  /\ \A i, j \in Nodes : link[<<i, j>>] \in Seq(From(i, j)')
         /\ \A n \in Nodes : msgChan[n] \in Seq(Foreign(n)')
  <1>1. ASSUME NEW i \in Nodes, NEW j \in Nodes
        PROVE  link[<<i, j>>] \in Seq(From(i, j)')
    <2>1. From(i, j) \subseteq From(i, j)'
      BY DEF From
    <2> QED
      BY <2>1, SeqGrows DEF Traffic
  <1>2. ASSUME NEW n \in Nodes
        PROVE  msgChan[n] \in Seq(Foreign(n)')
    <2>1. Foreign(n) \subseteq Foreign(n)'
      BY DEF Foreign
    <2> QED
      BY <2>1, SeqGrows DEF Traffic
  <1> QED
    BY <1>1, <1>2

\* A broadcast of one's own message respects links and types.
LEMMA BroadcastKeepsLinks ==
  ASSUME TypeOK, Traffic, NEW n \in Nodes, NEW m \in ConsensusMessage,
         m.nodeID = n, NEW reached, Broadcast(n, m, reached)
  PROVE  /\ \A i, j \in Nodes : link'[<<i, j>>] \in Seq(From(i, j)')
         /\ link' \in [Nodes \X Nodes -> Seq(ConsensusMessage)]
         /\ cast' \in SUBSET ConsensusMessage
         /\ faults' \in 0 .. MaxFaults
  <1>1. cast' = cast \cup {m} /\ cast \subseteq cast'
    BY BroadcastLemma
  <1>2. cast' \in SUBSET ConsensusMessage
    BY <1>1 DEF TypeOK
  <1>3. faults' \in 0 .. MaxFaults
    <2>1. faults \in 0 .. MaxFaults /\ MaxFaults \in Nat
      BY BoundsAssumption DEF TypeOK
    <2>2. \/ faults' = faults
          \/ faults < MaxFaults /\ faults' = faults + 1
      BY BroadcastLemma
    <2> QED
      BY <2>1, <2>2
  <1>4. ASSUME NEW i \in Nodes, NEW j \in Nodes
        PROVE  link'[<<i, j>>] \in Seq(From(i, j)')
    <2>1. link[<<i, j>>] \in Seq(From(i, j)')
      BY <1>1, QueuesGrow
    <2>2. CASE i = n /\ j # n /\ link'[<<i, j>>] = Append(link[<<i, j>>], m)
      <3>1. m \in From(i, j)'
        BY <1>1, <2>2 DEF From
      <3> QED
        BY <2>1, <2>2, <3>1
    <2> QED
      BY <2>1, <2>2, BroadcastLemma
  <1>5. link' \in [Nodes \X Nodes -> Seq(ConsensusMessage)]
    <2>1. link' = [p \in Nodes \X Nodes |-> link'[p]]
      BY DEF Broadcast
    <2>2. ASSUME NEW p \in Nodes \X Nodes
          PROVE  link'[p] \in Seq(ConsensusMessage)
      <3>1. PICK i \in Nodes, j \in Nodes : p = <<i, j>>
        OBVIOUS
      <3>2. From(i, j)' \subseteq ConsensusMessage
        BY <1>2 DEF From
      <3> QED
        BY <1>4, <3>1, <3>2, SeqGrows
    <2> QED
      BY <2>1, <2>2
  <1> QED
    BY <1>2, <1>3, <1>4, <1>5

\* The run goroutine takes a message that somebody else cast.
LEMMA TakesLemma ==
  ASSUME TypeOK, Traffic, NEW n \in Nodes, NEW type, Takes(n, type),
         cast \subseteq cast'
  PROVE  /\ Head(msgChan[n]) \in cast
         /\ Head(msgChan[n]) \in ConsensusMessage
         /\ Head(msgChan[n]).type = type
         /\ Head(msgChan[n]).nodeID # n
         /\ msgChan' \in [Nodes -> Seq(ConsensusMessage)]
         /\ \A k \in Nodes : msgChan'[k] \in Seq(Foreign(k)')
         /\ UNCHANGED <<sequence, view, isLeader, proposing, down, aborted>>
  <1>1. msgChan[n] \in Seq(Foreign(n)) /\ msgChan[n] # <<>>
    BY DEF Takes, Traffic
  <1>2. Head(msgChan[n]) \in Foreign(n) /\ Tail(msgChan[n]) \in Seq(Foreign(n))
    BY <1>1, QueueEnds
  <1>3. Head(msgChan[n]) \in cast /\ Head(msgChan[n]).nodeID # n
    BY <1>2 DEF Foreign
  <1>4. Foreign(n) \subseteq Foreign(n)' /\ Foreign(n) \subseteq ConsensusMessage
    BY DEF Foreign, TypeOK
  <1>5. Tail(msgChan[n]) \in Seq(Foreign(n)')
    BY <1>2, <1>4, SeqGrows
  <1>6. Tail(msgChan[n]) \in Seq(ConsensusMessage)
    BY <1>2, <1>4, SeqGrows
  <1>7. msgChan' = [msgChan EXCEPT ![n] = Tail(@)]
    BY DEF Takes
  <1>8. \A k \in Nodes : msgChan[k] \in Seq(Foreign(k)')
    BY QueuesGrow
  <1> QED
    BY <1>3, <1>5, <1>6, <1>7, <1>8 DEF Takes, TypeOK

\* The casters are finitely many nodes, and never fewer than before.
LEMMA CastersGrow ==
  ASSUME NEW types, NEW seq, cast \in SUBSET ConsensusMessage,
         cast' \in SUBSET ConsensusMessage, cast \subseteq cast'
  PROVE  /\ IsFiniteSet(Casters(types, seq)')
         /\ IsFiniteSet(Casters(types, seq))
         /\ Casters(types, seq) \subseteq Casters(types, seq)'
         /\ Cardinality(Casters(types, seq)) \in Nat
         /\ Cardinality(Casters(types, seq)') \in Nat
         /\ Cardinality(Casters(types, seq)) <= Cardinality(Casters(types, seq)')
  <1>1. Casters(types, seq) \subseteq Casters(types, seq)'
    BY DEF Casters
  <1>2. Casters(types, seq)' \subseteq Nodes
    BY Fields DEF Casters
  <1>3. IsFiniteSet(Casters(types, seq)')
    BY <1>2, NodesAssumption, FS_Subset
  <1> QED
    BY <1>1, <1>3, FS_Subset, FS_CardinalityType

\* The votes in a map that holds cast messages come from casters.
LEMMA VotersCast ==
  ASSUME NEW map, NEW seq, NEW types, cast' \in SUBSET ConsensusMessage,
         map \subseteq cast', \A m \in map : m.type \in types
  PROVE  /\ Voters(map, seq) \subseteq Casters(types, seq)'
         /\ IsFiniteSet(Voters(map, seq))
         /\ Cardinality(Voters(map, seq)) \in Nat
         /\ Cardinality(Casters(types, seq)') \in Nat
         /\ Cardinality(Voters(map, seq)) <= Cardinality(Casters(types, seq)')
  <1>1. Voters(map, seq) \subseteq Casters(types, seq)'
    BY DEF Voters, Casters
  <1>2. Casters(types, seq)' \subseteq Nodes
    BY Fields DEF Casters
  <1>3. IsFiniteSet(Casters(types, seq)')
    BY <1>2, NodesAssumption, FS_Subset
  <1> QED
    BY <1>1, <1>3, FS_Subset, FS_CardinalityType

-----------------------------------------------------------------------------
(* One lemma per kind of change to the set of cast messages. *)

\* What only depends on the messages and on the leader's number.
CastPart == Echo /\ LeaderAhead /\ Unique /\ PrepareQuorumBehindCommit

\* A result list only needs cast to grow.
LEMMA ResultsGrow ==
  ASSUME Safe, cast' \in SUBSET ConsensusMessage, cast \subseteq cast',
         UNCHANGED results
  PROVE  Validity' /\ QuorumBehindResult'
  <1>1. Validity'
    BY DEF Safe, Validity, Proposed
  <1>2. ASSUME NEW n \in Nodes, NEW k \in DOMAIN results[n]
        PROVE  Cardinality(Casters({"Commit"}, results[n][k].sequence)')
                 >= 2 * F(n) + 1
    <2> DEFINE s == results[n][k].sequence
    <2>1. Cardinality(Casters({"Commit"}, s)) >= 2 * F(n) + 1
      BY DEF Safe, QuorumBehindResult
    <2>2. Cardinality(Casters({"Commit"}, s))
            <= Cardinality(Casters({"Commit"}, s)')
      BY CastersGrow DEF Safe, TypeOK
    <2>3. /\ Cardinality(Casters({"Commit"}, s)) \in Nat
          /\ Cardinality(Casters({"Commit"}, s)') \in Nat
      BY CastersGrow DEF Safe, TypeOK
    <2>4. F(n) \in Int
      BY NodesAssumption DEF F
    <2> QED
      BY <2>1, <2>2, <2>3, <2>4
  <1> QED
    BY <1>1, <1>2 DEF QuorumBehindResult, Casters

\* A step that casts nothing and moves no number.
LEMMA CastUnchanged ==
  ASSUME Safe, UNCHANGED <<cast, aborted, isLeader, sequence, proposing>>
  PROVE  CastPart'
  <1>1. Echo' /\ Unique' /\ LeaderAhead'
    BY DEF Safe, Echo, Unique, LeaderAhead, Proposed
  <1>2. PrepareQuorumBehindCommit'
    BY DEF Safe, PrepareQuorumBehindCommit, Casters
  <1> QED
    BY <1>1, <1>2 DEF CastPart

\* Quorums that are there stay there.
LEMMA PrepareQuorumStays ==
  ASSUME Safe, cast' \in SUBSET ConsensusMessage, cast \subseteq cast',
         UNCHANGED isLeader, NEW m \in cast, m.type = "Commit"
  PROVE  Cardinality(Casters({"PrePrepare", "Prepare"}, m.sequence)')
           >= 2 * F(m.nodeID) + (IF isLeader[m.nodeID] THEN 0 ELSE 1)
  <1> DEFINE Q == Casters({"PrePrepare", "Prepare"}, m.sequence)
             B == 2 * F(m.nodeID) + (IF isLeader[m.nodeID] THEN 0 ELSE 1)
  <1>1. Cardinality(Q) >= B
    BY DEF Safe, PrepareQuorumBehindCommit
  <1>2. /\ Cardinality(Q) \in Nat /\ Cardinality(Q') \in Nat
        /\ Cardinality(Q) <= Cardinality(Q')
    BY CastersGrow DEF Safe, TypeOK
  <1>3. m.nodeID \in Nodes
    BY Fields DEF Safe, TypeOK
  <1>4. B \in Int
    BY <1>3, NodesAssumption DEF F
  <1> HIDE DEF Q, B
  <1> QED
    BY <1>1, <1>2, <1>4 DEF Q, B

\* A step that casts one prepare or commit for something already proposed.
LEMMA VoteIsCast ==
  ASSUME Safe, NEW m \in ConsensusMessage, m.type # "PrePrepare",
         Proposed(m.sequence, m.data),
         cast' = cast \cup {m},
         m.type = "Commit" =>
           Cardinality(Casters({"PrePrepare", "Prepare"}, m.sequence)')
             >= 2 * F(m.nodeID) + (IF isLeader[m.nodeID] THEN 0 ELSE 1),
         UNCHANGED <<aborted, isLeader, sequence, proposing>>
  PROVE  CastPart'
  <1>1. cast' \in SUBSET ConsensusMessage /\ cast \subseteq cast'
    BY DEF Safe, TypeOK
  <1>2. PICK x \in cast : /\ x.type = "PrePrepare"
                          /\ x.sequence = m.sequence
                          /\ x.data = m.data
    BY DEF Proposed
  <1>3. Echo'
    BY <1>2 DEF Safe, Echo, Proposed
  <1>4. Unique'
    BY DEF Safe, Unique
  <1>5. LeaderAhead'
    BY <1>2 DEF Safe, LeaderAhead
  <1>6. PrepareQuorumBehindCommit'
    <2> SUFFICES ASSUME NEW c \in cast', c.type = "Commit"
                 PROVE  Cardinality(Casters({"PrePrepare", "Prepare"}, c.sequence)')
                          >= 2 * F(c.nodeID) + (IF isLeader[c.nodeID] THEN 0 ELSE 1)
      BY DEF PrepareQuorumBehindCommit, Casters
    <2>1. CASE c \in cast
      BY <1>1, <2>1, PrepareQuorumStays
    <2>2. CASE c = m
      BY <2>2
    <2> QED
      BY <2>1, <2>2
  <1> QED
    BY <1>3, <1>4, <1>5, <1>6 DEF CastPart

\* Safe, from the pieces that the steps establish.
LEMMA Assemble ==
  ASSUME TypeOK', Traffic', Votes', CastPart', Validity', QuorumBehindResult'
  PROVE  Safe'
  BY DEF Safe, CastPart

-----------------------------------------------------------------------------
(* Init, and one lemma per action. *)

\* The engines of NewPBFT, with nothing sent, satisfy the invariant.
LEMMA InitSafe == Init => Safe
  <1> SUFFICES ASSUME Init PROVE Safe
    OBVIOUS
  <1> USE DEF Init
  <1>1. TypeOK
    BY BoundsAssumption DEF TypeOK, OneVotePerKey
  <1>2. Traffic
    BY DEF Traffic
  <1>3. Votes
    BY DEF Votes
  <1>4. Echo /\ LeaderAhead /\ Unique /\ PrepareQuorumBehindCommit
    BY DEF Echo, LeaderAhead, Unique, PrepareQuorumBehindCommit
  <1>5. Validity /\ QuorumBehindResult
    BY DEF Validity, QuorumBehindResult
  <1> QED
    BY <1>1, <1>2, <1>3, <1>4, <1>5 DEF Safe

\* A connection that breaks only takes messages away.
LEMMA BreaksSafe ==
  ASSUME Safe, NEW i \in Nodes, NEW j \in Nodes, ConnectionBreaks(i, j)
  PROVE  Safe'
  <1> USE DEF ConnectionBreaks, engineVars, histVars
  <1>1. TypeOK'
    BY BoundsAssumption DEF Safe, TypeOK, OneVotePerKey
  <1>2. Traffic'
    <2>1. /\ \A a, b \in Nodes : From(a, b)' = From(a, b)
          /\ \A k \in Nodes : Foreign(k)' = Foreign(k)
      BY DEF From, Foreign
    <2>2. ASSUME NEW a \in Nodes, NEW b \in Nodes
          PROVE  link'[<<a, b>>] \in Seq(From(a, b))
      <3>1. link[<<a, b>>] \in Seq(From(a, b)) /\ <<>> \in Seq(From(a, b))
        BY DEF Safe, Traffic
      <3>2. link'[<<a, b>>] = link[<<a, b>>] \/ link'[<<a, b>>] = <<>>
        BY DEF Safe, TypeOK
      <3> QED
        BY <3>1, <3>2
    <2>3. \A k \in Nodes : msgChan'[k] \in Seq(Foreign(k))
      BY DEF Safe, TypeOK, Traffic
    <2> QED
      BY <2>1, <2>2, <2>3 DEF Safe, Traffic
  <1>3. Votes'
    BY DEF Safe, Votes
  <1>4. CastPart'
    BY CastUnchanged
  <1>5. Validity' /\ QuorumBehindResult'
    BY ResultsGrow DEF Safe, TypeOK
  <1> QED
    BY <1>1, <1>2, <1>3, <1>4, <1>5, Assemble

\* Two messages of a sequence in each other's place.
LEMMA SwapLemma ==
  ASSUME NEW S, NEW s \in Seq(S), NEW k \in 1 .. Len(s) - 1
  PROVE  [s EXCEPT ![k] = s[k + 1], ![k + 1] = s[k]] \in Seq(S)
  <1> DEFINE t == [s EXCEPT ![k] = s[k + 1], ![k + 1] = s[k]]
  <1>1. Len(s) \in Nat /\ s \in [1 .. Len(s) -> S]
    OBVIOUS
  <1>2. k \in 1 .. Len(s) /\ k + 1 \in 1 .. Len(s)
    BY <1>1
  <1>3. s[k] \in S /\ s[k + 1] \in S
    BY <1>1, <1>2
  <1>4. t \in [1 .. Len(s) -> S]
    BY <1>1, <1>2, <1>3
  <1> HIDE DEF t
  <1> QED
    BY <1>1, <1>4 DEF t

\* A message that overtakes another one is still between the same two nodes.
LEMMA OvertakeSafe ==
  ASSUME Safe, NEW i \in Nodes, NEW j \in Nodes, Overtake(i, j)
  PROVE  Safe'
  <1>0. PICK k \in 1 .. Len(link[<<i, j>>]) - 1 :
          link' = [link EXCEPT ![<<i, j>>] =
                     [link[<<i, j>>] EXCEPT ![k] = link[<<i, j>>][k + 1],
                                            ![k + 1] = link[<<i, j>>][k]]]
    BY DEF Overtake
  <1>1. PICK t :
          /\ t = [link[<<i, j>>] EXCEPT ![k] = link[<<i, j>>][k + 1],
                                        ![k + 1] = link[<<i, j>>][k]]
          /\ link' = [link EXCEPT ![<<i, j>>] = t]
    BY <1>0
  <1>2. UNCHANGED <<engineVars, msgChan, down, histVars>> /\ faults' \in 0 .. MaxFaults
    <2>1. /\ UNCHANGED <<engineVars, msgChan, down, histVars>>
          /\ faults < MaxFaults /\ faults' = faults + 1
      BY DEF Overtake
    <2>2. faults \in 0 .. MaxFaults /\ MaxFaults \in Nat
      BY BoundsAssumption DEF Safe, TypeOK
    <2> QED
      BY <2>1, <2>2
  <1> USE DEF engineVars, histVars
  <1>3. t \in Seq(From(i, j)) /\ t \in Seq(ConsensusMessage)
    <2>1. link[<<i, j>>] \in Seq(From(i, j)) /\ link[<<i, j>>] \in Seq(ConsensusMessage)
      BY DEF Safe, Traffic, TypeOK
    <2> QED
      BY <1>1, <2>1, SwapLemma
  <1>4. TypeOK'
    <2>1. link' \in [Nodes \X Nodes -> Seq(ConsensusMessage)]
      BY <1>1, <1>3 DEF Safe, TypeOK
    <2> QED
      BY <1>2, <2>1 DEF Safe, TypeOK, OneVotePerKey
  <1>5. Traffic'
    <2>1. /\ \A a, b \in Nodes : From(a, b)' = From(a, b)
          /\ \A k1 \in Nodes : Foreign(k1)' = Foreign(k1)
      BY <1>2 DEF From, Foreign
    <2>2. \A a, b \in Nodes : link'[<<a, b>>] \in Seq(From(a, b))
      BY <1>1, <1>3 DEF Safe, TypeOK, Traffic
    <2> QED
      BY <1>2, <2>1, <2>2 DEF Safe, Traffic
  <1>6. Votes'
    BY <1>2 DEF Safe, Votes
  <1>7. CastPart'
    BY <1>2, CastUnchanged
  <1>8. Validity' /\ QuorumBehindResult'
    BY <1>2, ResultsGrow DEF Safe, TypeOK
  <1> QED
    BY <1>4, <1>5, <1>6, <1>7, <1>8, Assemble

\* So does a node that crashes, whose engine takes no further step.
LEMMA CrashSafe ==
  ASSUME Safe, NEW n \in Nodes, Crash(n)
  PROVE  Safe'
  <1> USE DEF Crash, engineVars, histVars
  <1>1. TypeOK'
    <2>1. link' \in [Nodes \X Nodes -> Seq(ConsensusMessage)]
      BY DEF Safe, TypeOK
    <2> QED
      BY <2>1 DEF Safe, TypeOK, OneVotePerKey
  <1>2. Traffic'
    <2>1. /\ \A a, b \in Nodes : From(a, b)' = From(a, b)
          /\ \A k \in Nodes : Foreign(k)' = Foreign(k)
      BY DEF From, Foreign
    <2>2. ASSUME NEW a \in Nodes, NEW b \in Nodes
          PROVE  link'[<<a, b>>] \in Seq(From(a, b))
      <3>1. link[<<a, b>>] \in Seq(From(a, b)) /\ <<>> \in Seq(From(a, b))
        BY DEF Safe, Traffic
      <3>2. link'[<<a, b>>] = link[<<a, b>>] \/ link'[<<a, b>>] = <<>>
        BY DEF Safe, TypeOK
      <3> QED
        BY <3>1, <3>2
    <2>3. \A k \in Nodes : msgChan'[k] \in Seq(Foreign(k))
      BY DEF Safe, TypeOK, Traffic
    <2> QED
      BY <2>1, <2>2, <2>3 DEF Safe, Traffic
  <1>3. Votes'
    BY DEF Safe, Votes
  <1>4. CastPart'
    BY CastUnchanged
  <1>5. Validity' /\ QuorumBehindResult'
    BY ResultsGrow DEF Safe, TypeOK
  <1> QED
    BY <1>1, <1>2, <1>3, <1>4, <1>5, Assemble

\* A message that validateMessage refuses leaves the engine as it was.
LEMMA RejectSafe ==
  ASSUME Safe, NEW i \in Nodes, NEW n \in Nodes, Reject(i, n)
  PROVE  Safe'
  <1> USE DEF Reject, Receiving, engineVars, histVars
  <1>1. Tail(link[<<i, n>>]) \in Seq(From(i, n))
    BY QueueEnds DEF Safe, Traffic, Receiving
  <1>2. From(i, n) \subseteq ConsensusMessage
    BY DEF Safe, TypeOK, From
  <1>3. Tail(link[<<i, n>>]) \in Seq(ConsensusMessage)
    BY <1>1, <1>2, SeqGrows
  <1>4. TypeOK'
    BY <1>3 DEF Safe, TypeOK, OneVotePerKey
  <1>5. Traffic'
    <2>1. /\ \A a, b \in Nodes : From(a, b)' = From(a, b)
          /\ \A k \in Nodes : Foreign(k)' = Foreign(k)
      BY DEF From, Foreign
    <2>2. \A a, b \in Nodes : link'[<<a, b>>] \in Seq(From(a, b))
      BY <1>1 DEF Safe, TypeOK, Traffic
    <2>3. \A k \in Nodes : msgChan'[k] \in Seq(Foreign(k))
      BY DEF Safe, TypeOK, Traffic
    <2> QED
      BY <2>1, <2>2, <2>3 DEF Safe, Traffic
  <1>6. Votes'
    BY DEF Safe, Votes
  <1>7. CastPart'
    BY CastUnchanged
  <1>8. Validity' /\ QuorumBehindResult'
    BY ResultsGrow DEF Safe, TypeOK
  <1> QED
    BY <1>4, <1>5, <1>6, <1>7, <1>8, Assemble

\* ProcessMessage raises the engine's number, but never beyond the leader's,
\* and never that of the leader.
LEMMA AcceptSafe ==
  ASSUME Safe, NEW i \in Nodes, NEW n \in Nodes, Accept(i, n)
  PROVE  Safe'
  <1> DEFINE m == Head(link[<<i, n>>])
  <1> USE DEF engineVars, histVars
  <1>1. /\ m \in From(i, n)
        /\ Tail(link[<<i, n>>]) \in Seq(From(i, n))
    BY QueueEnds DEF Safe, Traffic, Accept, Receiving
  <1>2. m \in cast /\ m \in Foreign(n) /\ m \in ConsensusMessage
    BY <1>1 DEF From, Foreign, Safe, TypeOK
  <1>3. From(i, n) \subseteq ConsensusMessage
    BY DEF Safe, TypeOK, From
  <1>4. Tail(link[<<i, n>>]) \in Seq(ConsensusMessage)
    BY <1>1, <1>3, SeqGrows
  <1>5. /\ link' = [link EXCEPT ![<<i, n>>] = Tail(@)]
        /\ msgChan' = [msgChan EXCEPT ![n] = Append(@, m)]
        /\ sequence' = [sequence EXCEPT ![n] = AtLeast(m.sequence, @)]
        /\ view' = [view EXCEPT ![n] = AtLeast(m.view, @)]
        /\ UNCHANGED <<isLeader, prepareMessages, commitMessages,
                       consensusReached, proposing, down, faults, results,
                       cast, aborted>>
    BY DEF Accept, Receiving
  <1> HIDE DEF m
  <1>6. m.sequence \in Nat /\ m.view \in Nat
    BY <1>2, Fields
  <1>7. TypeOK'
    <2>1. sequence' \in [Nodes -> Nat] /\ view' \in [Nodes -> Nat]
      BY <1>5, <1>6 DEF AtLeast, Safe, TypeOK
    <2>2. link' \in [Nodes \X Nodes -> Seq(ConsensusMessage)]
      BY <1>4, <1>5 DEF Safe, TypeOK
    <2>3. msgChan' \in [Nodes -> Seq(ConsensusMessage)]
      BY <1>2, <1>5 DEF Safe, TypeOK
    <2> QED
      BY <1>5, <2>1, <2>2, <2>3 DEF Safe, TypeOK, OneVotePerKey
  <1>8. Traffic'
    <2>1. \A a, b \in Nodes : link'[<<a, b>>] \in Seq(From(a, b)')
      BY <1>1, <1>5 DEF Safe, TypeOK, Traffic, From
    <2>2. \A k \in Nodes : msgChan'[k] \in Seq(Foreign(k))
      BY <1>2, <1>5 DEF Safe, TypeOK, Traffic
    <2>3. \A k \in Nodes : Foreign(k)' = Foreign(k)
      BY <1>5 DEF Foreign
    <2> QED
      BY <1>5, <2>1, <2>2, <2>3 DEF Safe, Traffic
  <1>9. Votes'
    BY <1>5 DEF Safe, Votes
  <1>10. Echo' /\ Unique' /\ PrepareQuorumBehindCommit'
    BY <1>5 DEF Safe, Echo, Unique, PrepareQuorumBehindCommit, Proposed, Casters
  <1>11. LeaderAhead'
    <2> SUFFICES ASSUME NEW l \in Nodes, isLeader[l]
                 PROVE  /\ \A k \in Nodes : sequence'[k] <= sequence'[l]
                        /\ \A x \in cast : /\ x.sequence <= sequence'[l]
                                           /\ x.sequence = sequence'[l] =>
                                                x.sequence \in aborted \/ l \in proposing
      BY <1>5 DEF LeaderAhead
    <2>1. \A k \in Nodes : sequence[k] \in Nat /\ sequence[k] <= sequence[l]
      BY DEF Safe, TypeOK, LeaderAhead
    <2>2. m.sequence <= sequence[l]
      BY <1>2 DEF Safe, LeaderAhead
    <2>3. sequence'[l] = sequence[l]
      BY <1>5, <1>6, <2>1, <2>2 DEF AtLeast, Safe, TypeOK
    <2>4. \A k \in Nodes : sequence'[k] <= sequence[l]
      BY <1>5, <1>6, <2>1, <2>2 DEF AtLeast, Safe, TypeOK
    <2> QED
      BY <2>3, <2>4 DEF Safe, LeaderAhead
  <1>12. Validity' /\ QuorumBehindResult'
    BY <1>5, ResultsGrow DEF Safe, TypeOK
  <1> QED
    BY <1>7, <1>8, <1>9, <1>10, <1>11, <1>12, Assemble DEF CastPart

\* The number a proposal gets is one no message carries, or one whose
\* broadcast failed before.
LEMMA ProposeSafe ==
  ASSUME Safe, NEW n \in Nodes, NEW v \in Values, ProposeValue(n, v)
  PROVE  Safe'
  <1> DEFINE s == sequence[n]
             m == Vote("PrePrepare", n, view[n], s, v)
  <1>1. s \in Nat /\ view[n] \in Nat
    BY DEF Safe, TypeOK
  <1>2. /\ m \in ConsensusMessage
        /\ m.type = "PrePrepare" /\ m.nodeID = n /\ m.sequence = s /\ m.data = v
    BY <1>1, VoteType
  <1>3. PICK reached \in SUBSET Peers(n) :
          /\ Broadcast(n, m, reached)
          /\ \/ proposing' = proposing \cup {n} /\ UNCHANGED aborted
             \/ aborted' = aborted \cup {s} /\ UNCHANGED proposing
    BY DEF ProposeValue
  <1>4. /\ isLeader[n] /\ n \notin proposing
        /\ prepareMessages' = [prepareMessages EXCEPT ![n] = Put(@, m)]
        /\ UNCHANGED <<sequence, view, isLeader, commitMessages,
                       consensusReached, msgChan, down, results>>
    BY DEF ProposeValue
  <1>5. cast' = cast \cup {m} /\ cast \subseteq cast'
    BY <1>3, BroadcastLemma
  <1> HIDE DEF m
  <1>6. /\ \A i, j \in Nodes : link'[<<i, j>>] \in Seq(From(i, j)')
        /\ link' \in [Nodes \X Nodes -> Seq(ConsensusMessage)]
        /\ cast' \in SUBSET ConsensusMessage
        /\ faults' \in 0 .. MaxFaults
    BY <1>2, <1>3, BroadcastKeepsLinks DEF Safe
  <1>7. TypeOK'
    <2>1. prepareMessages' \in [Nodes -> SUBSET ConsensusMessage]
      BY <1>2, <1>4, PutLemma DEF Safe, TypeOK
    <2>2. \A k \in Nodes : OneVotePerKey(prepareMessages'[k])
      BY <1>4, PutLemma DEF Safe, TypeOK
    <2>3. proposing' \subseteq Nodes /\ aborted' \in SUBSET Nat
      BY <1>1, <1>3 DEF Safe, TypeOK
    <2> QED
      BY <1>4, <1>6, <2>1, <2>2, <2>3 DEF Safe, TypeOK, OneVotePerKey
  <1>8. Traffic'
    <2>1. \A k \in Nodes : msgChan'[k] \in Seq(Foreign(k)')
      BY <1>4, <1>5, QueuesGrow DEF Safe
    <2>2. \A k \in Nodes : prepareMessages'[k] \subseteq cast'
      BY <1>4, <1>5, PutLemma DEF Safe, TypeOK, Traffic
    <2> QED
      BY <1>4, <1>5, <1>6, <2>1, <2>2 DEF Safe, Traffic
  <1>9. Votes'
    <2>1. \A k \in Nodes : \A x \in prepareMessages'[k] :
            x.type # "Commit" /\ (x.type = "PrePrepare" => x.nodeID = k)
      BY <1>2, <1>4, PutLemma DEF Safe, TypeOK, Votes
    <2> QED
      BY <1>2, <1>3, <1>4, <1>5, <2>1 DEF Safe, Votes
  <1>10. \A x \in cast : x.sequence = s => s \in aborted
    BY <1>4 DEF Safe, LeaderAhead
  <1>11. aborted \subseteq aborted'
    BY <1>3
  <1>12. CastPart'
    <2>1. Echo'
      BY <1>2, <1>5 DEF Safe, Echo, Proposed
    <2>2. Unique'
      BY <1>2, <1>5, <1>10, <1>11 DEF Safe, Unique
    <2>3. LeaderAhead'
      <3> SUFFICES ASSUME NEW l \in Nodes, isLeader[l]
                   PROVE  /\ \A k \in Nodes : sequence[k] <= sequence[l]
                          /\ \A x \in cast' :
                               /\ x.sequence <= sequence[l]
                               /\ x.sequence = sequence[l] =>
                                    x.sequence \in aborted' \/ l \in proposing'
        BY <1>4 DEF LeaderAhead
      <3>1. l = n
        BY <1>4, OneLeaderAssumption DEF Safe, Votes
      <3>2. \A k \in Nodes : sequence[k] <= s
        BY <1>4 DEF Safe, LeaderAhead
      <3>3. \A x \in cast' : x.sequence <= s
        BY <1>1, <1>2, <1>4, <1>5 DEF Safe, LeaderAhead
      <3>4. s \in aborted' \/ n \in proposing'
        BY <1>3
      <3> QED
        BY <3>1, <3>2, <3>3, <3>4
    <2>4. PrepareQuorumBehindCommit'
      BY <1>2, <1>4, <1>5, <1>6, PrepareQuorumStays
        DEF PrepareQuorumBehindCommit, Casters
    <2> QED
      BY <2>1, <2>2, <2>3, <2>4 DEF CastPart
  <1>13. Validity' /\ QuorumBehindResult'
    BY <1>4, <1>5, <1>6, ResultsGrow
  <1> QED
    BY <1>7, <1>8, <1>9, <1>12, <1>13, Assemble

\* The leader goes past the number that its votes may carry.
LEMMA CountOnSafe ==
  ASSUME Safe, NEW n \in Nodes, CountOn(n)
  PROVE  Safe'
  <1> DEFINE s == sequence[n]
  <1>1. /\ n \in proposing /\ isLeader[n]
        /\ sequence' = [sequence EXCEPT ![n] = s + 1]
        /\ proposing' = proposing \ {n}
        /\ UNCHANGED <<view, isLeader, prepareMessages, commitMessages,
                       consensusReached, msgChan, link, down, faults,
                       results, cast, aborted>>
    BY DEF CountOn, netVars, histVars, Safe, Votes
  <1>2. s \in Nat /\ sequence'[n] = s + 1
    BY <1>1 DEF Safe, TypeOK
  <1>3. TypeOK'
    <2>1. sequence' \in [Nodes -> Nat] /\ proposing' \subseteq Nodes
      BY <1>1, <1>2 DEF Safe, TypeOK
    <2> QED
      BY <1>1, <2>1 DEF Safe, TypeOK, OneVotePerKey
  <1>4. Traffic'
    <2>1. /\ \A a, b \in Nodes : From(a, b)' = From(a, b)
          /\ \A k \in Nodes : Foreign(k)' = Foreign(k)
      BY <1>1 DEF From, Foreign
    <2> QED
      BY <1>1, <2>1 DEF Safe, Traffic
  <1>5. Votes'
    BY <1>1 DEF Safe, Votes
  <1>6. Echo' /\ Unique' /\ PrepareQuorumBehindCommit'
    BY <1>1 DEF Safe, Echo, Unique, PrepareQuorumBehindCommit, Proposed, Casters
  <1>7. LeaderAhead'
    <2> SUFFICES ASSUME NEW l \in Nodes, isLeader[l]
                 PROVE  /\ \A k \in Nodes : sequence'[k] <= sequence'[l]
                        /\ \A x \in cast : x.sequence < sequence'[l]
      <3>1. \A x \in cast : x.sequence \in Nat
        BY Fields DEF Safe, TypeOK
      <3>2. sequence' \in [Nodes -> Nat]
        BY <1>3 DEF TypeOK
      <3> QED
        BY <1>1, <3>1, <3>2 DEF LeaderAhead
    <2>1. l = n
      BY <1>1, OneLeaderAssumption DEF Safe, Votes
    <2>2. \A k \in Nodes : sequence[k] \in Nat /\ sequence[k] <= s
      BY <1>1 DEF Safe, TypeOK, LeaderAhead
    <2>3. \A x \in cast : x.sequence \in Nat /\ x.sequence <= s
      BY <1>1, Fields DEF Safe, TypeOK, LeaderAhead
    <2>4. \A k \in Nodes : sequence'[k] <= s + 1
      BY <1>1, <1>2, <2>2 DEF Safe, TypeOK
    <2> QED
      BY <1>2, <2>1, <2>3, <2>4
  <1>8. Validity' /\ QuorumBehindResult'
    BY <1>1, ResultsGrow DEF Safe, TypeOK
  <1> QED
    BY <1>3, <1>4, <1>5, <1>6, <1>7, <1>8, Assemble DEF CastPart

\* A pre-prepare that handlePrePrepare drops leaves the engine as it was.
LEMMA IgnoreSafe ==
  ASSUME Safe, NEW n \in Nodes, IgnorePrePrepare(n)
  PROVE  Safe'
  <1>1. /\ Takes(n, "PrePrepare")
        /\ UNCHANGED <<prepareMessages, commitMessages, consensusReached,
                       link, faults, results, cast>>
    BY DEF IgnorePrePrepare
  <1>2. /\ msgChan' \in [Nodes -> Seq(ConsensusMessage)]
        /\ \A k \in Nodes : msgChan'[k] \in Seq(Foreign(k)')
        /\ UNCHANGED <<sequence, view, isLeader, proposing, down, aborted>>
    BY <1>1, TakesLemma DEF Safe
  <1>3. TypeOK'
    BY <1>1, <1>2 DEF Safe, TypeOK, OneVotePerKey
  <1>4. Traffic'
    BY <1>1, <1>2, QueuesGrow DEF Safe, Traffic
  <1>5. Votes'
    BY <1>1, <1>2 DEF Safe, Votes
  <1>6. CastPart'
    BY <1>1, <1>2, CastUnchanged
  <1>7. Validity' /\ QuorumBehindResult'
    BY <1>1, ResultsGrow DEF Safe, TypeOK
  <1> QED
    BY <1>3, <1>4, <1>5, <1>6, <1>7, Assemble

\* The node that handles a pre-prepare is not the leader: it got it from it.
LEMMA OnPrePrepareSafe ==
  ASSUME Safe, NEW n \in Nodes, OnPrePrepare(n)
  PROVE  Safe'
  <1> DEFINE m == Head(msgChan[n])
             p == PrepareOf(n, m)
  <1>1. PICK reached \in SUBSET Peers(n) : Broadcast(n, p, reached)
    BY DEF OnPrePrepare
  <1>2. /\ Takes(n, "PrePrepare")
        /\ prepareMessages' = [prepareMessages EXCEPT ![n] = Put(@, p)]
        /\ UNCHANGED <<commitMessages, consensusReached, results>>
    BY DEF OnPrePrepare
  <1>3. cast' = cast \cup {p} /\ cast \subseteq cast'
    BY <1>1, BroadcastLemma
  <1>4. /\ m \in cast /\ m \in ConsensusMessage
        /\ m.type = "PrePrepare" /\ m.nodeID # n
        /\ msgChan' \in [Nodes -> Seq(ConsensusMessage)]
        /\ \A k \in Nodes : msgChan'[k] \in Seq(Foreign(k)')
        /\ UNCHANGED <<sequence, view, isLeader, proposing, down, aborted>>
    BY <1>2, <1>3, TakesLemma DEF Safe
  <1>5. /\ p \in ConsensusMessage
        /\ p.type = "Prepare" /\ p.nodeID = n
        /\ p.sequence = m.sequence /\ p.data = m.data
    <2>1. m.view \in Nat /\ m.sequence \in Nat /\ m.data \in Values
      BY <1>4, Fields
    <2>2. p = Vote("Prepare", n, m.view, m.sequence, m.data)
      BY DEF PrepareOf
    <2> HIDE DEF m, p
    <2> QED
      BY <2>1, <2>2, VoteType
  <1>6. ~ isLeader[n]
    <2>1. isLeader[m.nodeID] /\ m.nodeID \in Nodes
      BY <1>4, Fields DEF Safe, Votes
    <2> QED
      BY <1>4, <2>1, OneLeaderAssumption DEF Safe, Votes
  <1>7. Proposed(p.sequence, p.data)
    BY <1>4, <1>5 DEF Safe, Echo
  <1> HIDE DEF m, p
  <1>8. /\ \A i, j \in Nodes : link'[<<i, j>>] \in Seq(From(i, j)')
        /\ link' \in [Nodes \X Nodes -> Seq(ConsensusMessage)]
        /\ cast' \in SUBSET ConsensusMessage
        /\ faults' \in 0 .. MaxFaults
    BY <1>1, <1>5, BroadcastKeepsLinks DEF Safe
  <1>9. TypeOK'
    <2>1. prepareMessages' \in [Nodes -> SUBSET ConsensusMessage]
      BY <1>2, <1>5, PutLemma DEF Safe, TypeOK
    <2>2. \A k \in Nodes : OneVotePerKey(prepareMessages'[k])
      BY <1>2, PutLemma DEF Safe, TypeOK
    <2> QED
      BY <1>2, <1>4, <1>8, <2>1, <2>2 DEF Safe, TypeOK, OneVotePerKey
  <1>10. Traffic'
    <2>1. \A k \in Nodes : prepareMessages'[k] \subseteq cast'
      BY <1>2, <1>3, PutLemma DEF Safe, TypeOK, Traffic
    <2> QED
      BY <1>2, <1>3, <1>4, <1>8, <2>1 DEF Safe, Traffic
  <1>11. Votes'
    <2>1. \A k \in Nodes : \A x \in prepareMessages'[k] :
            x.type # "Commit" /\ (x.type = "PrePrepare" => x.nodeID = k)
      BY <1>2, <1>5, PutLemma DEF Safe, TypeOK, Votes
    <2> QED
      BY <1>2, <1>3, <1>4, <1>5, <1>6, <2>1 DEF Safe, Votes
  <1>12. CastPart'
    BY <1>3, <1>4, <1>5, <1>7, VoteIsCast
  <1>13. Validity' /\ QuorumBehindResult'
    BY <1>2, <1>3, <1>8, ResultsGrow
  <1> QED
    BY <1>9, <1>10, <1>11, <1>12, <1>13, Assemble

\* An execution leaves well-typed maps of cast votes, and hands over a value
\* that was proposed and that a quorum committed.
LEMMA ExecuteLemma ==
  ASSUME Safe, NEW n \in Nodes, NEW seq \in Nat, NEW v \in Values,
         NEW prepares, NEW commits, NEW reached \in SUBSET Nat,
         cast' \in SUBSET ConsensusMessage, cast \subseteq cast',
         prepares \subseteq cast', OneVotePerKey(prepares),
         \A x \in prepares :
           x.type # "Commit" /\ (x.type = "PrePrepare" => x.nodeID = n),
         commits \subseteq cast', OneVotePerKey(commits),
         \A x \in commits : x.type = "Commit",
         Proposed(seq, v), Committed(n, commits, seq),
         Execute(n, seq, v, prepares, commits, reached)
  PROVE  /\ results' \in [Nodes -> Seq(Result)]
         /\ consensusReached' \in [Nodes -> SUBSET Nat]
         /\ prepareMessages' \in [Nodes -> SUBSET ConsensusMessage]
         /\ commitMessages' \in [Nodes -> SUBSET ConsensusMessage]
         /\ \A k \in Nodes : /\ OneVotePerKey(prepareMessages'[k])
                             /\ OneVotePerKey(commitMessages'[k])
         /\ \A k \in Nodes : prepareMessages'[k] \subseteq cast'
         /\ \A k \in Nodes : commitMessages'[k] \subseteq cast'
         /\ \A k \in Nodes : \A x \in prepareMessages'[k] :
              x.type # "Commit" /\ (x.type = "PrePrepare" => x.nodeID = k)
         /\ \A k \in Nodes : \A x \in commitMessages'[k] : x.type = "Commit"
         /\ Validity' /\ QuorumBehindResult'
  <1> DEFINE r == [sequence |-> seq, data |-> v]
  <1>1. /\ results' = [results EXCEPT ![n] = Append(@, r)]
        /\ prepareMessages' = [prepareMessages EXCEPT ![n] = KeepFrom(prepares, seq)]
        /\ commitMessages' = [commitMessages EXCEPT ![n] = KeepFrom(commits, seq)]
        /\ consensusReached' = [consensusReached EXCEPT ![n] =
                                  {s \in reached : s >= seq}]
    BY DEF Execute
  <1>2. r \in Result /\ r.sequence = seq /\ r.data = v
    BY DEF Result
  <1> HIDE DEF r
  <1>3. results \in [Nodes -> Seq(Result)]
    BY DEF Safe, TypeOK
  <1>4. results' \in [Nodes -> Seq(Result)]
    BY <1>1, <1>2, <1>3
  <1>6. consensusReached' \in [Nodes -> SUBSET Nat]
    BY <1>1 DEF Safe, TypeOK
  <1>7. /\ prepareMessages' \in [Nodes -> SUBSET ConsensusMessage]
        /\ commitMessages' \in [Nodes -> SUBSET ConsensusMessage]
    BY <1>1, KeepLemma DEF Safe, TypeOK
  <1>8. \A k \in Nodes : /\ OneVotePerKey(prepareMessages'[k])
                         /\ OneVotePerKey(commitMessages'[k])
    BY <1>1, KeepLemma DEF Safe, TypeOK
  <1>9. /\ \A k \in Nodes : prepareMessages'[k] \subseteq cast'
        /\ \A k \in Nodes : commitMessages'[k] \subseteq cast'
    BY <1>1, KeepLemma DEF Safe, TypeOK, Traffic
  <1>10. /\ \A k \in Nodes : \A x \in prepareMessages'[k] :
              x.type # "Commit" /\ (x.type = "PrePrepare" => x.nodeID = k)
         /\ \A k \in Nodes : \A x \in commitMessages'[k] : x.type = "Commit"
    BY <1>1, KeepLemma DEF Safe, TypeOK, Votes
  <1>11. ASSUME NEW k \in Nodes, NEW j \in DOMAIN results'[k]
         PROVE  \/ j \in DOMAIN results[k] /\ results'[k][j] = results[k][j]
                \/ k = n /\ results'[k][j] = r
    BY <1>1, <1>2, <1>3
  <1>12. Validity'
    <2>1. Proposed(seq, v)'
      BY DEF Proposed
    <2> SUFFICES ASSUME NEW k \in Nodes, NEW j \in DOMAIN results'[k]
                 PROVE  Proposed(results[k][j].sequence, results[k][j].data)'
      BY DEF Validity, Proposed
    <2>2. CASE k = n /\ results'[k][j] = r
      BY <1>2, <2>1, <2>2 DEF Proposed
    <2>3. CASE j \in DOMAIN results[k] /\ results'[k][j] = results[k][j]
      BY <2>3 DEF Safe, Validity, Proposed
    <2> QED
      BY <1>11, <2>2, <2>3
  <1>13. QuorumBehindResult'
    <2> SUFFICES ASSUME NEW k \in Nodes, NEW j \in DOMAIN results'[k]
                 PROVE  Cardinality(Casters({"Commit"}, results[k][j].sequence)')
                          >= 2 * F(k) + 1
      BY DEF QuorumBehindResult, Casters
    <2>0. F(k) \in Int
      BY NodesAssumption DEF F
    <2>1. CASE k = n /\ results'[k][j] = r
      <3>1. Cardinality(Voters(commits, seq)) >= 2 * F(n) + 1
        BY DEF Committed
      <3>2. \A x \in commits : x.type \in {"Commit"}
        OBVIOUS
      <3>3. /\ Cardinality(Voters(commits, seq)) \in Nat
            /\ Cardinality(Casters({"Commit"}, seq)') \in Nat
            /\ Cardinality(Voters(commits, seq))
                 <= Cardinality(Casters({"Commit"}, seq)')
        BY <3>2, VotersCast
      <3> QED
        BY <1>2, <2>0, <2>1, <3>1, <3>3
    <2>2. CASE j \in DOMAIN results[k] /\ results'[k][j] = results[k][j]
      <3>0. PICK s : s = results[k][j].sequence /\ s = results'[k][j].sequence
        BY <2>2
      <3>1. Cardinality(Casters({"Commit"}, s)) >= 2 * F(k) + 1
        BY <2>2, <3>0 DEF Safe, QuorumBehindResult
      <3>2. /\ Cardinality(Casters({"Commit"}, s)) \in Nat
            /\ Cardinality(Casters({"Commit"}, s)') \in Nat
            /\ Cardinality(Casters({"Commit"}, s))
                 <= Cardinality(Casters({"Commit"}, s)')
        BY CastersGrow DEF Safe, TypeOK
      <3> QED
        BY <2>0, <3>0, <3>1, <3>2
    <2> QED
      BY <1>11, <2>1, <2>2
  <1> QED
    BY <1>4, <1>6, <1>7, <1>8, <1>9, <1>10, <1>12, <1>13

\* A prepare is stored; at the quorum it makes n commit, and execute if the
\* commits are there already.
LEMMA OnPrepareSafe ==
  ASSUME Safe, NEW n \in Nodes, OnPrepare(n)
  PROVE  Safe'
  <1> DEFINE m == Head(msgChan[n])
             prepares == Put(prepareMessages[n], m)
             c == CommitOf(n, m)
             commits == Put(commitMessages[n], c)
             fewPrepares ==
               /\ prepareMessages' = [prepareMessages EXCEPT ![n] = prepares]
               /\ UNCHANGED <<commitMessages, consensusReached,
                              link, faults, results, cast>>
             fewCommits ==
               /\ prepareMessages' = [prepareMessages EXCEPT ![n] = prepares]
               /\ commitMessages' = [commitMessages EXCEPT ![n] = commits]
               /\ UNCHANGED <<consensusReached, results>>
  <1>1. Takes(n, "Prepare")
    BY DEF OnPrepare
  <1>2. \/ fewPrepares
        \/ /\ Prepared(n, prepares, m.sequence)
           /\ \E reached \in SUBSET Peers(n) : Broadcast(n, c, reached)
           /\ \/ fewCommits
              \/ /\ Committed(n, commits, m.sequence)
                 /\ Execute(n, m.sequence, m.data, prepares, commits,
                            consensusReached[n])
    BY DEF OnPrepare
  <1>3. cast \subseteq cast'
    BY <1>2, BroadcastLemma
  <1>4. /\ m \in cast /\ m \in ConsensusMessage
        /\ m.type = "Prepare" /\ m.nodeID # n
        /\ msgChan' \in [Nodes -> Seq(ConsensusMessage)]
        /\ \A k \in Nodes : msgChan'[k] \in Seq(Foreign(k)')
        /\ UNCHANGED <<sequence, view, isLeader, proposing, down, aborted>>
    BY <1>1, <1>3, TakesLemma DEF Safe
  <1>5. m.view \in Nat /\ m.sequence \in Nat /\ m.data \in Values
    BY <1>4, Fields
  <1>6. Proposed(m.sequence, m.data)
    BY <1>4 DEF Safe, Echo
  <1>7. PICK msg : msg = m
    OBVIOUS
  <1>8. /\ prepares \subseteq cast /\ prepares \subseteq ConsensusMessage
        /\ OneVotePerKey(prepares)
        /\ \A x \in prepares :
             x.type # "Commit" /\ (x.type = "PrePrepare" => x.nodeID = n)
    BY <1>4, PutLemma DEF Safe, TypeOK, Traffic, Votes
  <1>9. CASE fewPrepares
    <2>1. prepareMessages' = [prepareMessages EXCEPT ![n] = prepares]
      BY <1>9
    <2>2. /\ UNCHANGED <<commitMessages, consensusReached,
                         link, faults, results, cast>>
      BY <1>9
    <2> HIDE DEF prepares
    <2>3. TypeOK'
      <3>1. prepareMessages' \in [Nodes -> SUBSET ConsensusMessage]
        BY <1>8, <2>1 DEF Safe, TypeOK
      <3>2. \A k \in Nodes : OneVotePerKey(prepareMessages'[k])
        BY <1>8, <2>1 DEF Safe, TypeOK
      <3> QED
        BY <1>4, <2>2, <3>1, <3>2 DEF Safe, TypeOK, OneVotePerKey
    <2>4. Traffic'
      <3>1. \A k \in Nodes : prepareMessages'[k] \subseteq cast
        BY <1>8, <2>1 DEF Safe, TypeOK, Traffic
      <3>2. \A i, j \in Nodes : link[<<i, j>>] \in Seq(From(i, j)')
        BY <1>3, QueuesGrow DEF Safe
      <3> QED
        BY <1>4, <2>2, <3>1, <3>2 DEF Safe, Traffic
    <2>5. Votes'
      <3>1. \A k \in Nodes : \A x \in prepareMessages'[k] :
              x.type # "Commit" /\ (x.type = "PrePrepare" => x.nodeID = k)
        BY <1>8, <2>1 DEF Safe, TypeOK, Votes
      <3> QED
        BY <1>4, <2>2, <3>1 DEF Safe, Votes
    <2>6. CastPart'
      BY <1>4, <2>2, CastUnchanged
    <2>7. Validity' /\ QuorumBehindResult'
      BY <1>3, <2>2, ResultsGrow DEF Safe, TypeOK
    <2> QED
      BY <2>3, <2>4, <2>5, <2>6, <2>7, Assemble
  <1>10. CASE /\ Prepared(n, prepares, m.sequence)
              /\ \E reached \in SUBSET Peers(n) : Broadcast(n, c, reached)
              /\ \/ fewCommits
                 \/ /\ Committed(n, commits, m.sequence)
                    /\ Execute(n, m.sequence, m.data, prepares, commits,
                               consensusReached[n])
    <2>1. PICK reached \in SUBSET Peers(n) : Broadcast(n, c, reached)
      BY <1>10
    <2>0. PICK com : com = c
      OBVIOUS
    <2>2. cast' = cast \cup {com}
      BY <2>0, <2>1, BroadcastLemma
    <2>3. /\ com \in ConsensusMessage
          /\ com.type = "Commit" /\ com.nodeID = n
          /\ com.sequence = msg.sequence /\ com.data = m.data
      <3>1. c = Vote("Commit", n, m.view, m.sequence, m.data)
        BY DEF CommitOf
      <3> HIDE DEF c, m
      <3> QED
        BY <1>5, <1>7, <2>0, <3>1, VoteType
    <2>4. /\ \A i, j \in Nodes : link'[<<i, j>>] \in Seq(From(i, j)')
          /\ link' \in [Nodes \X Nodes -> Seq(ConsensusMessage)]
          /\ cast' \in SUBSET ConsensusMessage
          /\ faults' \in 0 .. MaxFaults
      BY <2>0, <2>1, <2>3, BroadcastKeepsLinks DEF Safe
    <2>5. /\ commits \subseteq cast' /\ commits \subseteq ConsensusMessage
          /\ OneVotePerKey(commits)
          /\ \A x \in commits : x.type = "Commit"
      BY <1>3, <2>0, <2>2, <2>3, PutLemma DEF Safe, TypeOK, Traffic, Votes
    <2>6. Cardinality(Casters({"PrePrepare", "Prepare"}, com.sequence)')
            >= 2 * F(com.nodeID) + (IF isLeader[com.nodeID] THEN 0 ELSE 1)
      <3> DEFINE T == {"PrePrepare", "Prepare"}
                 s == msg.sequence
                 V == Voters(prepares, s)
                 Q == Casters(T, s)'
      <3>1. s = m.sequence /\ s = com.sequence
        BY <1>7, <2>3
      <3>2. Cardinality(V) >= 2 * F(n)
        BY <1>10, <3>1 DEF Prepared
      <3>3. \A x \in prepares : x.type \in T
        BY <1>8, Fields
      <3>4. prepares \subseteq cast'
        BY <1>3, <1>8
      <3>5. /\ V \subseteq Q /\ IsFiniteSet(V)
            /\ Cardinality(V) \in Nat /\ Cardinality(Q) \in Nat
            /\ Cardinality(V) <= Cardinality(Q)
        BY <2>4, <3>3, <3>4, VotersCast
      <3>6. F(n) \in Int
        BY NodesAssumption DEF F
      <3>7. CASE isLeader[n]
        BY <2>3, <3>1, <3>2, <3>5, <3>6, <3>7
      <3>8. CASE ~ isLeader[n]
        <4>1. PICK x \in cast : x.type = "PrePrepare" /\ x.sequence = s
          BY <1>6, <3>1 DEF Proposed
        <4>2. isLeader[x.nodeID]
          BY <4>1 DEF Safe, Votes
        <4>3. x.nodeID \in Q
          BY <1>3, <4>1 DEF Casters
        <4>4. x.nodeID \notin V
          <5> SUFFICES ASSUME NEW y \in prepares, y.nodeID = x.nodeID
                       PROVE  FALSE
            BY DEF Voters
          <5>1. y.type = "Prepare"
            BY <1>8, <3>8, <4>2, Fields
          <5> QED
            BY <1>8, <4>2, <5>1 DEF Safe, Votes
        <4>5. IsFiniteSet(Q)
          BY <2>4, CastersGrow, <1>3 DEF Safe, TypeOK
        <4>6. Cardinality(V \cup {x.nodeID}) = Cardinality(V) + 1
          BY <3>5, <4>4, FS_AddElement
        <4>7. Cardinality(V \cup {x.nodeID}) <= Cardinality(Q)
          BY <3>5, <4>3, <4>5, FS_Subset
        <4> HIDE DEF V, Q
        <4>8. Cardinality(Q) >= 2 * F(n) + 1
          BY <3>2, <3>5, <3>6, <4>6, <4>7
        <4> QED
          BY <2>3, <3>1, <3>8, <4>8 DEF Q
      <3> QED
        BY <3>7, <3>8
    <2>7. CastPart'
      BY <1>4, <1>6, <1>7, <2>2, <2>3, <2>6, VoteIsCast
    <2> HIDE DEF m, c, prepares, commits
    <2>8. CASE fewCommits
      <3>1. /\ prepareMessages' = [prepareMessages EXCEPT ![n] = prepares]
            /\ commitMessages' = [commitMessages EXCEPT ![n] = commits]
            /\ UNCHANGED <<consensusReached, results>>
        BY <2>8
      <3>2. /\ prepareMessages' \in [Nodes -> SUBSET ConsensusMessage]
            /\ commitMessages' \in [Nodes -> SUBSET ConsensusMessage]
        BY <1>8, <2>5, <3>1 DEF Safe, TypeOK
      <3>3. \A k \in Nodes : /\ OneVotePerKey(prepareMessages'[k])
                             /\ OneVotePerKey(commitMessages'[k])
        BY <1>8, <2>5, <3>1 DEF Safe, TypeOK
      <3>4. TypeOK'
        BY <1>4, <2>4, <3>1, <3>2, <3>3 DEF Safe, TypeOK, OneVotePerKey
      <3>5. /\ \A k \in Nodes : prepareMessages'[k] \subseteq cast'
            /\ \A k \in Nodes : commitMessages'[k] \subseteq cast'
        BY <1>3, <1>8, <2>5, <3>1 DEF Safe, TypeOK, Traffic
      <3>6. Traffic'
        BY <1>4, <2>4, <3>5 DEF Traffic
      <3>7. /\ \A k \in Nodes : \A x \in prepareMessages'[k] :
                 x.type # "Commit" /\ (x.type = "PrePrepare" => x.nodeID = k)
            /\ \A k \in Nodes : \A x \in commitMessages'[k] : x.type = "Commit"
        BY <1>8, <2>5, <3>1 DEF Safe, TypeOK, Votes
      <3>8. Votes'
        BY <1>4, <2>2, <2>3, <3>7 DEF Safe, Votes
      <3>9. Validity' /\ QuorumBehindResult'
        BY <1>3, <2>4, <3>1, ResultsGrow
      <3> QED
        BY <2>7, <3>4, <3>6, <3>8, <3>9, Assemble
    <2>9. CASE /\ Committed(n, commits, m.sequence)
               /\ Execute(n, m.sequence, m.data, prepares, commits,
                          consensusReached[n])
      <3>1. consensusReached[n] \in SUBSET Nat
        BY DEF Safe, TypeOK
      <3>2. prepares \subseteq cast' /\ cast \subseteq cast'
        BY <1>3, <1>8
      <3>3. /\ results' \in [Nodes -> Seq(Result)]
            /\ consensusReached' \in [Nodes -> SUBSET Nat]
            /\ prepareMessages' \in [Nodes -> SUBSET ConsensusMessage]
            /\ commitMessages' \in [Nodes -> SUBSET ConsensusMessage]
            /\ \A k \in Nodes : /\ OneVotePerKey(prepareMessages'[k])
                                /\ OneVotePerKey(commitMessages'[k])
            /\ \A k \in Nodes : prepareMessages'[k] \subseteq cast'
            /\ \A k \in Nodes : commitMessages'[k] \subseteq cast'
            /\ \A k \in Nodes : \A x \in prepareMessages'[k] :
                 x.type # "Commit" /\ (x.type = "PrePrepare" => x.nodeID = k)
            /\ \A k \in Nodes : \A x \in commitMessages'[k] : x.type = "Commit"
            /\ Validity' /\ QuorumBehindResult'
        BY <1>5, <1>6, <1>8, <2>4, <2>5, <2>9, <3>1, <3>2, ExecuteLemma
      <3>4. TypeOK'
        BY <1>4, <2>4, <3>3 DEF Safe, TypeOK, OneVotePerKey
      <3>5. Traffic'
        BY <1>4, <2>4, <3>3 DEF Traffic
      <3>6. Votes'
        BY <1>4, <2>2, <2>3, <3>3 DEF Safe, Votes
      <3> QED
        BY <2>7, <3>3, <3>4, <3>5, <3>6, Assemble
    <2> QED
      BY <1>10, <2>8, <2>9
  <1> QED
    BY <1>2, <1>9, <1>10

\* handleCommit sends nothing; what it executes has 2f+1 cast commits behind it.
LEMMA OnCommitSafe ==
  ASSUME Safe, NEW n \in Nodes, OnCommit(n)
  PROVE  Safe'
  <1> DEFINE m == Head(msgChan[n])
             commits == Put(commitMessages[n], m)
  <1>1. Takes(n, "Commit") /\ UNCHANGED <<link, faults, cast>>
    BY DEF OnCommit
  <1>2. \/ UNCHANGED <<prepareMessages, commitMessages, consensusReached, results>>
        \/ /\ commitMessages' = [commitMessages EXCEPT ![n] = commits]
           /\ UNCHANGED <<prepareMessages, consensusReached, results>>
        \/ /\ Committed(n, commits, m.sequence)
           /\ Execute(n, m.sequence, m.data, prepareMessages[n], commits,
                      consensusReached[n] \cup {m.sequence})
    BY DEF OnCommit
  <1>3. /\ m \in cast /\ m \in ConsensusMessage
        /\ m.type = "Commit" /\ m.nodeID # n
        /\ msgChan' \in [Nodes -> Seq(ConsensusMessage)]
        /\ \A k \in Nodes : msgChan'[k] \in Seq(Foreign(k)')
        /\ UNCHANGED <<sequence, view, isLeader, proposing, down, aborted>>
    BY <1>1, TakesLemma DEF Safe
  <1>4. m.sequence \in Nat /\ m.data \in Values /\ Proposed(m.sequence, m.data)
    BY <1>3, Fields DEF Safe, Echo
  <1>5. /\ commits \subseteq cast /\ commits \subseteq ConsensusMessage
        /\ OneVotePerKey(commits)
        /\ \A x \in commits : x.type = "Commit"
    BY <1>3, PutLemma DEF Safe, TypeOK, Traffic, Votes
  <1>6. CastPart'
    BY <1>1, <1>3, CastUnchanged
  <1>7. \A i, j \in Nodes : link'[<<i, j>>] \in Seq(From(i, j)')
    BY <1>1, QueuesGrow DEF Safe
  <1> HIDE DEF m, commits
  <1>8. CASE UNCHANGED <<prepareMessages, commitMessages, consensusReached, results>>
    <2>1. TypeOK'
      BY <1>1, <1>3, <1>8 DEF Safe, TypeOK, OneVotePerKey
    <2>2. Traffic'
      BY <1>1, <1>3, <1>7, <1>8 DEF Safe, Traffic
    <2>3. Votes'
      BY <1>1, <1>3, <1>8 DEF Safe, Votes
    <2>4. Validity' /\ QuorumBehindResult'
      BY <1>1, <1>8, ResultsGrow DEF Safe, TypeOK
    <2> QED
      BY <1>6, <2>1, <2>2, <2>3, <2>4, Assemble
  <1>9. CASE /\ commitMessages' = [commitMessages EXCEPT ![n] = commits]
             /\ UNCHANGED <<prepareMessages, consensusReached, results>>
    <2>1. commitMessages' \in [Nodes -> SUBSET ConsensusMessage]
      BY <1>5, <1>9 DEF Safe, TypeOK
    <2>2. \A k \in Nodes : OneVotePerKey(commitMessages'[k])
      BY <1>5, <1>9 DEF Safe, TypeOK
    <2>3. TypeOK'
      BY <1>1, <1>3, <1>9, <2>1, <2>2 DEF Safe, TypeOK, OneVotePerKey
    <2>4. \A k \in Nodes : commitMessages'[k] \subseteq cast
      BY <1>5, <1>9 DEF Safe, TypeOK, Traffic
    <2>5. Traffic'
      BY <1>1, <1>3, <1>7, <1>9, <2>4 DEF Safe, Traffic
    <2>6. \A k \in Nodes : \A x \in commitMessages'[k] : x.type = "Commit"
      BY <1>5, <1>9 DEF Safe, TypeOK, Votes
    <2>7. Votes'
      BY <1>1, <1>3, <1>9, <2>6 DEF Safe, Votes
    <2>8. Validity' /\ QuorumBehindResult'
      BY <1>1, <1>9, ResultsGrow DEF Safe, TypeOK
    <2> QED
      BY <1>6, <2>3, <2>5, <2>7, <2>8, Assemble
  <1>10. CASE /\ Committed(n, commits, m.sequence)
              /\ Execute(n, m.sequence, m.data, prepareMessages[n], commits,
                         consensusReached[n] \cup {m.sequence})
    <2>1. consensusReached[n] \cup {m.sequence} \in SUBSET Nat
      BY <1>4 DEF Safe, TypeOK
    <2>2. /\ cast' \in SUBSET ConsensusMessage /\ cast \subseteq cast'
          /\ commits \subseteq cast'
      BY <1>1, <1>5 DEF Safe, TypeOK
    <2>3. /\ prepareMessages[n] \subseteq cast'
          /\ OneVotePerKey(prepareMessages[n])
          /\ \A x \in prepareMessages[n] :
               x.type # "Commit" /\ (x.type = "PrePrepare" => x.nodeID = n)
      BY <1>1 DEF Safe, TypeOK, Traffic, Votes
    <2>4. /\ results' \in [Nodes -> Seq(Result)]
          /\ consensusReached' \in [Nodes -> SUBSET Nat]
          /\ prepareMessages' \in [Nodes -> SUBSET ConsensusMessage]
          /\ commitMessages' \in [Nodes -> SUBSET ConsensusMessage]
          /\ \A k \in Nodes : /\ OneVotePerKey(prepareMessages'[k])
                              /\ OneVotePerKey(commitMessages'[k])
          /\ \A k \in Nodes : prepareMessages'[k] \subseteq cast'
          /\ \A k \in Nodes : commitMessages'[k] \subseteq cast'
          /\ \A k \in Nodes : \A x \in prepareMessages'[k] :
               x.type # "Commit" /\ (x.type = "PrePrepare" => x.nodeID = k)
          /\ \A k \in Nodes : \A x \in commitMessages'[k] : x.type = "Commit"
          /\ Validity' /\ QuorumBehindResult'
      BY <1>4, <1>5, <1>10, <2>1, <2>2, <2>3, ExecuteLemma
    <2>5. TypeOK'
      BY <1>1, <1>3, <2>4 DEF Safe, TypeOK, OneVotePerKey
    <2>6. Traffic'
      BY <1>3, <1>7, <2>4 DEF Traffic
    <2>7. Votes'
      BY <1>1, <1>3, <2>4 DEF Safe, Votes
    <2> QED
      BY <1>6, <2>4, <2>5, <2>6, <2>7, Assemble
  <1> QED
    BY <1>2, <1>8, <1>9, <1>10

\* Safe is inductive: every step of Next preserves it.
LEMMA StepSafe == Safe /\ [Next]_vars => Safe'
  <1> SUFFICES ASSUME Safe, [Next]_vars PROVE Safe'
    OBVIOUS
  <1>1. ASSUME NEW n \in Nodes, NEW v \in Values, ProposeValue(n, v) PROVE Safe'
    BY <1>1, ProposeSafe
  <1>2. ASSUME NEW n \in Nodes, Receive(n) PROVE Safe'
    BY <1>2, AcceptSafe, RejectSafe DEF Receive
  <1>3. ASSUME NEW n \in Nodes, Handle(n) PROVE Safe'
    BY <1>3, IgnoreSafe, OnPrePrepareSafe, OnPrepareSafe, OnCommitSafe DEF Handle
  <1>4. ASSUME NEW n \in Nodes, Crash(n) PROVE Safe'
    BY <1>4, CrashSafe
  <1>5. ASSUME NEW i \in Nodes, NEW j \in Nodes,
               ConnectionBreaks(i, j) \/ Overtake(i, j)
        PROVE  Safe'
    BY <1>5, BreaksSafe, OvertakeSafe
  <1>7. ASSUME NEW n \in Nodes, CountOn(n) PROVE Safe'
    BY <1>7, CountOnSafe
  <1>6. CASE UNCHANGED vars
    <2> USE <1>6 DEF vars, engineVars, netVars, histVars
    <2>1. TypeOK'
      BY DEF Safe, TypeOK, OneVotePerKey
    <2>2. Traffic'
      <3>1. /\ \A a, b \in Nodes : From(a, b)' = From(a, b)
            /\ \A k \in Nodes : Foreign(k)' = Foreign(k)
        BY DEF From, Foreign
      <3> QED
        BY <3>1 DEF Safe, Traffic
    <2>3. Votes'
      BY DEF Safe, Votes
    <2>4. CastPart'
      BY CastUnchanged
    <2>5. Validity' /\ QuorumBehindResult'
      BY ResultsGrow DEF Safe, TypeOK
    <2> QED
      BY <2>1, <2>2, <2>3, <2>4, <2>5, Assemble
  <1> QED
    BY <1>1, <1>2, <1>3, <1>4, <1>5, <1>6, <1>7 DEF Next

-----------------------------------------------------------------------------
(* The theorems. *)

\* Every reachable state satisfies the inductive invariant.
THEOREM Invariance == Spec => []Safe
  BY InitSafe, StepSafe, PTL DEF Spec

\* Every variable keeps its type and the vote maps stay maps.
THEOREM TypeCorrect == Spec => []TypeOK
  <1>1. Safe => TypeOK
    BY DEF Safe
  <1> QED
    BY <1>1, Invariance, PTL

\* No node is handed data that was not proposed under that number.
THEOREM ResultsAreProposed == Spec => []Validity
  <1>1. Safe => Validity
    BY DEF Safe
  <1> QED
    BY <1>1, Invariance, PTL

\* Behind every result there are 2f+1 nodes that committed to its number.
THEOREM ResultsHaveQuorums == Spec => []QuorumBehindResult
  <1>1. Safe => QuorumBehindResult
    BY DEF Safe
  <1> QED
    BY <1>1, Invariance, PTL

\* Behind every commit there are 2f+1 nodes in favour of its number, or 2f
\* if it is the leader's.
THEOREM CommitsHaveQuorums == Spec => []PrepareQuorumBehindCommit
  <1>1. Safe => PrepareQuorumBehindCommit
    BY DEF Safe
  <1> QED
    BY <1>1, Invariance, PTL

\* No message and no node is ahead of the leader's number.
THEOREM LeaderIsAhead == Spec => []LeaderAhead
  <1>1. Safe => LeaderAhead
    BY DEF Safe
  <1> QED
    BY <1>1, Invariance, PTL

\* Two results of one number agree unless a broadcast of that number failed:
\* each was proposed under the number (Validity), and such proposals are all
\* the same (Unique).
THEOREM AgreementTheorem == Spec => []AgreementUnlessAborted
  <1>1. Safe => AgreementUnlessAborted
    BY DEF Safe, Validity, Unique, Proposed, AgreementUnlessAborted
  <1> QED
    BY <1>1, Invariance, PTL

-----------------------------------------------------------------------------
(* The engines implement OracleLog. *)

\* The entries of the log: the pre-prepares that were cast.
Entries == {[sequence |-> m.sequence, data |-> m.data] :
              m \in {x \in cast : x.type = "PrePrepare"}}

\* There is one leader at most, and its number is the log's.
LEMMA LeadersNumber ==
  ASSUME Safe, NEW n \in Nodes, isLeader[n], UNCHANGED isLeader
  PROVE  /\ LeaderSequence = IF n \in proposing THEN sequence[n] + 1
                                              ELSE sequence[n]
         /\ LeaderSequence' = IF n \in proposing' THEN sequence'[n] + 1
                                                ELSE sequence'[n]
  <1>1. \A l \in Nodes : isLeader[l] => l = n
    BY OneLeaderAssumption DEF Safe, Votes
  <1>2. (CHOOSE l \in Nodes : isLeader[l]) = n
    BY <1>1
  <1> QED
    BY <1>2 DEF LeaderSequence

\* A step that moves no leader leaves the log's number.
LEMMA NumberStays ==
  ASSUME Safe, UNCHANGED <<isLeader, proposing>>,
         \A l \in Nodes : isLeader[l] => sequence'[l] = sequence[l]
  PROVE  LeaderSequence' = LeaderSequence
  <1>1. CASE \E l \in Nodes : isLeader[l]
    <2>1. PICK k \in Nodes : k = CHOOSE l \in Nodes : isLeader[l]
      BY <1>1
    <2>2. isLeader[k]
      BY <1>1, <2>1
    <2>3. LeaderSequence = IF k \in proposing THEN sequence[k] + 1 ELSE sequence[k]
      BY <1>1, <2>1 DEF LeaderSequence
    <2>4. LeaderSequence' = IF k \in proposing THEN sequence'[k] + 1 ELSE sequence'[k]
      BY <1>1, <2>1 DEF LeaderSequence
    <2> QED
      BY <2>2, <2>3, <2>4
  <1>2. CASE ~ \E l \in Nodes : isLeader[l]
    BY <1>2 DEF LeaderSequence
  <1> QED
    BY <1>1, <1>2

\* The same proposals are cast after a step that casts another message.
LEMMA EntriesStay ==
  ASSUME NEW m, m.type # "PrePrepare", cast' = cast \cup {m}
  PROVE  Entries' = Entries
  BY DEF Entries

\* A successful or a failed proposal is a proposal of the log.
LEMMA ProposeRefines ==
  ASSUME Safe, NEW n \in Nodes, NEW v \in Values, ProposeValue(n, v)
  PROVE  Log!Propose(v)
  <1> DEFINE s == sequence[n]
             m == Vote("PrePrepare", n, view[n], s, v)
  <1>1. s \in Nat /\ view[n] \in Nat
    BY DEF Safe, TypeOK
  <1>2. m.type = "PrePrepare" /\ m.sequence = s /\ m.data = v
    BY <1>1, VoteType
  <1>3. /\ isLeader[n] /\ v \in Unproposed /\ n \notin proposing
        /\ UNCHANGED <<sequence, isLeader, results>>
    BY DEF ProposeValue
  <1>4. PICK reached \in SUBSET Peers(n) :
          /\ Broadcast(n, m, reached)
          /\ \/ proposing' = proposing \cup {n} /\ UNCHANGED aborted
             \/ aborted' = aborted \cup {s} /\ UNCHANGED proposing
    BY DEF ProposeValue
  <1>5. PICK msg : msg = m
    OBVIOUS
  <1>6. cast' = cast \cup {msg}
    BY <1>4, <1>5, BroadcastLemma
  <1>7. /\ LeaderSequence = s
        /\ LeaderSequence' = IF n \in proposing' THEN s + 1 ELSE s
    BY <1>3, LeadersNumber
  <1>8. PICK e : e = [sequence |-> s, data |-> v]
    OBVIOUS
  <1>9. Entries' = Entries \cup {e}
    BY <1>2, <1>5, <1>6, <1>8 DEF Entries
  <1>10. \A p \in Entries : p.data # v
    BY <1>3 DEF Entries, Unproposed
  <1>11. \/ LeaderSequence' = LeaderSequence + 1 /\ UNCHANGED aborted
         \/ /\ aborted' = aborted \cup {LeaderSequence}
            /\ UNCHANGED LeaderSequence
    BY <1>3, <1>4, <1>7
  <1>12. Entries' = Entries \cup {[sequence |-> LeaderSequence, data |-> v]}
    BY <1>7, <1>8, <1>9
  <1> QED
    BY <1>3, <1>10, <1>11, <1>12 DEF Log!Propose, Entries

\* An execution hands an entry of the log to its node.
LEMMA ExecuteRefines ==
  ASSUME NEW n \in Nodes, NEW seq, NEW v, NEW prepares, NEW commits,
         NEW reached, Proposed(seq, v),
         Execute(n, seq, v, prepares, commits, reached),
         Entries' = Entries, UNCHANGED <<LeaderSequence, aborted>>
  PROVE  Log!Deliver(n)
  <1>1. PICK r : r = [sequence |-> seq, data |-> v]
    OBVIOUS
  <1>2. r \in Entries
    BY <1>1 DEF Proposed, Entries
  <1>3. results' = [results EXCEPT ![n] = Append(@, r)]
    BY <1>1 DEF Execute
  <1> QED
    BY <1>2, <1>3 DEF Log!Deliver, Entries

\* Every step of the engines is one of the log, or leaves the log alone.
LEMMA StepRefines ==
  ASSUME Safe, [Next]_vars
  PROVE  [Log!Next]_(Log!vars)
  <1> DEFINE Stutter == UNCHANGED <<LeaderSequence, Entries, aborted, results>>
  <1>1. ASSUME NEW n \in Nodes, NEW v \in Values, ProposeValue(n, v)
        PROVE  Log!Next
    BY <1>1, ProposeRefines DEF Log!Next
  <1>2. ASSUME UNCHANGED <<cast, aborted, results, sequence, isLeader, proposing>>
        PROVE  Stutter
    BY <1>2 DEF LeaderSequence, Entries
  <1>3. ASSUME NEW i \in Nodes, NEW n \in Nodes, Accept(i, n)
        PROVE  Stutter
    <2> DEFINE m == Head(link[<<i, n>>])
    <2>1. /\ m \in cast
          /\ sequence' = [sequence EXCEPT ![n] = AtLeast(m.sequence, @)]
          /\ UNCHANGED <<isLeader, proposing, results, cast, aborted>>
      <3>1. link[<<i, n>>] \in Seq(From(i, n)) /\ link[<<i, n>>] # <<>>
        BY <1>3 DEF Safe, Traffic, Accept, Receiving
      <3>2. m \in From(i, n)
        BY <3>1, QueueEnds
      <3> QED
        BY <1>3, <3>2 DEF Accept, From, histVars
    <2>2. ASSUME NEW l \in Nodes, isLeader[l]
          PROVE  sequence'[l] = sequence[l]
      <3>1. m.sequence <= sequence[l] /\ m.sequence \in Nat
        BY <2>1, <2>2, Fields DEF Safe, TypeOK, LeaderAhead
      <3> QED
        BY <2>1, <3>1 DEF AtLeast, Safe, TypeOK
    <2>3. UNCHANGED LeaderSequence
      BY <2>1, <2>2, NumberStays
    <2> QED
      BY <2>1, <2>3 DEF Entries
  <1>4. ASSUME NEW n \in Nodes, OnPrePrepare(n)
        PROVE  Stutter
    <2> DEFINE p == PrepareOf(n, Head(msgChan[n]))
    <2>1. PICK reached \in SUBSET Peers(n) : Broadcast(n, p, reached)
      BY <1>4 DEF OnPrePrepare
    <2>2. UNCHANGED <<sequence, isLeader, proposing, aborted, results>>
      BY <1>4 DEF OnPrePrepare, Takes
    <2>3. PICK msg : msg = p
      OBVIOUS
    <2>4. msg.type # "PrePrepare" /\ cast' = cast \cup {msg}
      BY <2>1, <2>3, BroadcastLemma DEF PrepareOf, Vote
    <2> QED
      BY <2>2, <2>4, EntriesStay DEF LeaderSequence
  <1>5. ASSUME NEW n \in Nodes, OnPrepare(n)
        PROVE  Stutter \/ Log!Deliver(n)
    <2> DEFINE m == Head(msgChan[n])
               prepares == Put(prepareMessages[n], m)
               c == CommitOf(n, m)
    <2>1. /\ Takes(n, "Prepare")
          /\ \/ UNCHANGED <<results, cast>>
             \/ /\ \E reached \in SUBSET Peers(n) : Broadcast(n, c, reached)
                /\ \/ UNCHANGED results
                   \/ Execute(n, m.sequence, m.data, prepares,
                              Put(commitMessages[n], c), consensusReached[n])
      BY <1>5 DEF OnPrepare
    <2>2. UNCHANGED <<sequence, isLeader, proposing, aborted>>
      BY <2>1 DEF Takes
    <2>3. PICK com : com = c
      OBVIOUS
    <2>4. com.type # "PrePrepare" /\ (cast' = cast \/ cast' = cast \cup {com})
      BY <2>1, <2>3, BroadcastLemma DEF CommitOf, Vote
    <2>5. UNCHANGED <<LeaderSequence, Entries>>
      <3>1. cast' = cast => Entries' = Entries
        BY DEF Entries
      <3> QED
        BY <2>2, <2>4, <3>1, EntriesStay DEF LeaderSequence
    <2>6. Proposed(m.sequence, m.data)
      <3>1. cast \subseteq cast'
        BY <2>4
      <3> QED
        BY <2>1, <3>1, TakesLemma DEF Safe, Echo
    <2> QED
      BY <2>1, <2>2, <2>5, <2>6, ExecuteRefines
  <1>6. ASSUME NEW n \in Nodes, OnCommit(n)
        PROVE  Stutter \/ Log!Deliver(n)
    <2> DEFINE m == Head(msgChan[n])
    <2>1. /\ Takes(n, "Commit")
          /\ UNCHANGED cast
          /\ \/ UNCHANGED results
             \/ Execute(n, m.sequence, m.data, prepareMessages[n],
                        Put(commitMessages[n], m),
                        consensusReached[n] \cup {m.sequence})
      BY <1>6 DEF OnCommit
    <2>2. UNCHANGED <<sequence, isLeader, proposing, aborted>>
      BY <2>1 DEF Takes
    <2>3. UNCHANGED <<LeaderSequence, Entries>>
      BY <2>1, <2>2 DEF LeaderSequence, Entries
    <2>4. Proposed(m.sequence, m.data)
      BY <2>1, TakesLemma DEF Safe, Echo
    <2> QED
      BY <2>1, <2>2, <2>3, <2>4, ExecuteRefines
  <1>7. ASSUME NEW n \in Nodes, IgnorePrePrepare(n) \/ Crash(n)
        PROVE  Stutter
    BY <1>2, <1>7 DEF IgnorePrePrepare, Crash, Takes, engineVars, histVars
  <1>8. ASSUME NEW i \in Nodes, NEW n \in Nodes,
               Reject(i, n) \/ ConnectionBreaks(i, n) \/ Overtake(i, n)
        PROVE  Stutter
    BY <1>2, <1>8 DEF Reject, ConnectionBreaks, Overtake, engineVars, histVars
  <1>12. ASSUME NEW n \in Nodes, CountOn(n)
         PROVE  Stutter
    <2>1. /\ n \in proposing /\ n \notin proposing' /\ isLeader[n]
          /\ sequence'[n] = sequence[n] + 1
          /\ UNCHANGED <<isLeader, cast, aborted, results>>
      BY <1>12 DEF CountOn, histVars, Safe, TypeOK, Votes
    <2>2. UNCHANGED LeaderSequence
      BY <2>1, LeadersNumber
    <2> QED
      BY <2>1, <2>2 DEF Entries
  <1>9. ASSUME UNCHANGED vars
        PROVE  Stutter
    <2>1. UNCHANGED <<cast, aborted, results, sequence, isLeader, proposing>>
      BY <1>9 DEF vars, engineVars, histVars
    <2> QED
      BY <2>1 DEF LeaderSequence, Entries
  <1>10. Stutter => UNCHANGED Log!vars
    BY DEF Log!vars, Entries
  <1>11. (\E n \in Nodes : Log!Deliver(n)) => Log!Next
    BY DEF Log!Next
  <1> HIDE DEF Stutter
  <1> QED
    BY <1>1, <1>3, <1>4, <1>5, <1>6, <1>7, <1>8, <1>9, <1>10, <1>11, <1>12
      DEF Next, Receive, Handle

\* The detailed specification implements the abstract one.
THEOREM Refinement == Spec => ImplementsLog
  <1>1. Init => Log!Init
    BY DEF Init, Log!Init, LeaderSequence
  <1>2. Safe /\ [Next]_vars => [Log!Next]_(Log!vars)
    BY StepRefines
  <1> QED
    BY <1>1, <1>2, Invariance, PTL DEF Spec, ImplementsLog, Log!Spec
=============================================================================
