--------------------------------- MODULE Pbft ---------------------------------
(***************************************************************************)
(* The PBFT engine of oracle/pkg/consensus/pbft.go, one instance per node, *)
(* over the point-to-point transport of oracle/pkg/network/p2p.go: the     *)
(* normal case (propose, pre-prepare, prepare, commit, execute, clean up), *)
(* with failing broadcasts, broken connections and crashed nodes.          *)
(*                                                                         *)
(* Two goroutines of a node touch an engine: the receiver, which calls     *)
(* ProcessMessage and updates `sequence` and `view` without the lock, and  *)
(* run, which takes messages from msgChan and handles them one at a time   *)
(* under the lock. They are separate actions here, with msgChan between    *)
(* them. A handler is one action: it holds the lock throughout and, after  *)
(* its first look at `sequence`, touches nothing that the receiver writes. *)
(* ProposeValue is two, as the receiver looks at `sequence` before it is   *)
(* counted on.                                                             *)
(*                                                                         *)
(* Abstractions. A payload (the JSON of one ConsensusData) is a member of  *)
(* Values; sha256 is injective. What is written and not read is a queue    *)
(* per ordered pair of nodes. Nodes run this code: none sends what it      *)
(* cannot send. Checkpoints are left out: nothing reads them.              *)
(***************************************************************************)
EXTENDS Integers, FiniteSets, Sequences

CONSTANTS
  Nodes,               \* the oracle nodes
  Members,             \* Members[n]: the list of nodes NewPBFT gets at n
  Values,              \* payloads handed to ProposeValue, all different
  ChanCap,             \* capacity of msgChan, 1000 in the code
  MaxFaults,           \* bound: transient network errors in a behaviour
  MaxDown,             \* bound: nodes that crash in a behaviour
  Hung                 \* nodes that take no step: the connections to them
                       \* stay open, writes to them succeed, nothing answers

ASSUME NodesAssumption ==
  /\ IsFiniteSet(Nodes)
  /\ Hung \subseteq Nodes
  /\ Members \in [Nodes -> Seq(Nodes) \ {<<>>}]

\* At most one node finds itself at the head of its own list.
ASSUME OneLeaderAssumption ==
  \A n, k \in Nodes : Members[n][1] = n /\ Members[k][1] = k => n = k

ASSUME BoundsAssumption ==
  /\ ChanCap \in Nat
  /\ MaxFaults \in Nat
  /\ MaxDown \in Nat

VARIABLES
  sequence,          \* next sequence number (leader), highest seen (others)
  view,              \* view number; only a view change leaves view 0
  isLeader,          \* set once by NewPBFT in the normal case
  prepareMessages,   \* the map sequence -> node -> message, as a set
  commitMessages,    \* likewise
  consensusReached,  \* sequences flagged as decided by handleCommit
  proposing,         \* nodes in ProposeValue, behind a broadcast that succeeded
  msgChan,           \* messages in the channel, and the one the receiver holds
  link,              \* link[<<i, j>>]: bytes written by i, unread by j
  down,              \* crashed nodes
  results,           \* history: the calls of resultCallback, in order
  cast,              \* history: every message handed to Broadcast
  aborted,           \* history: sequences whose pre-prepare broadcast failed
  faults             \* transient network errors so far

engineVars == <<sequence, view, isLeader, prepareMessages, commitMessages,
                consensusReached, proposing>>
netVars    == <<msgChan, link, down, faults>>
histVars   == <<results, cast, aborted>>
vars       == <<engineVars, netVars, histVars>>

-----------------------------------------------------------------------------
(* Messages and votes. *)

Digest(v) == [sha256 |-> v]
Digests   == {Digest(v) : v \in Values}

ConsensusMessage ==
  [type : {"PrePrepare", "Prepare", "Commit"}, nodeID : Nodes, view : Nat,
   sequence : Nat, digest : Digests, data : Values]

Result == [sequence : Nat, data : Values]

Vote(type, n, vw, seq, v) ==
  [type |-> type, nodeID |-> n, view |-> vw, sequence |-> seq,
   digest |-> Digest(v), data |-> v]

\* Mutant of Put: the vote is added beside an earlier one of the same key.
PutBeside(map, m) == map \cup {m}

\* Storing at the key (sequence, node) replaces what was there.
Put(map, m) ==
  {x \in map : x.sequence # m.sequence \/ x.nodeID # m.nodeID} \cup {m}

\* The keys of the inner map of a sequence number: len counts these.
Voters(map, seq) == {m.nodeID : m \in {x \in map : x.sequence = seq}}

MemberSet(n) == {Members[n][i] : i \in 1 .. Len(Members[n])}

\* Mutant of CommitOf: the commit names the engine's number, not the vote's.
CommitAtOwn(n, m) == Vote("Commit", n, m.view, sequence[n], m.data)

\* What a pre-prepare m makes n send, and what a prepare m makes n send.
PrepareOf(n, m) == Vote("Prepare", n, m.view, m.sequence, m.data)
CommitOf(n, m)  == Vote("Commit", n, m.view, m.sequence, m.data)

F(n) == (Len(Members[n]) - 1) \div 3

\* Mutants of Prepared and Committed: one vote in f is enough, one vote less.
PreparedByF(n, map, seq)  == Cardinality(Voters(map, seq)) >= F(n)
CommittedBy2F(n, map, seq) == Cardinality(Voters(map, seq)) >= 2 * F(n)

Prepared(n, map, seq)  == Cardinality(Voters(map, seq)) >= 2 * F(n)
Committed(n, map, seq) == Cardinality(Voters(map, seq)) >= 2 * F(n) + 1

-----------------------------------------------------------------------------
(* The network. *)

\* The nodes whose goroutines run.
Running == (Nodes \ down) \ Hung

Peers(n) == Nodes \ {n}

\* Broadcast sends to the peers in the random order of a map and stops at
\* the first error, so an error leaves any part of the peers unreached. A
\* write towards a crashed node fails, or still succeeds and is lost.
Broadcast(n, m, reached) ==
  /\ reached \in SUBSET Peers(n)
  /\ \/ /\ reached = Peers(n)
        /\ UNCHANGED faults
     \/ /\ (Peers(n) \ reached) \cap down # {}
        /\ UNCHANGED faults
     \/ /\ reached # Peers(n)
        /\ (Peers(n) \ reached) \cap down = {}
        /\ faults < MaxFaults
        /\ faults' = faults + 1
  /\ link' = [p \in Nodes \X Nodes |->
                IF p[1] = n /\ p[2] \in reached \cap Running
                  THEN Append(link[p], m)
                  ELSE link[p]]
  /\ cast' = cast \cup {m}

\* Broadcast returned nil.
Sent(n, reached) == reached = Peers(n)

\* A connection breaks, and what its reader had not read is lost.
ConnectionBreaks(i, j) ==
  /\ link[<<i, j>>] # <<>>
  /\ faults < MaxFaults
  /\ faults' = faults + 1
  /\ link' = [link EXCEPT ![<<i, j>>] = <<>>]
  /\ UNCHANGED <<engineVars, msgChan, down, histVars>>

\* A connection was replaced while its reader went on: of two messages the
\* later one arrives first.
Overtake(i, j) ==
  LET s == link[<<i, j>>] IN
  /\ faults < MaxFaults
  /\ faults' = faults + 1
  /\ \E k \in 1 .. Len(s) - 1 :
       link' = [link EXCEPT ![<<i, j>>] =
                  [s EXCEPT ![k] = s[k + 1], ![k + 1] = s[k]]]
  /\ UNCHANGED <<engineVars, msgChan, down, histVars>>

\* The process of node n dies: nothing reads its connections any more.
Crash(n) ==
  /\ n \in Running
  /\ Cardinality(down) < MaxDown
  /\ down' = down \cup {n}
  /\ msgChan' = [msgChan EXCEPT ![n] = <<>>]
  /\ link' = [p \in Nodes \X Nodes |-> IF p[2] = n THEN <<>> ELSE link[p]]
  /\ UNCHANGED <<engineVars, faults, histVars>>

-----------------------------------------------------------------------------
(* The engine. *)

Init ==
  /\ sequence = [n \in Nodes |-> 0]
  /\ view = [n \in Nodes |-> 0]
  /\ isLeader = [n \in Nodes |-> Members[n][1] = n]
  /\ prepareMessages = [n \in Nodes |-> {}]
  /\ commitMessages = [n \in Nodes |-> {}]
  /\ consensusReached = [n \in Nodes |-> {}]
  /\ proposing = {}
  /\ msgChan = [n \in Nodes |-> <<>>]
  /\ link = [p \in Nodes \X Nodes |-> <<>>]
  /\ down = {}
  /\ results = [n \in Nodes |-> <<>>]
  /\ cast = {}
  /\ aborted = {}
  /\ faults = 0

\* Each payload carries a request ID and a timestamp: no two are equal.
Unproposed == Values \ {m.data : m \in cast}

\* ProposeValue up to the end of the broadcast. When that failed it returns
\* without counting on, and the number is given out again.
ProposeValue(n, v) ==
  LET msg == Vote("PrePrepare", n, view[n], sequence[n], v) IN
  /\ n \in Running \ proposing
  /\ isLeader[n]
  /\ v \in Unproposed
  /\ prepareMessages' = [prepareMessages EXCEPT ![n] = Put(@, msg)]
  /\ \E reached \in SUBSET Peers(n) :
       /\ Broadcast(n, msg, reached)
       /\ \/ /\ Sent(n, reached)
             /\ proposing' = proposing \cup {n}
             /\ UNCHANGED aborted
          \/ /\ ~ Sent(n, reached)
             /\ aborted' = aborted \cup {sequence[n]}
             /\ UNCHANGED proposing
  /\ UNCHANGED <<sequence, view, isLeader, commitMessages, consensusReached,
                 msgChan, down, results>>

\* The rest of it, p.sequence++. Votes may have come in between.
CountOn(n) ==
  /\ n \in Running \cap proposing
  /\ sequence' = [sequence EXCEPT ![n] = @ + 1]
  /\ proposing' = proposing \ {n}
  /\ UNCHANGED <<view, isLeader, prepareMessages, commitMessages,
                 consensusReached, netVars, histVars>>

\* Mutant of Valid: no vote below the engine's own number is accepted.
ValidNoWindow(n, m) ==
  /\ m.nodeID \in MemberSet(n)
  /\ m.sequence >= sequence[n]
  /\ view[n] > 1 => m.view >= view[n] - 1
  /\ m.type = "PrePrepare" => isLeader[n] \/ m.nodeID # n

\* validateMessage: the window behind the engine's own numbers is one.
Valid(n, m) ==
  /\ m.nodeID \in MemberSet(n)
  /\ sequence[n] > 1 => m.sequence >= sequence[n] - 1
  /\ view[n] > 1 => m.view >= view[n] - 1
  /\ m.type = "PrePrepare" => isLeader[n] \/ m.nodeID # n

\* Mutants of AtLeast: assigned without the comparison; one too far.
Assigned(x, y) == x
OnePast(x, y)  == IF x >= y THEN x + 1 ELSE y

AtLeast(x, y) == IF x > y THEN x ELSE y

\* The receiver does not wait at a full channel: the one message more than
\* its capacity is the message it waits with.
Receiving(i, n) ==
  /\ n \in Running
  /\ link[<<i, n>>] # <<>>
  /\ Len(msgChan[n]) <= ChanCap
  /\ link' = [link EXCEPT ![<<i, n>>] = Tail(@)]

\* ProcessMessage accepts a message: the numbers are raised at once, the
\* handler runs when the message has gone through msgChan.
Accept(i, n) ==
  LET m == Head(link[<<i, n>>]) IN
  /\ Receiving(i, n)
  /\ Valid(n, m)
  /\ msgChan' = [msgChan EXCEPT ![n] = Append(@, m)]
  /\ sequence' = [sequence EXCEPT ![n] = AtLeast(m.sequence, @)]
  /\ view' = [view EXCEPT ![n] = AtLeast(m.view, @)]
  /\ UNCHANGED <<isLeader, prepareMessages, commitMessages, consensusReached,
                 proposing, down, faults, histVars>>

\* ProcessMessage refuses a message: it is logged and forgotten.
Reject(i, n) ==
  /\ Receiving(i, n)
  /\ ~ Valid(n, Head(link[<<i, n>>]))
  /\ UNCHANGED <<engineVars, msgChan, down, faults, histVars>>

\* The run goroutine takes the next message, which is of the given type, and
\* then p.mu.
Takes(n, type) ==
  /\ n \in Running \ proposing
  /\ msgChan[n] # <<>>
  /\ Head(msgChan[n]).type = type
  /\ msgChan' = [msgChan EXCEPT ![n] = Tail(@)]
  /\ UNCHANGED <<sequence, view, isLeader, proposing, down, aborted>>

\* The pre-prepare is of a sequence number below the one reached meanwhile,
\* or its digest is not that of its data.
Obsolete(n, m) == m.sequence < sequence[n] \/ m.digest # Digest(m.data)

IgnorePrePrepare(n) ==
  /\ Takes(n, "PrePrepare")
  /\ Obsolete(n, Head(msgChan[n]))
  /\ UNCHANGED <<prepareMessages, commitMessages, consensusReached,
                 link, faults, results, cast>>

\* An error of the broadcast is dropped here and in OnPrepare.
OnPrePrepare(n) ==
  LET m == Head(msgChan[n])
      prepare == PrepareOf(n, m)
  IN
  /\ Takes(n, "PrePrepare")
  /\ ~ Obsolete(n, m)
  /\ prepareMessages' = [prepareMessages EXCEPT ![n] = Put(@, prepare)]
  /\ \E reached \in SUBSET Peers(n) : Broadcast(n, prepare, reached)
  /\ UNCHANGED <<commitMessages, consensusReached, results>>

\* cleanup forgets what is below the executed sequence number.
KeepFrom(map, seq) == {m \in map : m.sequence >= seq}

\* executeConsensus on maps that already hold the vote being handled.
Execute(n, seq, v, prepares, commits, reached) ==
  /\ results' = [results EXCEPT ![n] = Append(@, [sequence |-> seq, data |-> v])]
  /\ prepareMessages' = [prepareMessages EXCEPT ![n] = KeepFrom(prepares, seq)]
  /\ commitMessages' = [commitMessages EXCEPT ![n] = KeepFrom(commits, seq)]
  /\ consensusReached' = [consensusReached EXCEPT ![n] =
                            {s \in reached : s >= seq}]

\* Every prepare at or beyond the quorum sends a commit (again), and every
\* one that finds a commit quorum executes (again), flag or no flag.
OnPrepare(n) ==
  LET m == Head(msgChan[n])
      prepares == Put(prepareMessages[n], m)
      commit == CommitOf(n, m)
      commits == Put(commitMessages[n], commit)
  IN
  /\ Takes(n, "Prepare")
  /\ \/ /\ ~ Prepared(n, prepares, m.sequence)
        /\ prepareMessages' = [prepareMessages EXCEPT ![n] = prepares]
        /\ UNCHANGED <<commitMessages, consensusReached, link, faults,
                       results, cast>>
     \/ /\ Prepared(n, prepares, m.sequence)
        /\ \E reached \in SUBSET Peers(n) : Broadcast(n, commit, reached)
        /\ \/ /\ ~ Committed(n, commits, m.sequence)
              /\ prepareMessages' = [prepareMessages EXCEPT ![n] = prepares]
              /\ commitMessages' = [commitMessages EXCEPT ![n] = commits]
              /\ UNCHANGED <<consensusReached, results>>
           \/ /\ Committed(n, commits, m.sequence)
              /\ Execute(n, m.sequence, m.data, prepares, commits,
                         consensusReached[n])

OnCommit(n) ==
  LET m == Head(msgChan[n])
      commits == Put(commitMessages[n], m)
  IN
  /\ Takes(n, "Commit")
  /\ UNCHANGED <<link, faults, cast>>
  /\ \/ /\ m.sequence \in consensusReached[n]
        /\ UNCHANGED <<prepareMessages, commitMessages, consensusReached,
                       results>>
     \/ /\ m.sequence \notin consensusReached[n]
        /\ ~ Committed(n, commits, m.sequence)
        /\ commitMessages' = [commitMessages EXCEPT ![n] = commits]
        /\ UNCHANGED <<prepareMessages, consensusReached, results>>
     \/ /\ m.sequence \notin consensusReached[n]
        /\ Committed(n, commits, m.sequence)
        /\ Execute(n, m.sequence, m.data, prepareMessages[n], commits,
                   consensusReached[n] \cup {m.sequence})

Receive(n) == \E i \in Nodes : Accept(i, n) \/ Reject(i, n)
Handle(n)  == IgnorePrePrepare(n) \/ OnPrePrepare(n) \/ OnPrepare(n) \/ OnCommit(n)

Next ==
  \/ \E n \in Nodes, v \in Values : ProposeValue(n, v)
  \/ \E n \in Nodes : CountOn(n) \/ Receive(n) \/ Handle(n) \/ Crash(n)
  \/ \E i, j \in Nodes : ConnectionBreaks(i, j) \/ Overtake(i, j)

Spec == Init /\ [][Next]_vars

\* The receiver reads every connection, the run goroutine empties msgChan, and
\* ProposeValue goes on: goroutines that nothing else holds up.
Fairness ==
  /\ \A n \in Nodes : WF_vars(Handle(n)) /\ WF_vars(CountOn(n))
  /\ \A i, n \in Nodes : WF_vars(Accept(i, n) \/ Reject(i, n))

FairSpec == Spec /\ Fairness
-----------------------------------------------------------------------------
(* Properties. *)

Casters(types, seq) ==
  {m.nodeID : m \in {x \in cast : x.type \in types /\ x.sequence = seq}}

Proposed(seq, v) ==
  \E m \in cast : m.type = "PrePrepare" /\ m.sequence = seq /\ m.data = v

Announced(v) == \E m \in cast : m.type = "PrePrepare" /\ m.data = v

\* Every variable has its type, and the vote maps are maps: one vote per
\* sequence number and node, whatever is re-sent or proposed again.
OneVotePerKey(map) ==
  \A x, y \in map : x.sequence = y.sequence /\ x.nodeID = y.nodeID => x = y

TypeOK ==
  /\ sequence \in [Nodes -> Nat]
  /\ view \in [Nodes -> Nat]
  /\ isLeader \in [Nodes -> BOOLEAN]
  /\ prepareMessages \in [Nodes -> SUBSET ConsensusMessage]
  /\ commitMessages \in [Nodes -> SUBSET ConsensusMessage]
  /\ \A n \in Nodes : /\ OneVotePerKey(prepareMessages[n])
                      /\ OneVotePerKey(commitMessages[n])
  /\ consensusReached \in [Nodes -> SUBSET Nat]
  /\ proposing \subseteq Nodes
  /\ msgChan \in [Nodes -> Seq(ConsensusMessage)]
  /\ link \in [Nodes \X Nodes -> Seq(ConsensusMessage)]
  /\ down \in SUBSET Nodes
  /\ results \in [Nodes -> Seq(Result)]
  /\ cast \in SUBSET ConsensusMessage
  /\ aborted \in SUBSET Nat
  /\ faults \in 0 .. MaxFaults

\* The callback is only ever given data that the leader proposed, and under
\* the sequence number it was proposed with: the data travels through the
\* prepare that completes a quorum, then through the commit that completes
\* one, and none of the three handlers looks at the original proposal.
Validity ==
  \A n \in Nodes : \A k \in DOMAIN results[n] :
    Proposed(results[n][k].sequence, results[n][k].data)

\* Two results of one sequence number carry the same data, at one node and
\* across nodes, as long as no pre-prepare of that number failed to go out:
\* the vote counts ignore the data, so this rests on the leader never using a
\* number twice, whatever the receiver does to p.sequence meanwhile.
AgreementUnlessAborted ==
  \A n, k \in Nodes : \A i \in DOMAIN results[n], j \in DOMAIN results[k] :
    /\ results[n][i].sequence = results[k][j].sequence
    /\ results[n][i].sequence \notin aborted
    => results[n][i].data = results[k][j].data

\* Agreement without the proviso, as oracle_node.go:220 has it.
Agreement ==
  \A n, k \in Nodes : \A i \in DOMAIN results[n], j \in DOMAIN results[k] :
    results[n][i].sequence = results[k][j].sequence
    => results[n][i].data = results[k][j].data

\* A node that delivers has 2f+1 different committers behind the sequence
\* number, on the path through handlePrepare, which counts its own commit
\* with those that came early, as on the path through handleCommit.
QuorumBehindResult ==
  \A n \in Nodes : \A k \in DOMAIN results[n] :
    Cardinality(Casters({"Commit"}, results[n][k].sequence)) >= 2 * F(n) + 1

\* A peer that commits has 2f+1 nodes behind the sequence number, the leader
\* with its pre-prepare and 2f with a prepare. The leader, which counts its
\* own pre-prepare among the 2f prepares, has one node less.
PrepareQuorumBehindCommit ==
  \A m \in cast : m.type = "Commit" =>
    Cardinality(Casters({"PrePrepare", "Prepare"}, m.sequence))
      >= 2 * F(m.nodeID) + (IF isLeader[m.nodeID] THEN 0 ELSE 1)

\* No vote runs ahead of the leader: a message carries a number below the
\* leader's next one, or that number itself before it is counted on or after
\* a failed broadcast. So the unlocked update of p.sequence in ProcessMessage
\* never moves the leader, not between the broadcast and p.sequence++ either,
\* and takes no other node past it.
LeaderAhead ==
  \A l \in Nodes : isLeader[l] =>
    /\ \A n \in Nodes : sequence[n] <= sequence[l]
    /\ \A m \in cast : /\ m.sequence <= sequence[l]
                       /\ m.sequence = sequence[l] =>
                            m.sequence \in aborted \/ l \in proposing

\* The engines keep the promise of OracleLog: the callers cannot tell them
\* from one log with a leader that numbers the entries. A number is taken
\* when its broadcast has succeeded.
LeaderSequence ==
  IF \E l \in Nodes : isLeader[l]
    THEN LET l == CHOOSE n \in Nodes : isLeader[n]
         IN IF l \in proposing THEN sequence[l] + 1 ELSE sequence[l]
    ELSE 0

Log == INSTANCE OracleLog WITH
  next <- LeaderSequence,
  proposals <- {[sequence |-> m.sequence, data |-> m.data] :
                  m \in {x \in cast : x.type = "PrePrepare"}},
  failed <- aborted,
  delivered <- results

ImplementsLog == Log!Spec

\* types.go:123, "Byzantine fault tolerance (n-1)/3": what the leader proposed
\* is delivered by every running node, in the end.
Delivered(v) == \A n \in Running : \E k \in DOMAIN results[n] : results[n][k].data = v

EveryProposalDecides ==
  \A v \in Values : Announced(v) ~> Delivered(v)

\* The newest proposal is delivered by every running node, in the end, however
\* many others are under way, unless a connection or a node fails: the window
\* and the raised numbers only ever cost older ones their votes.
Superseded(v) ==
  \E m, x \in cast : /\ m.type = "PrePrepare" /\ m.data = v
                    /\ x.type = "PrePrepare" /\ x.sequence > m.sequence

NewestProposalDecides ==
  \A v \in Values :
    Announced(v)
      ~> (Delivered(v) \/ Superseded(v) \/ faults > 0 \/ down # {})

\* README.md:34, the agreed response is stored: when nothing is on its way
\* and no broadcast failed, the leader has delivered what it proposed.
AtRest ==
  /\ \A p \in Nodes \X Nodes : link[p] = <<>>
  /\ \A n \in Nodes : msgChan[n] = <<>>
  /\ proposing = {}
  /\ Unproposed = {}

PipelineDecides ==
  AtRest /\ aborted = {} /\ faults = 0 /\ down = {} =>
    \A l \in Nodes, v \in Values : isLeader[l] =>
      \E k \in DOMAIN results[l] : results[l][k].data = v
===============================================================================
