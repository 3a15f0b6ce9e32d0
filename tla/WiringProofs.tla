---------------------------- MODULE WiringProofs ----------------------------
(***************************************************************************)
(* Proofs about Wiring, for any number of nodes, requests and IDs, and for *)
(* any configurations.                                                     *)
(*                                                                         *)
(* ServerIsWired speaks of the time when the server takes prompts; it is   *)
(* inductive with what each step of main has left behind for each node     *)
(* (Wired: which steps are done, and what is set since). Leaderless is the *)
(* same for the runner: each engine has the list of the others, so that no *)
(* node is the first of its own, and nothing is proposed.                  *)
(***************************************************************************)
EXTENDS Wiring, TLAPS

Request == [at : {"new", "refused", "read", "polling", "error", "answered",
                  "gave up"},
            id : IDs \cup {None}]

Types == TypeOK /\ request \in [Requests -> Request]

Everyone == [m \in Nodes |-> m]

\* What the server has set up for n, by the step that main is at.
Wired ==
  config.program = "server" =>
    /\ \A n \in Nodes :
         /\ transport[n] = "own"
         /\ pc[n] > 1 => /\ members[n] = Everyone
                         /\ manager[n] = "own"
                         /\ callback[n] = "node"
         /\ pc[n] > 2 => peers[n]["own"] = Nodes \ {n}
         /\ n \in started => pc[n] > 2
         /\ n \in started /\ down = {} => listening[n] = "own" /\ n \in receiving
    /\ served = "yes" => started = Nodes

Leaderless ==
  config.program = "runner" =>
    /\ \A n \in Nodes : members[n] = <<>> \/ members[n] = Others(n)
    /\ proposed = {}
    /\ \A i \in IDs : voted[i] = {} /\ status[i] \notin {"consensus", "complete"}

IInv == Types /\ Wired /\ Leaderless

-----------------------------------------------------------------------------
(* The operators. *)

LEMMA Basics ==
  /\ N \in Nat /\ 1 <= N /\ Nodes \subseteq Nat /\ First \in Nodes
  /\ \A n : n \in Nodes <=> n \in Nat /\ 1 <= n /\ n <= N
  BY WiringAssumption DEF Nodes, First

LEMMA EveryoneLemma ==
  /\ Everyone \in Seq(Nodes) /\ DOMAIN Everyone = Nodes
  /\ \A n \in Nodes : Everyone[n] = n
  BY Basics DEF Everyone, Nodes

LEMMA OthersLemma ==
  ASSUME NEW n \in Nodes
  PROVE  /\ Others(n) \in Seq(Nodes)
         /\ Others(n) # <<>> => Others(n)[1] # n
  <1>1. \A k \in 1..(N - 1) : (IF k < n THEN k ELSE k + 1) \in Nodes
    BY Basics
  <1>2. Others(n) \in [1..(N - 1) -> Nodes]
    BY <1>1 DEF Others
  <1>3. N - 1 \in Nat
    BY Basics
  <1>4. Others(n) \in Seq(Nodes)
    BY <1>2, <1>3
  <1>5. CASE N = 1
    BY <1>4, <1>5 DEF Others
  <1>6. CASE N # 1
    <2>1. 1 \in 1..(N - 1)
      BY <1>6, Basics
    <2>2. Others(n)[1] = IF 1 < n THEN 1 ELSE 2
      BY <2>1, Basics DEF Others
    <2> QED
      BY <1>4, <2>2, Basics
  <1> QED
    BY <1>5, <1>6

LEMMA StepsLemma ==
  ASSUME Types
  PROVE  /\ config \in Configs /\ config.program \in {"server", "runner"}
         /\ config.program = "server" => DOMAIN Steps = 1..2 /\ Len(Steps) = 2
              /\ Steps[1] = "init" /\ Steps[2] = "register"
         /\ config.program = "runner" => DOMAIN Steps = 1..4 /\ Len(Steps) = 4
         /\ Len(Steps) \in Nat
  <1>1. config \in Configs /\ config.program \in {"server", "runner"}
    BY WiringAssumption DEF Types, TypeOK
  <1> QED
    BY <1>1 DEF Steps, ServerSteps, RunnerSteps

LEMMA TurnLemma ==
  ASSUME Types, NEW n \in Nodes, NEW step, Turn(n, step), Done(n)
  PROVE  /\ pc[n] \in DOMAIN Steps /\ Steps[pc[n]] = step
         /\ pc'[n] = pc[n] + 1 /\ pc[n] \in Nat /\ 1 <= pc[n]
         /\ \A m \in Nodes \ {n} : pc'[m] = pc[m]
         /\ pc' \in [Nodes -> 1..Len(Steps) + 1]
  <1>1. pc[n] \in DOMAIN Steps /\ Steps[pc[n]] = step
    BY DEF Turn
  <1>2. DOMAIN Steps = 1..Len(Steps) /\ Len(Steps) \in Nat
    BY StepsLemma
  <1>3. pc[n] \in Nat /\ 1 <= pc[n] /\ pc[n] + 1 \in 1..Len(Steps) + 1
    BY <1>1, <1>2
  <1>4. pc \in [Nodes -> 1..Len(Steps) + 1] /\ pc' = [pc EXCEPT ![n] = pc[n] + 1]
    BY DEF Done, Types, TypeOK
  <1>5. pc' \in [Nodes -> 1..Len(Steps) + 1]
    BY <1>3, <1>4
  <1>6. pc'[n] = pc[n] + 1 /\ \A m \in Nodes \ {n} : pc'[m] = pc[m]
    BY <1>4
  <1> QED
    BY <1>1, <1>3, <1>5, <1>6

-----------------------------------------------------------------------------
(* Types. *)

LEMMA MainTypes ==
  ASSUME Types, NEW n \in Nodes,
         \/ InitConsensus(n) \/ SetTransport(n) \/ RegisterPeers(n)
         \/ SetResultCallback(n)
  PROVE  Types'
  <1>1. Steps' = Steps /\ config' = config
    BY DEF InitConsensus, SetTransport, RegisterPeers, SetResultCallback, Steps
  <1>2. pc' \in [Nodes -> 1..Len(Steps) + 1]
    BY TurnLemma DEF InitConsensus, SetTransport, RegisterPeers, SetResultCallback
  <1>3. pc' \in [Nodes -> 1..Len(Steps)' + 1]
    BY <1>1, <1>2
  <1>4. CASE InitConsensus(n)
    <2>1. Members(n) \in Seq(Nodes)
      BY EveryoneLemma, OthersLemma DEF Members, Everyone
    <2> QED
      BY <1>3, <1>4, <2>1 DEF InitConsensus, Types, TypeOK, ports, life, work
  <1>5. CASE SetTransport(n)
    BY <1>3, <1>5 DEF SetTransport, Types, TypeOK, ports, life, work
  <1>6. CASE RegisterPeers(n)
    <2>1. peers' \in [Nodes -> [{"own", "given"} -> SUBSET Nodes]]
      BY <1>6 DEF RegisterPeers, Registered, Types, TypeOK
    <2> QED
      BY <1>3, <1>6, <2>1 DEF RegisterPeers, Types, TypeOK, ports, life, work
  <1>7. CASE SetResultCallback(n)
    BY <1>3, <1>7 DEF SetResultCallback, Types, TypeOK, ports, life, work
  <1> QED
    BY <1>4, <1>5, <1>6, <1>7

LEMMA StartTypes ==
  ASSUME Types, NEW n \in Nodes, Start(n)
  PROVE  Types'
  <1>1. Steps' = Steps /\ Len(Steps)' = Len(Steps)
    BY DEF Start, Steps
  <1>2. listening' \in [Nodes -> {"none", "own", "given"}]
    BY DEF Start, Types, TypeOK
  <1>3. /\ receiving' \subseteq running' /\ running' \subseteq started'
        /\ started' \subseteq Nodes /\ down' \subseteq Nodes
    BY DEF Start, Receivers, Types, TypeOK
  <1> QED
    BY <1>1, <1>2, <1>3 DEF Start, Types, TypeOK, setup, work

\* The part of Types that is about request.
RequestsTyped ==
  /\ request \in [Requests -> Request]
  /\ \A r \in Requests :
       request[r].at \in {"new", "refused"} <=> request[r].id = None

\* A step of a handler that changes nothing but its request.
LEMMA TypesByRequests ==
  ASSUME Types, RequestsTyped', Steps' = Steps, Len(Steps)' = Len(Steps),
         UNCHANGED <<config, pc, setup, ports, life, status, proposed, voted>>
  PROVE  Types'
  BY DEF Types, TypeOK, Request, RequestsTyped, setup, ports, life

LEMMA RequestTypes ==
  ASSUME Types, NEW r \in Requests,
         Accept(r) \/ Refuse(r) \/ Handler(r)
  PROVE  Types'
  <1>1. Steps' = Steps /\ Len(Steps)' = Len(Steps)
    BY DEF Accept, Refuse, Handler, ProcessPrompt, Poll, GiveUp, Steps
  <1>2. request[r] \in Request /\ None \notin IDs
    BY WiringAssumption DEF Types
  <1>3. ASSUME NEW k \in Request, request' = [request EXCEPT ![r] = k],
               k.at \in {"new", "refused"} <=> k.id = None
        PROVE  RequestsTyped'
    BY <1>3 DEF Types, TypeOK, Request, RequestsTyped
  <1>4. CASE Accept(r)
    <2>1. PICK i \in IDs :
            request' = [request EXCEPT ![r] = [at |-> "read", id |-> i]]
      BY <1>4 DEF Accept
    <2>2. PICK k : k = [at |-> "read", id |-> i]
      OBVIOUS
    <2>3. /\ k \in Request /\ request' = [request EXCEPT ![r] = k]
          /\ k.at \in {"new", "refused"} <=> k.id = None
      BY <1>2, <2>1, <2>2 DEF Request
    <2>4. RequestsTyped'
      BY <1>3, <2>3
    <2> QED
      BY <1>1, <1>4, <2>4, TypesByRequests DEF Accept
  <1>5. ASSUME NEW where \in {"refused", "polling", "error", "answered", "gave up"},
               Go(r, where), where = "refused" <=> request[r].id = None
        PROVE  RequestsTyped'
    <2>1. PICK k : k = [request[r] EXCEPT !.at = where]
      OBVIOUS
    <2>2. /\ k \in Request /\ request' = [request EXCEPT ![r] = k]
          /\ k.at = where /\ k.id = request[r].id
      BY <1>2, <1>5, <2>1 DEF Request, Go
    <2> QED
      BY <1>3, <1>5, <2>2
  <1>6. request[r].at \in {"new", "refused"} <=> request[r].id = None
    BY DEF Types, TypeOK
  <1>7. CASE Refuse(r)
    <2>1. Go(r, "refused") /\ request[r].id = None
      BY <1>6, <1>7 DEF Refuse
    <2>2. RequestsTyped'
      BY <1>5, <2>1
    <2> QED
      BY <1>1, <1>7, <2>2, TypesByRequests DEF Refuse
  <1>8. CASE ProcessPrompt(r)
    <2>1. request[r].id \in IDs
      BY <1>2, <1>6, <1>8 DEF ProcessPrompt, Request
    <2>2. Go(r, "error") \/ Go(r, "polling")
      BY <1>8 DEF ProcessPrompt
    <2>3. /\ status' \in [IDs -> {"none", "pending", "failed", "consensus", "complete"}]
          /\ proposed' \subseteq IDs
      BY <1>8, <2>1 DEF ProcessPrompt, Types, TypeOK
    <2>4. request[r].id # None
      BY <1>2, <2>1
    <2>5. RequestsTyped'
      BY <1>5, <2>2, <2>4
    <2>6. UNCHANGED <<config, pc, setup, ports, life, voted>>
      BY <1>8 DEF ProcessPrompt
    <2> QED
      BY <1>1, <2>3, <2>5, <2>6
         DEF Types, TypeOK, Request, RequestsTyped, setup, ports, life
  <1>9. CASE Poll(r) \/ GiveUp(r)
    <2>1. Go(r, "answered") \/ Go(r, "gave up")
      BY <1>9 DEF Poll, GiveUp
    <2>2. request[r].id # None
      BY <1>6, <1>9 DEF Poll, GiveUp
    <2>3. RequestsTyped'
      BY <1>5, <2>1, <2>2
    <2> QED
      BY <1>1, <1>9, <2>3, TypesByRequests DEF Poll, GiveUp
  <1> QED
    BY <1>4, <1>7, <1>8, <1>9 DEF Handler

LEMMA OtherTypes ==
  ASSUME Types,
         \/ ServeHTTP
         \/ \E n \in Nodes, i \in IDs : Vote(n, i)
         \/ \E i \in IDs : Result(i)
         \/ UNCHANGED vars
  PROVE  Types'
  <1>1. Steps' = Steps /\ Len(Steps)' = Len(Steps)
    BY DEF ServeHTTP, Vote, Result, vars, Steps
  <1>2. CASE ServeHTTP
    <2>1. served' \in {"no", "yes"} /\ down' \subseteq Nodes
      <3>1. /\ served' \in {served, "yes"}
            /\ down' = down \/ down' = down \cup {First} \/ down' = Nodes
        BY <1>2 DEF ServeHTTP
      <3>2. served \in {"no", "yes"} /\ down \subseteq Nodes /\ First \in Nodes
        BY Basics DEF Types, TypeOK
      <3> QED
        BY <3>1, <3>2
    <2>2. UNCHANGED <<config, pc, setup, listening, started, running, receiving, work>>
      BY <1>2 DEF ServeHTTP
    <2> QED
      BY <1>1, <2>1, <2>2 DEF Types, TypeOK, setup, work
  <1>3. CASE \E n \in Nodes, i \in IDs : Vote(n, i)
    <2>1. /\ voted' \in [IDs -> SUBSET Nodes]
          /\ UNCHANGED <<config, pc, setup, ports, life, request, status, proposed>>
      <3>1. PICK n \in Nodes, i \in IDs : Vote(n, i)
        BY <1>3
      <3>2. voted' = [voted EXCEPT ![i] = voted[i] \cup {n}]
        BY <3>1 DEF Vote
      <3>3. voted' \in [IDs -> SUBSET Nodes]
        BY <3>2 DEF Types, TypeOK
      <3> QED
        BY <3>1, <3>3 DEF Vote
    <2> QED
      BY <1>1, <2>1 DEF Types, TypeOK, setup, ports, life
  <1>4. CASE \E i \in IDs : Result(i)
    <2>1. /\ status' \in [IDs -> {"none", "pending", "failed", "consensus", "complete"}]
          /\ UNCHANGED <<config, pc, setup, ports, life, request, proposed, voted>>
      BY <1>4 DEF Result, Types, TypeOK
    <2> QED
      BY <1>1, <2>1 DEF Types, TypeOK, setup, ports, life
  <1>5. CASE UNCHANGED vars
    BY <1>1, <1>5 DEF vars, Types, TypeOK, setup, ports, life, work
  <1> QED
    BY <1>2, <1>3, <1>4, <1>5

-----------------------------------------------------------------------------
(* What main has set up. *)

LEMMA MainWires ==
  ASSUME Types, Wired, NEW n \in Nodes,
         \/ InitConsensus(n) \/ SetTransport(n) \/ RegisterPeers(n)
         \/ SetResultCallback(n)
  PROVE  Wired'
  <1> SUFFICES ASSUME config'.program = "server" PROVE Wired'
    BY DEF Wired
  <1>1. config.program = "server"
    BY DEF InitConsensus, SetTransport, RegisterPeers, SetResultCallback
  <1>2. InitConsensus(n) \/ RegisterPeers(n)
    BY <1>1, StepsLemma DEF SetTransport, SetResultCallback, Turn
  <1>3. /\ UNCHANGED <<config, ports, life, transport>>
        /\ pc'[n] = pc[n] + 1 /\ pc[n] \in Nat
        /\ \A m \in Nodes \ {n} : pc'[m] = pc[m]
    BY <1>2, TurnLemma DEF InitConsensus, RegisterPeers
  <1>4. \A m \in Nodes : m \in started => pc'[m] > 2
    BY <1>1, <1>3 DEF Wired
  <1>5. /\ \A m \in Nodes : /\ transport'[m] = "own"
                            /\ m \in started' => pc'[m] > 2
                            /\ m \in started' /\ down' = {} =>
                                 listening'[m] = "own" /\ m \in receiving'
        /\ served' = "yes" => started' = Nodes
    BY <1>1, <1>3, <1>4 DEF Wired, ports, life
  <1>6. CASE InitConsensus(n)
    <2>1. pc[n] = 1
      BY <1>1, <1>6, TurnLemma, StepsLemma DEF InitConsensus
    <2>2. /\ members' = [members EXCEPT ![n] = Everyone]
          /\ manager' = [manager EXCEPT ![n] = "own"]
          /\ callback' = [callback EXCEPT ![n] = "node"]
          /\ peers' = peers
      BY <1>1, <1>6 DEF InitConsensus, Members, Everyone, Wired
    <2>3. \A m \in Nodes : pc'[m] > 1 => /\ members'[m] = Everyone
                                         /\ manager'[m] = "own"
                                         /\ callback'[m] = "node"
      <3>1. /\ members'[n] = Everyone /\ manager'[n] = "own" /\ callback'[n] = "node"
            /\ \A m \in Nodes \ {n} : /\ members'[m] = members[m]
                                       /\ manager'[m] = manager[m]
                                       /\ callback'[m] = callback[m]
        BY <2>2 DEF Types, TypeOK
      <3> QED
        BY <1>1, <1>3, <3>1 DEF Wired
    <2>4. \A m \in Nodes : pc'[m] > 2 => peers'[m]["own"] = Nodes \ {m}
      BY <1>1, <1>3, <2>1, <2>2 DEF Wired
    <2> QED
      BY <1>5, <2>3, <2>4 DEF Wired
  <1>7. CASE RegisterPeers(n)
    <2>1. pc[n] = 2
      BY <1>1, <1>7, TurnLemma, StepsLemma DEF RegisterPeers
    <2>2. /\ UNCHANGED <<members, manager, callback>>
          /\ peers' = [peers EXCEPT ![n]["own"] = Nodes \ {n}]
      BY <1>1, <1>7 DEF RegisterPeers, Registered, Wired
    <2>3. \A m \in Nodes : pc'[m] > 1 => /\ members'[m] = Everyone
                                         /\ manager'[m] = "own"
                                         /\ callback'[m] = "node"
      BY <1>1, <1>3, <2>1, <2>2 DEF Wired
    <2>4. \A m \in Nodes : pc'[m] > 2 => peers'[m]["own"] = Nodes \ {m}
      <3>1. /\ peers'[n]["own"] = Nodes \ {n}
            /\ \A m \in Nodes \ {n} : peers'[m] = peers[m]
        <4>1. PICK k : k = [peers[n] EXCEPT !["own"] = Nodes \ {n}]
          OBVIOUS
        <4>2. peers' = [peers EXCEPT ![n] = k]
          BY <2>2, <4>1
        <4>3. k["own"] = Nodes \ {n}
          <5>1. peers[n] \in [{"own", "given"} -> SUBSET Nodes]
            BY DEF Types, TypeOK
          <5> QED
            BY <4>1, <5>1
        <4> QED
          BY <4>2, <4>3 DEF Types, TypeOK
      <3> QED
        BY <1>1, <1>3, <3>1 DEF Wired
    <2> QED
      BY <1>5, <2>3, <2>4 DEF Wired
  <1> QED
    BY <1>2, <1>6, <1>7

LEMMA StartWires ==
  ASSUME Types, Wired, NEW n \in Nodes, Start(n)
  PROVE  Wired'
  <1> SUFFICES ASSUME config'.program = "server" PROVE Wired'
    BY DEF Wired
  <1>1. /\ config.program = "server" /\ UNCHANGED <<config, pc, setup, served>>
        /\ started' = started \cup {n} /\ n \notin started /\ n \notin down
    BY DEF Start
  <1>2. \A m \in Nodes : pc[m] > 2
    BY <1>1, StepsLemma DEF Start, Prepared
  <1>3. served' # "yes"
    BY <1>1 DEF Wired
  <1>4. \A m \in Nodes : m \in started' /\ down' = {} =>
                           listening'[m] = "own" /\ m \in receiving'
    <2> SUFFICES ASSUME NEW m \in Nodes, m \in started', down' = {}
                 PROVE  listening'[m] = "own" /\ m \in receiving'
      OBVIOUS
    <2>1. /\ down = {}
          /\ listening' = [listening EXCEPT ![n] = transport[n]]
          /\ receiving' = receiving \cup {n}
      BY <1>1, Basics DEF Start, Receivers
    <2>2. /\ listening'[n] = transport[n]
          /\ m # n => listening'[m] = listening[m]
      BY <2>1 DEF Types, TypeOK
    <2>3. transport[n] = "own"
      BY <1>1 DEF Wired
    <2>4. m # n => listening[m] = "own" /\ m \in receiving
      BY <1>1, <2>1 DEF Wired
    <2> QED
      BY <2>1, <2>2, <2>3, <2>4
  <1> QED
    BY <1>1, <1>2, <1>3, <1>4 DEF Wired, setup

LEMMA OtherWires ==
  ASSUME Types, Wired,
         \/ ServeHTTP
         \/ \E n \in Nodes, i \in IDs : Vote(n, i)
         \/ \E i \in IDs : Result(i)
         \/ \E r \in Requests : Accept(r) \/ Refuse(r) \/ Handler(r)
         \/ UNCHANGED vars
  PROVE  Wired'
  <1>1. CASE ServeHTTP
    <2>1. /\ UNCHANGED <<config, pc, setup, listening, started, running, receiving>>
          /\ served' = "yes" /\ config.program = "server" => started = Nodes
          /\ down' = {} => down = {}
      BY <1>1, Basics DEF ServeHTTP, Wired
    <2> QED
      BY <2>1 DEF Wired, setup
  <1>2. CASE ~ ServeHTTP
    <2>1. UNCHANGED <<config, pc, setup, ports, life>>
      BY <1>2 DEF Vote, Result, Accept, Refuse, Handler, ProcessPrompt, Poll, GiveUp,
                  vars
    <2> QED
      BY <2>1 DEF Wired, setup, ports, life
  <1> QED
    BY <1>1, <1>2

-----------------------------------------------------------------------------
(* The runner. *)

LEMMA MainLeaderless ==
  ASSUME Types, Leaderless, NEW n \in Nodes, Main(n)
  PROVE  Leaderless'
  <1> SUFFICES ASSUME config'.program = "runner" PROVE Leaderless'
    BY DEF Leaderless
  <1>1. config.program = "runner" /\ UNCHANGED <<config, work>>
    BY DEF Main, InitConsensus, SetTransport, RegisterPeers, SetResultCallback, Start
  <1>2. \A m \in Nodes : members'[m] = <<>> \/ members'[m] = Others(m)
    <2>1. CASE InitConsensus(n)
      <3>1. members' = [members EXCEPT ![n] = Others(n)]
        BY <1>1, <2>1 DEF InitConsensus, Members
      <3> QED
        BY <1>1, <3>1 DEF Leaderless, Types, TypeOK
    <2>2. CASE ~ InitConsensus(n)
      <3>1. members' = members
        BY <2>2 DEF Main, SetTransport, RegisterPeers, SetResultCallback, Start, setup
      <3> QED
        BY <1>1, <3>1 DEF Leaderless
    <2> QED
      BY <2>1, <2>2
  <1> QED
    BY <1>1, <1>2 DEF Leaderless, work

LEMMA NobodyLeads ==
  ASSUME Leaderless, config.program = "runner", NEW n \in Nodes
  PROVE  ~ IsLeader(n)
  BY OthersLemma DEF Leaderless, IsLeader

LEMMA OtherLeaderless ==
  ASSUME Types, Leaderless,
         \/ ServeHTTP
         \/ \E n \in Nodes, i \in IDs : Vote(n, i)
         \/ \E i \in IDs : Result(i)
         \/ \E r \in Requests : Accept(r) \/ Refuse(r) \/ Handler(r)
         \/ UNCHANGED vars
  PROVE  Leaderless'
  <1> SUFFICES ASSUME config'.program = "runner" PROVE Leaderless'
    BY DEF Leaderless
  <1>1. /\ config.program = "runner" /\ UNCHANGED <<config, setup>>
        /\ proposed = {} /\ \A i \in IDs : voted[i] = {}
    BY DEF ServeHTTP, Vote, Result, Accept, Refuse, Handler, ProcessPrompt, Poll,
           GiveUp, vars, Leaderless
  <1>2. ~ IsLeader(First)
    BY <1>1, NobodyLeads, Basics
  <1>3. CASE \E r \in Requests : ProcessPrompt(r)
    <2>1. PICK r \in Requests : ProcessPrompt(r)
      BY <1>3
    <2>2. PICK s \in {"failed", "pending"} :
            status' = [status EXCEPT ![request[r].id] = s]
      BY <1>2, <2>1 DEF ProcessPrompt
    <2>3. UNCHANGED <<proposed, voted>>
      BY <1>2, <2>1 DEF ProcessPrompt
    <2>4. \A i \in IDs : status'[i] \notin {"consensus", "complete"}
      BY <1>1, <2>2 DEF Leaderless, Types, TypeOK
    <2> QED
      BY <1>1, <2>3, <2>4 DEF Leaderless, setup
  <1>4. CASE ~ \E r \in Requests : ProcessPrompt(r)
    <2>1. UNCHANGED <<status, proposed, voted>>
      BY <1>1, <1>4 DEF ServeHTTP, Vote, Result, Accept, Refuse, Handler, Poll, GiveUp,
                        vars, work
    <2> QED
      BY <1>1, <2>1 DEF Leaderless, setup
  <1> QED
    BY <1>3, <1>4

-----------------------------------------------------------------------------
(* The invariant. *)

LEMMA InitSafe ==
  ASSUME Init
  PROVE  IInv
  <1>1. PICK k : k = [at |-> "new", id |-> None]
    OBVIOUS
  <1>2. k \in Request /\ k.at = "new" /\ k.id = None
    BY <1>1 DEF Request
  <1>3. /\ request \in [Requests -> Request]
        /\ \A r \in Requests : request[r] = k
    BY <1>1, <1>2 DEF Init
  <1>4. config \in Configs /\ config.program \in {"server", "runner"}
    BY WiringAssumption DEF Init
  <1>5. Len(Steps) \in Nat
    BY <1>4 DEF Steps, ServerSteps, RunnerSteps
  <1>6. pc \in [Nodes -> 1..Len(Steps) + 1] /\ \A n \in Nodes : pc[n] = 1
    BY <1>5 DEF Init
  <1>7. /\ members \in [Nodes -> Seq(Nodes)]
        /\ peers \in [Nodes -> [{"own", "given"} -> SUBSET Nodes]]
    BY DEF Init
  <1>8. Types
    BY <1>2, <1>3, <1>4, <1>6, <1>7 DEF Types, TypeOK, Init
  <1>9. Wired /\ Leaderless
    BY <1>6 DEF Wired, Leaderless, Init
  <1> QED
    BY <1>8, <1>9 DEF IInv

LEMMA StepSafe ==
  ASSUME IInv, [Next]_vars
  PROVE  IInv'
  <1>1. CASE \E n \in Nodes : Main(n)
    <2>1. PICK n \in Nodes : Main(n)
      BY <1>1
    <2>2. Types' /\ Wired'
      BY <2>1, MainTypes, StartTypes, MainWires, StartWires DEF Main, IInv
    <2> QED
      BY <2>1, <2>2, MainLeaderless DEF IInv
  <1>2. CASE \E r \in Requests : Accept(r) \/ Refuse(r) \/ Handler(r)
    BY <1>2, RequestTypes, OtherWires, OtherLeaderless DEF IInv
  <1>3. CASE \/ ServeHTTP
             \/ \E n \in Nodes, i \in IDs : Vote(n, i)
             \/ \E i \in IDs : Result(i)
             \/ UNCHANGED vars
    BY <1>3, OtherTypes, OtherWires, OtherLeaderless DEF IInv
  <1> QED
    BY <1>1, <1>2, <1>3 DEF Next

\* main.go:94-165, run_node.go:99-330: what each step of main leaves behind.
THEOREM Invariance == Spec => []IInv
  BY InitSafe, StepSafe, PTL DEF Spec

\* The types of the variables.
THEOREM TypeCorrect == Spec => []TypeOK
  <1>1. IInv => TypeOK
    BY DEF IInv, Types
  <1> QED
    BY <1>1, Invariance, PTL

\* main.go:94-165: a server that takes prompts has one leader, the node that
\* it proposes at, and every engine broadcasts on a transport that all others
\* listen to, for any number of nodes.
THEOREM ServersAreWired == Spec => []ServerIsWired
  <1>1. IInv => ServerIsWired
    <2> SUFFICES ASSUME IInv, config.program = "server", served = "yes", down = {}
                 PROVE  /\ {n \in Nodes : IsLeader(n)} = {First}
                        /\ \A n \in Nodes :
                             /\ ToSet(members[n]) = Nodes
                             /\ Peers(n) = Nodes \ {n}
                             /\ listening[n] = manager[n] /\ n \in receiving
                             /\ callback[n] = "node"
      BY DEF ServerIsWired
    <2>1. \A n \in Nodes : n \in started /\ pc[n] > 2 /\ pc[n] > 1
      <3>1. \A n \in Nodes : n \in started /\ pc[n] > 2
        BY DEF IInv, Wired
      <3>2. \A n \in Nodes : pc[n] \in 1..Len(Steps) + 1
        BY DEF IInv, Types, TypeOK
      <3>3. Len(Steps) \in Nat
        BY StepsLemma DEF IInv
      <3> QED
        BY <3>1, <3>2, <3>3
    <2>2. \A n \in Nodes :
            /\ members[n] = Everyone /\ Peers(n) = Nodes \ {n}
            /\ listening[n] = manager[n] /\ n \in receiving
            /\ callback[n] = "node"
      BY <2>1 DEF IInv, Wired, Peers
    <2>3. ToSet(Everyone) = Nodes
      BY EveryoneLemma DEF ToSet
    <2>4. \A n \in Nodes : IsLeader(n) <=> n = First
      <3>1. Everyone # <<>> /\ Everyone[1] = First
        BY EveryoneLemma, Basics DEF First
      <3> QED
        BY <2>2, <3>1 DEF IsLeader
    <2> QED
      BY <2>2, <2>3, <2>4, Basics
  <1> QED
    BY <1>1, Invariance, PTL

\* run_node.go:99-107, 169: in a network of any number of runners nobody leads,
\* nothing is proposed and no request is ever completed.
THEOREM RunnersCompleteNothing == Spec => []RunnerCompletesNothing
  <1>1. IInv => RunnerCompletesNothing
    BY NobodyLeads DEF IInv, Leaderless, RunnerCompletesNothing
  <1> QED
    BY <1>1, Invariance, PTL
=============================================================================
