------------------------------- MODULE Wiring -------------------------------
(***************************************************************************)
(* The two programs that put nodes together: oracle/cmd/server/main.go,    *)
(* one process that makes all nodes one step after the other, and          *)
(* scripts/run_node.go, one process per node, the first of which answers   *)
(* HTTP requests. What they set up in which order decides who leads, which *)
(* transport the engine broadcasts on, who hears it, and whom the engine   *)
(* gives results to. A node is made of the parts that the other modules    *)
(* model; here a proposal is one broadcast, a vote of each node that heard *)
(* it, and a result.                                                       *)
(*                                                                         *)
(* Abstractions. The handler of the server is PromptServer's: here its     *)
(* prompts only go through ProcessPrompt. Each node has the transport that *)
(* NewOracleNode makes ("own") and may be given another ("given"). What    *)
(* the engines do is more than the code allows: the window of sequence     *)
(* numbers, the locks, a peer that a failed broadcast did not reach and    *)
(* the vote that counts for one of two proposals with the same ID are      *)
(* Pbft's and OracleNode's. Votes and results may come and never must, so  *)
(* that only what cannot happen at all is concluded from them.             *)
(***************************************************************************)
EXTENDS Naturals, Sequences, FiniteSets, SequencesExt

CONSTANTS
  N,         \* nodes; the first is the leader that main has in mind
  Requests,  \* requests to the first node
  IDs,       \* the IDs that clients give to their requests
  Configs,   \* what to look at: the program, whether one address may be bound
             \* twice (on Linux it may not), and ports that are taken before:
             \* those of nodes, and 0 for the port that prompts come to
  None

ASSUME WiringAssumption ==
  /\ N \in Nat \ {0} /\ None \notin IDs
  /\ Configs \subseteq [program : {"server", "runner"}, shared : BOOLEAN,
                        taken : SUBSET (0..N)]

Nodes == 1..N
First == 1

VARIABLES
  config,     \* the configuration looked at, fixed
  pc,         \* pc[n]: the number of the step of main that is next for n
  members,    \* members[n]: what its engine was made with
  transport,  \* transport[n]: n.networkTransport
  manager,    \* manager[n]: the transport in the engine's NetworkManager
  peers,      \* peers[n][t]: who is registered with n's transport t
  listening,  \* listening[n]: the transport of n that has its port
  served,     \* who has the HTTP port: a process, or nobody yet
  callback,   \* callback[n]: whom the engine gives results to
  started,    \* nodes whose Start was called
  running,    \* nodes with a run goroutine
  receiving,  \* nodes with a handleMessages goroutine, on their transport
  down,       \* processes that ended: log.Fatal or os.Exit
  request,    \* each request: its handler and its ID
  status,     \* status[i]: Status of the entry for ID i
  proposed,   \* IDs of which a proposal went out
  voted       \* voted[i]: nodes whose votes for i's proposal the first node has

setup  == <<members, transport, manager, peers, callback>>
ports  == <<listening, served>>
life   == <<started, running, receiving, down>>
work   == <<request, status, proposed, voted>>
vars   == <<config, pc, setup, ports, life, work>>

Init ==
  /\ config \in Configs
  /\ pc = [n \in Nodes |-> 1]
  /\ members = [n \in Nodes |-> <<>>]
  /\ transport = [n \in Nodes |-> "own"]
  /\ manager = [n \in Nodes |-> "none"]
  /\ peers = [n \in Nodes |-> [t \in {"own", "given"} |-> {}]]
  /\ callback = [n \in Nodes |-> "none"]
  /\ listening = [n \in Nodes |-> "none"]
  /\ served = "no"
  /\ started = {} /\ running = {} /\ receiving = {} /\ down = {}
  /\ request = [r \in Requests |-> [at |-> "new", id |-> None]]
  /\ status = [i \in IDs |-> "none"]
  /\ proposed = {}
  /\ voted = [i \in IDs |-> {}]

-----------------------------------------------------------------------------
(* The steps of the two main functions. *)

ServerSteps == <<"init", "register">>
RunnerSteps == <<"init", "transport", "register", "result">>

Steps == IF config.program = "server" THEN ServerSteps ELSE RunnerSteps

\* The server does a step for each node before the next; the processes of the
\* runner do not wait for each other.
Turn(n, step) ==
  /\ pc[n] \in DOMAIN Steps /\ Steps[pc[n]] = step
  /\ n \notin down
  /\ config.program = "server" =>
       \A m \in Nodes : IF m < n THEN pc[m] > pc[n] ELSE pc[m] >= pc[n]

Done(n)     == pc' = [pc EXCEPT ![n] = @ + 1]
Prepared(n) == pc[n] > Len(Steps)

Others(n) == [k \in 1..(N - 1) |-> IF k < n THEN k ELSE k + 1]

\* Mutants of Members: the server's list is made as the runner's, the runner's
\* as the server's.
MembersOfOthers(n) == Others(n)
MembersOfAll(n)    == [m \in Nodes |-> m]

\* The server gives every node the list of all, the runner the list of the
\* others.
Members(n) ==
  IF config.program = "server" THEN [m \in Nodes |-> m] ELSE Others(n)

\* NewPBFT, NewNetworkManager with the transport that the node has now, and
\* handleConsensusResult as the callback.
InitConsensus(n) ==
  /\ Turn(n, "init")
  /\ members' = [members EXCEPT ![n] = Members(n)]
  /\ manager' = [manager EXCEPT ![n] = transport[n]]
  /\ callback' = [callback EXCEPT ![n] = "node"]
  /\ Done(n)
  /\ UNCHANGED <<config, transport, peers, ports, life, work>>

SetTransport(n) ==
  /\ Turn(n, "transport")
  /\ transport' = [transport EXCEPT ![n] = "given"]
  /\ Done(n)
  /\ UNCHANGED <<config, members, manager, peers, callback, ports, life, work>>

\* Mutant of Registered: peers are noted by the node only.
RegisteredNowhere(n) == peers

Registered(n) == [peers EXCEPT ![n][transport[n]] = Nodes \ {n}]

RegisterPeers(n) ==
  /\ Turn(n, "register")
  /\ peers' = Registered(n)
  /\ Done(n)
  /\ UNCHANGED <<config, members, transport, manager, callback, ports, life,
                 work>>

\* The runner's own callback, which only logs, takes the place of the node's.
SetResultCallback(n) ==
  /\ Turn(n, "result")
  /\ callback' = [callback EXCEPT ![n] = "runner"]
  /\ Done(n)
  /\ UNCHANGED <<config, members, transport, manager, peers, ports, life, work>>

\* The runner's HTTP port is the port of its first node, the server's is not.
Clash(n, other) ==
  config.program = "runner" /\ n = First /\ other /\ ~ config.shared

\* ListenAndServe: in the server when all nodes have started, in the runner in
\* a goroutine beside Start. It ends the process if it fails.
ServeHTTP ==
  /\ served = "no" /\ First \notin down
  /\ IF config.program = "server" THEN started = Nodes ELSE Prepared(First)
  /\ IF 0 \in config.taken \/ Clash(First, listening[First] # "none")
       THEN /\ down' = IF config.program = "server" THEN Nodes ELSE down \cup {First}
            /\ UNCHANGED served
       ELSE served' = "yes" /\ UNCHANGED down
  /\ UNCHANGED <<config, pc, setup, listening, started, running, receiving,
                 work>>

\* Mutant of Receivers: handleMessages starts though the listener failed.
ReceiversAnyway(n, ok) == receiving \cup {n}

Receivers(n, ok) == IF ok THEN receiving \cup {n} ELSE receiving

\* Start: the run goroutine, the listener, the receiver. If the listener fails
\* the server ends and the runner cancels the context, which ends the run
\* goroutine but not the process.
Start(n) ==
  /\ n \notin started \cup down
  /\ IF config.program = "server"
       THEN (\A m \in Nodes : Prepared(m)) /\ (1..(n - 1) \subseteq started)
       ELSE Prepared(n)
  /\ started' = started \cup {n}
  /\ LET ok == n \notin config.taken /\ ~ Clash(n, served = "yes") IN
     /\ listening' = IF ok THEN [listening EXCEPT ![n] = transport[n]] ELSE listening
     /\ running' = IF ok THEN running \cup {n} ELSE running
     /\ receiving' = Receivers(n, ok)
     /\ down' = IF ok \/ config.program = "runner" THEN down ELSE Nodes
  /\ UNCHANGED <<config, pc, setup, served, work>>

-----------------------------------------------------------------------------
(* Requests. *)

IsLeader(n) == members[n] # <<>> /\ members[n][1] = n
Up(n)       == n \notin down

\* A broadcast fails at a peer that does not listen.
Reaches(m) == Up(m) /\ listening[m] # "none"
Peers(n)      == peers[n][manager[n]]

Go(r, where) == request' = [request EXCEPT ![r].at = where]

\* The request comes in: it is read, with the ID that the client chose.
Accept(r) ==
  /\ request[r].at = "new"
  /\ served = "yes" /\ Up(First)
  /\ \E i \in IDs : request' = [request EXCEPT ![r] = [at |-> "read", id |-> i]]
  /\ UNCHANGED <<config, pc, setup, ports, life, status, proposed, voted>>

Refuse(r) ==
  /\ request[r].at = "new"
  /\ served = "yes" /\ Up(First)
  /\ Go(r, "refused")
  /\ UNCHANGED <<config, pc, setup, ports, life, status, proposed, voted>>

\* ProcessPrompt at the first node, under n.mu, with a new entry over whatever
\* was there. Only a leader proposes. A proposal that fails at one peer may
\* have reached others.
ProcessPrompt(r) ==
  LET i == request[r].id IN
  /\ request[r].at = "read"
  /\ Up(First)
  /\ \/ /\ Go(r, "error")
        /\ status' = [status EXCEPT ![i] = "failed"]
        /\ \/ UNCHANGED proposed
           \/ IsLeader(First) /\ proposed' = proposed \cup {i}
     \/ /\ ~ IsLeader(First)
        /\ Go(r, "polling")
        /\ status' = [status EXCEPT ![i] = "pending"]
        /\ UNCHANGED proposed
     \/ /\ IsLeader(First)
        /\ \A m \in Peers(First) : Reaches(m)
        /\ Go(r, "polling")
        /\ status' = [status EXCEPT ![i] = "consensus"]
        /\ proposed' = proposed \cup {i}
  /\ UNCHANGED <<config, pc, setup, ports, life, voted>>

\* Node n has the proposal, votes, and the first node hears it and counts it.
Vote(n, i) ==
  /\ n # First /\ n \notin voted[i]
  /\ i \in proposed
  /\ n \in Peers(First) /\ First \in Peers(n)
  /\ {n, First} \subseteq receiving \cap running
  /\ Up(n) /\ Up(First)
  /\ voted' = [voted EXCEPT ![i] = @ \cup {n}]
  /\ UNCHANGED <<config, pc, setup, ports, life, request, status, proposed>>

\* 2f+1 with its own; f is from the list that its engine was made with.
Quorum == 2 * ((Len(members[First]) - 1) \div 3) + 1

\* The engine's callback: the node's writes the entry, the runner's a log line.
Result(i) ==
  /\ voted[i] # {} /\ Cardinality(voted[i]) + 1 >= Quorum
  /\ Up(First) /\ First \in running
  /\ callback[First] = "node"
  /\ status[i] \notin {"none", "complete"}
  /\ status' = [status EXCEPT ![i] = "complete"]
  /\ UNCHANGED <<config, pc, setup, ports, life, request, proposed, voted>>

\* The handler of the runner looks at the entry every 100 ms.
Poll(r) ==
  /\ request[r].at = "polling"
  /\ config.program = "runner" /\ Up(First)
  /\ status[request[r].id] \in {"complete", "failed"}
  /\ Go(r, "answered")
  /\ UNCHANGED <<config, pc, setup, ports, life, status, proposed, voted>>

\* Mutant of GiveUp: there is no end to the polling.
PollOn(r) == FALSE /\ UNCHANGED vars

\* After 30 s, or when the client has gone.
GiveUp(r) ==
  /\ request[r].at = "polling"
  /\ config.program = "runner" /\ Up(First)
  /\ Go(r, "gave up")
  /\ UNCHANGED <<config, pc, setup, ports, life, status, proposed, voted>>

-----------------------------------------------------------------------------
Main(n) ==
  \/ InitConsensus(n) \/ SetTransport(n) \/ RegisterPeers(n)
  \/ SetResultCallback(n) \/ Start(n)
Handler(r) == ProcessPrompt(r) \/ Poll(r) \/ GiveUp(r)

Next ==
  \/ ServeHTTP
  \/ \E n \in Nodes : Main(n)
  \/ \E r \in Requests : Accept(r) \/ Refuse(r) \/ Handler(r)
  \/ \E n \in Nodes, i \in IDs : Vote(n, i)
  \/ \E i \in IDs : Result(i)

Spec == Init /\ [][Next]_vars

\* The handlers of the runner go on: without a leader there are no results, so
\* that n.mu is held for one call of the LLM only. Nobody has to ask, and in the
\* server a handler may wait for a lock for ever.
Fairness ==
  \A r \in Requests : WF_vars(config.program = "runner" /\ Handler(r))

FairSpec == Spec /\ Fairness

-----------------------------------------------------------------------------
(* Properties. *)

\* The variables have their types.
TypeOK ==
  /\ config \in Configs
  /\ pc \in [Nodes -> 1..Len(Steps) + 1]
  /\ members \in [Nodes -> Seq(Nodes)]
  /\ transport \in [Nodes -> {"own", "given"}]
  /\ manager \in [Nodes -> {"none", "own", "given"}]
  /\ peers \in [Nodes -> [{"own", "given"} -> SUBSET Nodes]]
  /\ callback \in [Nodes -> {"none", "node", "runner"}]
  /\ listening \in [Nodes -> {"none", "own", "given"}]
  /\ served \in {"no", "yes"}
  /\ receiving \subseteq running /\ running \subseteq started
  /\ started \subseteq Nodes /\ down \subseteq Nodes
  /\ \A r \in Requests :
       /\ request[r].at \in {"new", "refused", "read", "polling", "error",
                             "answered", "gave up"}
       /\ request[r].id \in IDs \cup {None}
       /\ request[r].at \in {"new", "refused"} <=> request[r].id = None
  /\ status \in [IDs -> {"none", "pending", "failed", "consensus", "complete"}]
  /\ proposed \subseteq IDs
  /\ voted \in [IDs -> SUBSET Nodes]

\* main.go:94-165: when the server takes prompts, one node leads and it is the
\* one that prompts are proposed at; the engines count with the same nodes,
\* and each broadcasts to all others on a transport they listen to.
ServerIsWired ==
  config.program = "server" /\ served = "yes" /\ down = {} =>
    /\ {n \in Nodes : IsLeader(n)} = {First}
    /\ \A n \in Nodes :
         /\ ToSet(members[n]) = Nodes
         /\ Peers(n) = Nodes \ {n}
         /\ listening[n] = manager[n] /\ n \in receiving
         /\ callback[n] = "node"

\* run_node.go:99-107, 169: each runner's engine is given the peers without the
\* node itself, so that no node is the first of its list: whatever is asked,
\* nothing is proposed and no request is completed, with any ID and in
\* whatever order the processes start.
RunnerCompletesNothing ==
  config.program = "runner" =>
    /\ \A n \in Nodes : ~ IsLeader(n)
    /\ proposed = {}
    /\ \A i \in IDs : status[i] # "complete"

\* run_node.go:263-312: the runner's handler ends, with whatever answer.
HandlerEnds ==
  \A r \in Requests :
    (request[r].at = "read" /\ config.program = "runner") ~>
      (request[r].at \in {"error", "answered", "gave up"} \/ First \in down)
=============================================================================
