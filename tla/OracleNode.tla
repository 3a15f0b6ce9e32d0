----------------------------- MODULE OracleNode -----------------------------
(***************************************************************************)
(* One oracle node, oracle/pkg/node/oracle_node.go: the request table and  *)
(* the two locks that guard it and the consensus engine, under the three   *)
(* kinds of goroutines that take them. A caller of ProcessPrompt takes     *)
(* n.mu, keeps it over the LLM call, then takes p.mu (in IsLeader and in   *)
(* ProposeValue). The receiver (handleMessages) takes n.mu for the table   *)
(* and queues the message for the engine. The engine's run goroutine takes *)
(* p.mu and, when a vote completes a quorum, runs handleConsensusResult,   *)
(* which takes n.mu.                                                       *)
(*                                                                         *)
(* Abstractions. The rest of the network is an environment that sends      *)
(* messages about what was proposed. The engine (see Pbft) only counts:    *)
(* the Quorum-th message about a proposal and every later one deliver it.  *)
(* A prompt is the call that brings it, a response text the call it answers *)
(* or Remote for the text another node proposes. A critical section that waits for nothing is one step.   *)
(* The clusters and the list of responses are left out: they decide        *)
(* nothing, the third fallback for the final text being unreachable.       *)
(***************************************************************************)
EXTENDS Naturals, Sequences, FiniteSets

CONSTANTS
  Calls,        \* calls of ProcessPrompt
  Requests,     \* request IDs
  RequestOf,    \* RequestOf[c]: the ID that call c passes
  Quorum,       \* messages about a proposal until the engine delivers it
  MsgChanCap,   \* capacity of the engine's msgChan
  Remote, NoText, Free, Run,
  Configs       \* the configurations of a node to look at: does it lead, has
                \* it storage and an LLM client, may the LLM, a broadcast, the
                \* storage and validation fail, which calls of ProcessPrompt
                \* are made, and (a bound) how many messages the others send
                \* about one proposal

ASSUME CallsAssumption ==
  /\ RequestOf \in [Calls -> Requests]
  /\ Configs \subseteq
       [leader : BOOLEAN, storage : BOOLEAN, llm : BOOLEAN, fails : BOOLEAN,
        calls : SUBSET Calls, messages : Nat]
  /\ {Remote, NoText} \cap Calls = {}
  /\ {Free, Run} \cap Calls = {} /\ Free # Run

ASSUME NumbersAssumption ==
  Quorum \in Nat \ {0} /\ MsgChanCap \in Nat \ {0}

VARIABLES
  config,     \* the configuration of this node, fixed
  requests,   \* request ID -> state, for the IDs in the table
  pc,         \* where each call of ProcessPrompt is
  nMu, pMu,   \* owners of n.mu and p.mu, or Free
  proposed,   \* what this node's ProposeValue broadcast
  receiver,   \* the message handleMessages is at, and where
  msgChan,    \* messages queued for the run goroutine
  votes,      \* votes[d]: messages about d that the engine handled
  running,    \* what the run goroutine is delivering, as a set
  stored,     \* records put on IPFS
  received    \* received[d]: messages about d so far

vars == <<config, requests, pc, nMu, pMu, proposed, receiver, msgChan, votes,
          running, stored, received>>

Texts   == Calls \cup {Remote, NoText}
Data    == [request : Requests, text : Texts]
Prompts == Calls \cup {NoText}
State   == [status : {"pending", "consensus", "failed", "complete"},
            prompt : Prompts, llm : Texts, agreed : Texts, cid : BOOLEAN]
Record  == [request : Requests, prompt : Prompts, text : Texts, agreed : Texts]

Known(r) == r \in DOMAIN requests
Set(r, s) == [x \in DOMAIN requests \cup {r} |-> IF x = r THEN s ELSE requests[x]]

NewState(status, prompt) ==
  [status |-> status, prompt |-> prompt, llm |-> NoText, agreed |-> NoText,
   cid |-> FALSE]

Init ==
  /\ config \in Configs
  /\ requests = [r \in {} |-> NewState("pending", NoText)]
  /\ pc = [c \in Calls |-> "called"]
  /\ nMu = Free /\ pMu = Free
  /\ proposed = {}
  /\ receiver = [at |-> "idle", data |-> {}]
  /\ msgChan = <<>>
  /\ votes = [d \in Data |-> 0]
  /\ running = {}
  /\ stored = <<>>
  /\ received = [d \in Data |-> 0]

-----------------------------------------------------------------------------
(* ProcessPrompt. *)

\* The table entry is made, over whatever was there.
Enter(c) ==
  /\ c \in config.calls
  /\ pc[c] = "called"
  /\ nMu = Free
  /\ nMu' = c
  /\ requests' = Set(RequestOf[c], NewState("pending", c))
  /\ pc' = [pc EXCEPT ![c] = "asking LLM"]
  /\ UNCHANGED <<config, pMu, proposed, receiver, msgChan, votes, running,
                 stored, received>>

\* Mutant of Return: an error path without the unlock.
ReturnLocked(c) ==
  /\ pc' = [pc EXCEPT ![c] = "returned"]
  /\ UNCHANGED nMu

Return(c) ==
  /\ pc' = [pc EXCEPT ![c] = "returned"]
  /\ nMu' = Free

AskLLM(c) ==
  LET r == RequestOf[c] IN
  /\ pc[c] = "asking LLM"
  /\ \/ /\ config.llm
        /\ requests' = [requests EXCEPT ![r].llm = c]
        /\ pc' = [pc EXCEPT ![c] = "asking role"]
        /\ UNCHANGED nMu
     \/ /\ config.llm /\ config.fails
        /\ requests' = [requests EXCEPT ![r].status = "failed"]
        /\ Return(c)
     \/ /\ ~ config.llm
        /\ pc' = [pc EXCEPT ![c] = "asking role"]
        /\ UNCHANGED <<requests, nMu>>
  /\ UNCHANGED <<config, pMu, proposed, receiver, msgChan, votes, running,
                 stored, received>>

\* IsLeader takes p.mu while the caller has n.mu.
AskRole(c) ==
  /\ pc[c] = "asking role"
  /\ pMu = Free
  /\ \/ /\ config.leader
        /\ pc' = [pc EXCEPT ![c] = "proposing"]
        /\ UNCHANGED nMu
     \/ /\ ~ config.leader
        /\ Return(c)
  /\ UNCHANGED <<config, requests, pMu, proposed, receiver, msgChan, votes,
                 running, stored, received>>

\* ProposeValue. A broadcast that fails has reached some peers, or none.
Propose(c) ==
  LET r == RequestOf[c]
      d == [request |-> r, text |-> requests[r].llm]
  IN
  /\ pc[c] = "proposing"
  /\ pMu = Free
  /\ \/ /\ proposed' = proposed \cup {d}
        /\ requests' = [requests EXCEPT ![r].status = "consensus"]
     \/ /\ config.fails
        /\ proposed' \in {proposed, proposed \cup {d}}
        /\ requests' = [requests EXCEPT ![r].status = "failed"]
  /\ Return(c)
  /\ UNCHANGED <<config, pMu, receiver, msgChan, votes, running, stored,
                 received>>

-----------------------------------------------------------------------------
(* handleMessages. *)

\* At the leader the others talk about what it proposed; elsewhere about
\* what the leader proposed, with or without a text of its own.
Topics ==
  IF config.leader
    THEN proposed
    ELSE [request : Requests, text : {IF config.llm THEN Remote ELSE NoText}]

Receive(d) ==
  /\ receiver.at = "idle"
  /\ d \in Topics
  /\ received[d] < config.messages
  /\ received' = [received EXCEPT ![d] = @ + 1]
  /\ receiver' = [at |-> "creating", data |-> {d}]
  /\ UNCHANGED <<config, requests, pc, nMu, pMu, proposed, msgChan, votes,
                 running, stored>>

\* Mutants of Heard: no entry is made; one is made whatever is there.
NotHeard(r)   == requests
HeardAnew(r)  == Set(r, NewState("consensus", NoText))

\* The table gets an entry for a request this node has not heard of.
Heard(r) == IF Known(r) THEN requests ELSE Set(r, NewState("consensus", NoText))

Create ==
  /\ receiver.at = "creating"
  /\ nMu = Free
  /\ \E d \in receiver.data : requests' = Heard(d.request)
  /\ receiver' = [receiver EXCEPT !.at = "processing"]
  /\ UNCHANGED <<config, pc, nMu, pMu, proposed, msgChan, votes, running,
                 stored, received>>

\* ProcessMessage takes no lock; it blocks when msgChan is full.
Process ==
  /\ receiver.at = "processing"
  /\ \/ /\ Len(msgChan) < MsgChanCap
        /\ \E d \in receiver.data : msgChan' = Append(msgChan, d)
     \/ /\ config.fails
        /\ UNCHANGED msgChan
  /\ receiver' = [at |-> "idle", data |-> {}]
  /\ UNCHANGED <<config, requests, pc, nMu, pMu, proposed, votes, running,
                 stored, received>>

-----------------------------------------------------------------------------
(* The run goroutine. *)

\* Mutant of Enough: one message more than the quorum.
MoreThanEnough(d) == votes[d] + 1 > Quorum

Enough(d) == votes[d] + 1 >= Quorum

\* A handler takes p.mu; it keeps it for the callback.
Handle ==
  LET d == Head(msgChan) IN
  /\ msgChan # <<>>
  /\ running = {}
  /\ pMu = Free
  /\ msgChan' = Tail(msgChan)
  /\ votes' = [votes EXCEPT ![d] = @ + 1]
  /\ IF Enough(d)
       THEN pMu' = Run /\ running' = {d}
       ELSE UNCHANGED <<pMu, running>>
  /\ UNCHANGED <<config, requests, pc, nMu, proposed, receiver, stored,
                 received>>

\* Mutant of FinalText: the first answer in the table, whose ever it is.
AnyText(r, d) ==
  LET answers == {requests[x].llm : x \in DOMAIN requests} \ {NoText}
  IN IF answers # {} THEN CHOOSE t \in answers : TRUE ELSE d.text

\* The text that goes on IPFS: this node's own answer if it has one.
FinalText(r, d) == IF requests[r].llm # NoText THEN requests[r].llm ELSE d.text

\* handleConsensusResult, then both locks are let go. Its early return for
\* a request that is not in the table is out of reach: ResultFindsRequest.
Deliver(d) ==
  LET r == d.request
      text == FinalText(r, d)
      done == [requests[r] EXCEPT !.status = "complete", !.agreed = d.text]
  IN
  /\ d \in running
  /\ nMu = Free
  /\ Known(r)
  /\ \/ /\ ~ config.storage \/ text = NoText \/ config.fails
        /\ requests' = Set(r, done)
        /\ UNCHANGED stored
     \/ /\ config.storage /\ text # NoText
        /\ requests' = Set(r, [done EXCEPT !.cid = TRUE])
        /\ stored' = Append(stored, [request |-> r, prompt |-> done.prompt,
                                     text |-> text, agreed |-> d.text])
  /\ running' = {}
  /\ pMu' = Free
  /\ UNCHANGED <<config, pc, nMu, proposed, receiver, msgChan, votes,
                 received>>

-----------------------------------------------------------------------------
ProcessPrompt(c) == Enter(c) \/ AskLLM(c) \/ AskRole(c) \/ Propose(c)
HandleMessages   == Create \/ Process
Engine           == Handle \/ \E d \in Data : Deliver(d)
Next ==
  \/ \E c \in Calls : ProcessPrompt(c)
  \/ HandleMessages
  \/ Engine
  \/ \E d \in Data : Receive(d)

Spec == Init /\ [][Next]_vars

\* Each goroutine goes on when it can, and the other nodes do send.
Fairness ==
  /\ \A c \in Calls : WF_vars(ProcessPrompt(c))
  /\ WF_vars(HandleMessages)
  /\ WF_vars(Engine)
  /\ \A d \in Data : WF_vars(Receive(d))

FairSpec == Spec /\ Fairness

-----------------------------------------------------------------------------
(* Properties. *)

\* The types, and who owns the locks: n.mu is with a call of ProcessPrompt
\* exactly from its entry to whichever of its returns it takes, p.mu with the
\* run goroutine exactly while it delivers.
TypeOK ==
  /\ DOMAIN requests \subseteq Requests
  /\ \A r \in DOMAIN requests : requests[r] \in State
  /\ pc \in [Calls -> {"called", "asking LLM", "asking role", "proposing", "returned"}]
  /\ nMu \in Calls \cup {Free}
  /\ \A c \in Calls : nMu = c <=> pc[c] \notin {"called", "returned"}
  /\ pMu = IF running = {} THEN Free ELSE Run
  /\ proposed \subseteq Data
  /\ receiver \in [at : {"idle", "creating", "processing"}, data : SUBSET Data]
  /\ msgChan \in Seq(Data)
  /\ \A d \in Data : votes[d] <= received[d] /\ received[d] <= config.messages
  /\ running \subseteq Data
  /\ stored \in Seq(Record)

\* oracle_node.go:166 "Request state not found" is never logged: a result is
\* delivered only for a request in the table, as the entry is made before
\* the message goes to the engine.
ResultFindsRequest == \A d \in running : Known(d.request)

\* A request ID that more than one call of ProcessPrompt passes, as two racing
\* handlers of cmd/server may (main.go:193).
Shared(r) ==
  \E c, d \in config.calls : c # d /\ RequestOf[c] = r /\ RequestOf[d] = r

\* oracle_node.go:224 "Get final response text - use leader's response if
\* available": the text put on IPFS is the text the nodes agreed on, or it is
\* this node's own answer to the prompt it is stored with, and that only at a
\* node that does not lead or under a shared ID, where the entry of a later
\* call has replaced the one that the result belongs to.
StoredIsAgreed ==
  \A k \in DOMAIN stored :
    \/ stored[k].text = stored[k].agreed
    \/ /\ stored[k].text = stored[k].prompt
       /\ config.leader => Shared(stored[k].request)

\* A request that consensus completed at the leader stays complete: nothing
\* that comes late, a vote, a second result, an error, takes it back, only
\* another call with its ID.
LeaderCompleteStays ==
  [][config.leader =>
       \A r \in DOMAIN requests :
         requests[r].status = "complete" /\ ~ Shared(r) =>
           requests'[r].status = "complete"]_vars

\* README.md:34, the final response is agreed on and stored: when nothing
\* fails, a call of ProcessPrompt at the leader ends with its request complete.
Completes ==
  config.leader /\ ~ config.fails =>
    \A c \in Calls :
      c \in config.calls =>
        <>[](Known(RequestOf[c]) /\ requests[RequestOf[c]].status = "complete")

\* The same for a call that is alone, with no message more than the quorums
\* need: no receiver, caller or run goroutine waits for ever.
CompletesAlone == Cardinality(config.calls) = 1 => Completes
=============================================================================
