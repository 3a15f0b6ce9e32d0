---------------------------- MODULE PromptServer ----------------------------
(***************************************************************************)
(* The prompt server, oracle/cmd/server/main.go: one process with all the  *)
(* oracle nodes, whose handlePrompt runs once per HTTP request, any number *)
(* at a time. A handler numbers its request, wraps the message callback of *)
(* every node so that it also feeds a channel of its own, starts a         *)
(* collector that reads the channel until it has been silent for 12 s,     *)
(* submits the prompt to one node after the other, waits for the           *)
(* collector, and answers with the CID in the leader's request table.      *)
(*                                                                         *)
(* Abstractions. Of a node (see OracleNode) there are the two locks, the   *)
(* receiver, the run goroutine and, of the leader, the request table: no   *)
(* other node stores anything. n.mu is held by a handler inside            *)
(* ProcessPrompt, by handleConsensusResult, and for reading by a receiver  *)
(* inside the callback; p.mu by the run goroutine in its result callback.  *)
(* The engines (see Pbft) deliver with the Quorum-th message about a       *)
(* proposal and every later one. What a handler only prints is left out.   *)
(***************************************************************************)
EXTENDS Naturals, Sequences, FiniteSets, Functions

CONSTANTS
  Prompts,    \* HTTP requests
  N,          \* nodes
  ChanCap,    \* capacity of a handler's channel (1000 in the code)
  Quorum,     \* messages about a proposal until a node's engine delivers it
  Configs,    \* what to look at: how many of the N nodes there are, may handlers
              \* run at the same time, may calls fail, and (a bound) messages
              \* about one proposal
  Heard, None

\* What a handler answers that is not the CID of a prompt's record.
Answers == {"none", "refused", "failed", "torn", "empty"}

ASSUME ServerAssumption ==
  /\ N \in Nat \ {0} /\ ChanCap \in Nat \ {0}
  /\ Quorum \in Nat \ {0}
  /\ Configs \subseteq
       [nodes : 1..N, overlap : BOOLEAN, fails : BOOLEAN, messages : Nat]
  /\ {Heard, None} \cap Prompts = {} /\ Heard # None
  /\ Answers \cap Prompts = {}
  /\ IsFiniteSet(Prompts)

VARIABLES
  config,    \* the configuration looked at, fixed
  handler,   \* each handler: where it is, the node its loop is at, what it
             \* read (requestCounter, later the leader's entry), origCallback,
             \* its requestID, and what it answered
  counter,   \* requestCounter
  callback,  \* callback[n]: whose channels node n's callback feeds, in order
  chan,      \* messages in each handler's channel
  collector, \* the state of each handler's collector
  entry,     \* entry[i]: which call of ProcessPrompt made the leader's entry i
  cid,       \* cid[p]: IPFSCID in the entry that p's call made
  proposed,  \* prompts that went into a proposal
  receiver,  \* receiver[n]: the message node n's handleMessages is at
  got,       \* got[p]: messages about p's proposal that the nodes received
  queue,     \* queue[n][p]: those in the engine's msgChan
  votes,     \* votes[n][p]: those the engine has handled
  engine,    \* engine[n]: what the run goroutine is delivering
  raced      \* history: what two handlers have been in at the same time

\* The first node leads and has storage.
Nodes    == 1..N
Leader   == 1

channels == <<callback, chan, collector>>
table    == <<entry, cid>>
nodes    == <<receiver, got, queue, votes, engine, config>>
vars     == <<handler, counter, channels, table, proposed, nodes, raced>>

Idle    == [at |-> "idle", prompt |-> None, rest |-> <<>>]
NoCount == [n \in Nodes |-> [p \in Prompts |-> 0]]
IDs     == 0..Cardinality(Prompts)

Init ==
  /\ config \in Configs
  /\ handler = [p \in Prompts |-> [at |-> "new", node |-> 1, read |-> 0,
                                   orig |-> <<>>, id |-> 0, answer |-> "none"]]
  /\ counter = 0
  /\ callback = [n \in Nodes |-> <<>>]
  /\ chan = [p \in Prompts |-> 0]
  /\ collector = [p \in Prompts |-> "none"]
  /\ entry = [i \in IDs |-> None]
  /\ cid = [p \in Prompts |-> "none"]
  /\ proposed = {}
  /\ receiver = [n \in Nodes |-> Idle]
  /\ got = [p \in Prompts |-> 0]
  /\ queue = NoCount /\ votes = NoCount
  /\ engine = [n \in Nodes |-> [at |-> "idle", prompt |-> None]]
  /\ raced = {}

-----------------------------------------------------------------------------
(* The locks of node n. *)

At(p, where)      == handler[p].at = where
AtNode(p, s, n)   == handler[p].at \in s /\ handler[p].node = n

WriteLocked(n) ==
  \/ \E p \in Prompts : AtNode(p, {"asking role"}, n)
  \/ engine[n].at = "storing"

ReadLocked(n) == receiver[n].at = "calling"

CanWrite(n) == ~ WriteLocked(n) /\ ~ ReadLocked(n)

CanRead(n) == ~ WriteLocked(n)

\* A sync.RWMutex lets no reader in while a writer waits for another reader.
\* Who is at a Lock may not have called it yet: a reader that finds it there may
\* come first, and need not.
WriterWaits(n) ==
  \/ \E p \in Prompts : AtNode(p, {"setting", "submitting"}, n)
  \/ engine[n].at = "delivering"

MayBeHeldUp(p) ==
  LET n == handler[p].node IN
  /\ AtNode(p, {"getting", "looking", "checking", "finding"}, n)
  /\ ReadLocked(n) /\ WriterWaits(n)

EngineLocked(n) == engine[n].at # "idle"

-----------------------------------------------------------------------------
(* handlePrompt. *)

Go(p, where) == handler' = [handler EXCEPT ![p].at = where]

Answer(p, a) ==
  handler' = [handler EXCEPT ![p].at = "answered", ![p].answer = a]

\* What two handlers are in at once: in(q) says whether q is in it.
Race(what, in(_)) ==
  raced' = IF \E q \in Prompts : in(q) THEN raced \cup {what} ELSE raced

\* A loop over the nodes: the body ends at the handler's node.
NextNode(h, again, after) ==
  IF h.node = config.nodes
    THEN [h EXCEPT !.node = 1, !.at = after]
    ELSE [h EXCEPT !.node = @ + 1, !.at = again]

\* Not a POST, or no JSON in the body.
Refuse(p) ==
  /\ At(p, "new")
  /\ Answer(p, "refused")
  /\ UNCHANGED <<counter, channels, table, proposed, nodes, raced>>

\* requestCounter++ is a read and a write, and the ID is another read.
ReadCounter(p) ==
  /\ At(p, "new")
  /\ config.overlap \/ \A q \in Prompts : handler[q].at \in {"new", "answered"}
  /\ handler' = [handler EXCEPT ![p].at = "counting", ![p].read = counter]
  /\ Race("counter", LAMBDA q : handler[q].at \in {"counting", "naming"})
  /\ UNCHANGED <<counter, channels, table, proposed, nodes>>

\* Mutant of Incremented: the request is numbered before it is counted.
NotIncremented(p) == handler[p].read

Incremented(p) == handler[p].read + 1

WriteCounter(p) ==
  /\ At(p, "counting")
  /\ counter' = Incremented(p)
  /\ Go(p, "naming")
  /\ UNCHANGED <<channels, table, proposed, nodes, raced>>

NameRequest(p) ==
  /\ At(p, "naming")
  /\ handler' = [handler EXCEPT ![p].at = "getting", ![p].id = counter]
  /\ UNCHANGED <<counter, channels, table, proposed, nodes, raced>>

\* GetMessageCallback.
GetCallback(p) ==
  LET n == handler[p].node IN
  /\ At(p, "getting")
  /\ CanRead(n)
  /\ handler' = [handler EXCEPT ![p].at = "setting", ![p].orig = callback[n]]
  /\ Race("callback", LAMBDA q : AtNode(q, {"setting"}, n))
  /\ UNCHANGED <<counter, channels, table, proposed, nodes>>

\* Mutant of Wrapped: the callback that was there is forgotten.
OwnOnly(p) == <<p>>

Wrapped(p) == Append(handler[p].orig, p)

\* SetMessageCallback; after the last node the collector starts.
SetCallback(p) ==
  LET n == handler[p].node IN
  /\ At(p, "setting")
  /\ CanWrite(n)
  /\ callback' = [callback EXCEPT ![n] = Wrapped(p)]
  /\ handler' = [handler EXCEPT ![p] =
                   NextNode([@ EXCEPT !.orig = <<>>], "getting", "submitting")]
  /\ collector' =
       [collector EXCEPT ![p] = IF n = config.nodes THEN "reading" ELSE "none"]
  /\ UNCHANGED <<counter, chan, table, proposed, nodes, raced>>

\* ProcessPrompt takes n.mu, makes a new entry over whatever was there and
\* asks the LLM. An error of ProcessPrompt is the handler's: the nodes that
\* come after are not asked, and its wraps stay.
Submit(p) ==
  LET h == handler[p] IN
  /\ At(p, "submitting")
  /\ CanWrite(h.node)
  /\ entry' = IF h.node = Leader THEN [entry EXCEPT ![h.id] = p] ELSE entry
  /\ Go(p, "asking role") \/ (config.fails /\ Answer(p, "failed"))
  /\ UNCHANGED <<counter, channels, cid, proposed, nodes, raced>>

\* IsLeader, and at the leader ProposeValue, which may fail when some peers
\* have the proposal. Both take p.mu while the handler has n.mu.
AskRole(p) ==
  LET n == handler[p].node IN
  /\ At(p, "asking role")
  /\ ~ EngineLocked(n)
  /\ \/ /\ n # Leader
        /\ Go(p, "looking")
        /\ UNCHANGED proposed
     \/ /\ n = Leader
        /\ Go(p, "looking")
        /\ proposed' = proposed \cup {p}
     \/ /\ n = Leader /\ config.fails
        /\ Answer(p, "failed")
        /\ proposed' \in {proposed, proposed \cup {p}}
  /\ UNCHANGED <<counter, channels, table, nodes, raced>>

\* GetRequestState, two seconds later, for the initial responses.
Look(p) ==
  /\ At(p, "looking")
  /\ CanRead(handler[p].node)
  /\ handler' = [handler EXCEPT ![p] = NextNode(@, "submitting", "waiting")]
  /\ UNCHANGED <<counter, channels, table, proposed, nodes, raced>>

\* <-done.
AwaitCollector(p) ==
  /\ At(p, "waiting")
  /\ collector[p] = "done"
  /\ Go(p, "checking")
  /\ UNCHANGED <<counter, channels, table, proposed, nodes, raced>>

\* GetRequestState at each node, for what it prints of the result.
Check(p) ==
  /\ At(p, "checking")
  /\ CanRead(handler[p].node)
  /\ handler' = [handler EXCEPT ![p] = NextNode(@, "checking", "finding")]
  /\ UNCHANGED <<counter, channels, table, proposed, nodes, raced>>

\* GetRequestState at the leader: a pointer to the entry.
FindEntry(p) ==
  /\ At(p, "finding")
  /\ CanRead(Leader)
  /\ handler' = [handler EXCEPT ![p].at = "answering",
                                ![p].read = entry[handler[p].id]]
  /\ UNCHANGED <<counter, channels, table, proposed, nodes, raced>>

\* The CID is read from the entry without a lock, while handleConsensusResult
\* may be writing the two words of it: then it reads as empty or torn.
SendAnswer(p) ==
  LET found == {handler[p].read} \cap Prompts IN
  /\ At(p, "answering")
  /\ \/ \E e \in found : cid[e] = "stored" /\ Answer(p, e)
     \/ \E e \in found : cid[e] = "half" /\ Answer(p, "torn")
     \/ (\A e \in found : cid[e] # "stored") /\ Answer(p, "empty")
  /\ UNCHANGED <<counter, channels, table, proposed, nodes, raced>>

-----------------------------------------------------------------------------
(* The collector. *)

Collect(p) ==
  /\ collector[p] = "reading"
  /\ chan[p] > 0
  /\ chan' = [chan EXCEPT ![p] = @ - 1]
  /\ UNCHANGED <<handler, counter, callback, collector, table, proposed, nodes,
                 raced>>

\* Mutant of TimeOut: the collector waits for the channel to be closed.
NoTimeOut(p) == FALSE /\ UNCHANGED vars

\* 12 s without a message. The channel is never closed.
TimeOut(p) ==
  /\ collector[p] = "reading"
  /\ chan[p] = 0
  /\ collector' = [collector EXCEPT ![p] = "done"]
  /\ UNCHANGED <<handler, counter, callback, chan, table, proposed, nodes, raced>>

-----------------------------------------------------------------------------
(* handleMessages and the engine of node n. *)

Step(n, step) == receiver' = [receiver EXCEPT ![n] = step]

\* A message about a proposal, from the network: n.mu is read-locked.
Receive(n, p) ==
  /\ n <= config.nodes /\ p \in proposed
  /\ receiver[n].at = "idle"
  /\ got[p] < config.messages
  /\ ~ WriteLocked(n)
  /\ got' = [got EXCEPT ![p] = @ + 1]
  /\ Step(n, [at |-> "calling", prompt |-> p, rest |-> callback[n]])
  /\ UNCHANGED <<handler, counter, channels, table, proposed, queue, votes,
                 engine, config, raced>>

\* Mutant of HasRoom: a full channel is written to.
Unbounded(p) == TRUE

HasRoom(p) == chan[p] < ChanCap

\* The callback puts the message into one channel after the other and blocks
\* at one that is full.
CallBack(n) ==
  LET rest == receiver[n].rest IN
  /\ receiver[n].at = "calling"
  /\ \/ /\ rest # <<>>
        /\ HasRoom(Head(rest))
        /\ chan' = [chan EXCEPT ![Head(rest)] = @ + 1]
        /\ Step(n, [receiver[n] EXCEPT !.rest = Tail(@)])
     \/ /\ rest = <<>>
        /\ Step(n, [receiver[n] EXCEPT !.at = "processing"])
        /\ UNCHANGED chan
  /\ UNCHANGED <<handler, counter, callback, collector, table, proposed, got,
                 queue, votes, engine, config, raced>>

Known(i) == entry[i] # None

\* n.mu: the table gets an entry if there is none. Then ProcessMessage queues
\* the message for the engine, or refuses it.
Process(n) ==
  LET p == receiver[n].prompt
      i == handler[p].id
  IN
  /\ receiver[n].at = "processing"
  /\ CanWrite(n)
  /\ entry' = IF n = Leader /\ ~ Known(i)
                THEN [entry EXCEPT ![i] = Heard]
                ELSE entry
  /\ \/ queue' = [queue EXCEPT ![n][p] = @ + 1]
     \/ config.fails /\ UNCHANGED queue
  /\ Step(n, Idle)
  /\ UNCHANGED <<handler, counter, channels, cid, proposed, got, votes, engine,
                 config, raced>>

\* A vote handler; it has p.mu, and keeps it to deliver.
Handle(n, p) ==
  /\ engine[n].at = "idle"
  /\ queue[n][p] > 0
  /\ queue' = [queue EXCEPT ![n][p] = @ - 1]
  /\ votes' = [votes EXCEPT ![n][p] = @ + 1]
  /\ engine' = IF votes[n][p] + 1 >= Quorum
                 THEN [engine EXCEPT ![n] = [at |-> "delivering", prompt |-> p]]
                 ELSE engine
  /\ UNCHANGED <<handler, counter, channels, table, proposed, receiver, got,
                 config, raced>>

Unlock(n) == engine' = [engine EXCEPT ![n] = [at |-> "idle", prompt |-> None]]

\* handleConsensusResult takes n.mu; the leader puts a record on IPFS for the
\* prompt in the entry that is there now, and writes its CID.
Deliver(n) ==
  LET e == entry[handler[engine[n].prompt].id] IN
  /\ engine[n].at = "delivering"
  /\ CanWrite(n)
  /\ \/ /\ n # Leader \/ config.fails
        /\ Unlock(n)
        /\ UNCHANGED cid
     \/ /\ n = Leader /\ e \in Prompts
        /\ engine' = [engine EXCEPT ![n] = [at |-> "storing", prompt |-> e]]
        /\ cid' = IF cid[e] = "none" THEN [cid EXCEPT ![e] = "half"] ELSE cid
  /\ UNCHANGED <<handler, counter, channels, entry, proposed, receiver, got,
                 queue, votes, config, raced>>

Store(n) ==
  /\ engine[n].at = "storing"
  /\ cid' = [cid EXCEPT ![engine[n].prompt] = "stored"]
  /\ Unlock(n)
  /\ UNCHANGED <<handler, counter, channels, entry, proposed, receiver, got,
                 queue, votes, config, raced>>

-----------------------------------------------------------------------------
HandlePrompt(p) ==
  \/ WriteCounter(p) \/ NameRequest(p) \/ GetCallback(p) \/ SetCallback(p)
  \/ Submit(p) \/ AskRole(p) \/ Look(p)
  \/ AwaitCollector(p) \/ Check(p) \/ FindEntry(p) \/ SendAnswer(p)
Collector(p)      == Collect(p) \/ TimeOut(p)
HandleMessages(n) == CallBack(n) \/ Process(n)
Engine(n)         == (\E p \in Prompts : Handle(n, p)) \/ Deliver(n) \/ Store(n)

Next ==
  \/ \E p \in Prompts : Refuse(p) \/ ReadCounter(p)
  \/ \E p \in Prompts : HandlePrompt(p) \/ Collector(p)
  \/ \E n \in Nodes : HandleMessages(n) \/ Engine(n)
  \/ \E n \in Nodes, p \in Prompts : Receive(n, p)

Spec == Init /\ [][Next]_vars

\* Goroutines go on when they can, LLM and IPFS calls return. Nobody has to
\* send a prompt or a message.
Fairness ==
  /\ \A p \in Prompts : WF_vars(~ MayBeHeldUp(p) /\ HandlePrompt(p))
  /\ \A p \in Prompts : WF_vars(Collector(p))
  /\ \A n \in Nodes : WF_vars(HandleMessages(n)) /\ WF_vars(Engine(n))

FairSpec == Spec /\ Fairness

-----------------------------------------------------------------------------
(* Properties. *)

\* The types of the variables, and the bounds the code puts on them.
TypeOK ==
  /\ handler \in
       [Prompts ->
         [at : {"new", "counting", "naming", "getting", "setting", "submitting",
                "asking role", "looking", "waiting", "checking",
                "finding", "answering", "answered"},
          node : Nodes, read : IDs \cup Prompts \cup {Heard, None},
          orig : Seq(Prompts), id : IDs,
          answer : Prompts \cup Answers]]
  /\ counter \in IDs
  /\ callback \in [Nodes -> Seq(Prompts)]
  /\ chan \in [Prompts -> 0..ChanCap]
  /\ collector \in [Prompts -> {"none", "reading", "done"}]
  /\ entry \in [IDs -> Prompts \cup {Heard, None}]
  /\ cid \in [Prompts -> {"none", "half", "stored"}]
  /\ proposed \subseteq Prompts
  /\ \A n \in Nodes :
       /\ receiver[n] \in [at : {"idle", "calling", "processing"},
                           prompt : Prompts \cup {None}, rest : Seq(Prompts)]
       /\ engine[n] \in [at : {"idle", "delivering", "storing"},
                         prompt : Prompts \cup {None}]
  /\ raced \subseteq {"counter", "callback"}

\* main.go:193-194 and 495-500: as long as no two handlers were at the
\* counter at once, the CID a client gets is that of a record of its own
\* prompt, whatever else the handlers do at the same time.
OwnAnswer ==
  "counter" \notin raced =>
    \A p \in Prompts : handler[p].answer \in Prompts => handler[p].answer = p

\* main.go:374, 497: under the same proviso a record that was stored for a
\* prompt is where its handler looks for it, whatever the receivers and the
\* other handlers did to the table, so that the answer is only empty where
\* the storing failed, came too late, or was not seen.
StoredIsFound ==
  "counter" \notin raced =>
    \A p \in Prompts : cid[p] = "stored" => entry[handler[p].id] = p

\* main.go:207-222: as long as no two handlers were wrapping the same callback
\* at once, a handler that has wrapped a node's callback stays in it.
WrapsStay ==
  "callback" \notin raced =>
    \A n \in 1..config.nodes, p \in Prompts :
      \/ handler[p].at \in {"new", "counting", "naming"}
      \/ handler[p].at \in {"getting", "setting"} /\ handler[p].node <= n
      \/ handler[p].answer = "refused"
      \/ p \in Range(callback[n])

\* A receiver in the callback waits for a channel nobody reads any more.
Clogged ==
  \E n \in Nodes :
    LET rest == receiver[n].rest IN
    /\ receiver[n].at = "calling" /\ rest # <<>>
    /\ chan[Head(rest)] = ChanCap /\ collector[Head(rest)] = "done"

\* A handler has n.mu and waits for p.mu, the run goroutine the reverse.
Embraced ==
  \E n \in Nodes, p \in Prompts :
    AtNode(p, {"asking role"}, n) /\ engine[n].at = "delivering"

\* main.go:181-509: every prompt gets an answer, whatever the other prompts
\* do, unless one of two things stops a node for good: the channel of an old
\* prompt is full, or a handler and a run goroutine each wait for the other's
\* lock.
AnsweredUnlessStuck ==
  \A p \in Prompts :
    At(p, "counting") ~> (At(p, "answered") \/ Clogged \/ Embraced)
=============================================================================
