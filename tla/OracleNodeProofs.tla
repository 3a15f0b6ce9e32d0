-------------------------- MODULE OracleNodeProofs --------------------------
(***************************************************************************)
(* Proofs about OracleNode, for any number of calls, any quorum and any    *)
(* configurations.                                                         *)
(*                                                                         *)
(* IInv is inductive: the types, Counted (no message about a proposal is   *)
(* handled twice), Holding (what the receiver has in hand), and InTable    *)
(* (what is on its way to the engine, or through ProcessPrompt, has its    *)
(* entry in the request table). LInv adds what the entries and the records *)
(* are: an answer in an entry is the answer to the prompt in it, and at    *)
(* the leader a proposal under an ID that one call passes is the answer    *)
(* that the entry still has.                                               *)
(***************************************************************************)
EXTENDS OracleNode, FiniteSetTheorems, TLAPS

\* The places in a queue that a message about d has.
Places(q, d) == {k \in 1 .. Len(q) : q[k] = d}
Waiting(d)   == Cardinality(Places(msgChan, d))

InHand(d) == IF d \in receiver.data THEN 1 ELSE 0

Types ==
  /\ config \in Configs
  /\ DOMAIN requests \subseteq Requests
  /\ \A r \in DOMAIN requests : requests[r] \in State
  /\ pc \in [Calls -> {"called", "asking LLM", "asking role", "proposing",
                       "returned"}]
  /\ nMu \in Calls \cup {Free}
  /\ \A c \in Calls : nMu = c <=> pc[c] \notin {"called", "returned"}
  /\ pMu = IF running = {} THEN Free ELSE Run
  /\ proposed \subseteq Data
  /\ receiver \in [at : {"idle", "creating", "processing"}, data : SUBSET Data]
  /\ msgChan \in Seq(Data)
  /\ votes \in [Data -> Nat]
  /\ received \in [Data -> Nat]
  /\ running \subseteq Data
  /\ stored \in Seq(Record)

Counted ==
  \A d \in Data :
    /\ votes[d] + Waiting(d) + InHand(d) <= received[d]
    /\ received[d] <= config.messages

Holding ==
  /\ receiver.at = "idle" => receiver.data = {}
  /\ receiver.at # "idle" => \E d \in Data : receiver.data = {d}

InTable ==
  /\ \A c \in Calls : pc[c] # "called" => Known(RequestOf[c])
  /\ receiver.at = "processing" => \A d \in receiver.data : Known(d.request)
  /\ \A k \in DOMAIN msgChan : Known(msgChan[k].request)
  /\ \A d \in running : Known(d.request)

IInv == Types /\ Counted /\ Holding /\ InTable

-----------------------------------------------------------------------------
(* What the entries and the records are.                                     *)

\* A call that answered request r has returned.
Answered(r) == \E c \in Calls : RequestOf[c] = r /\ pc[c] = "returned"

\* Only the calls of the configuration are made.
Made == \A c \in Calls : pc[c] # "called" => c \in config.calls

\* An entry's answer is the one to its prompt, and its prompt that of the call
\* which is in ProcessPrompt.
OwnAnswers ==
  /\ \A r \in DOMAIN requests : requests[r].llm \in {NoText, requests[r].prompt}
  /\ \A c \in Calls : nMu = c => requests[RequestOf[c]].prompt = c

Said ==
  config.leader =>
    \A d \in proposed :
      Known(d.request) /\ (~ Shared(d.request) =>
        requests[d.request].llm = d.text /\ Answered(d.request))

AboutProposals ==
  config.leader =>
    /\ receiver.data \subseteq proposed
    /\ \A k \in DOMAIN msgChan : msgChan[k] \in proposed
    /\ running \subseteq proposed

Finished ==
  config.leader =>
    \A r \in DOMAIN requests :
      requests[r].status = "complete" /\ ~ Shared(r) => Answered(r)

LInv == IInv /\ Made /\ OwnAnswers /\ Said /\ AboutProposals /\ Finished

-----------------------------------------------------------------------------
(* The operators. *)

LEMMA PlacesFinite ==
  ASSUME NEW q \in Seq(Data), NEW d
  PROVE  IsFiniteSet(Places(q, d)) /\ Cardinality(Places(q, d)) \in Nat
  <1>1. IsFiniteSet(1 .. Len(q)) /\ Places(q, d) \subseteq 1 .. Len(q)
    BY FS_Interval DEF Places
  <1> QED
    BY <1>1, FS_Subset, FS_CardinalityType

\* A message that is queued has one place more.
LEMMA PlacesAppend ==
  ASSUME NEW q \in Seq(Data), NEW e \in Data, NEW d
  PROVE  Cardinality(Places(Append(q, e), d)) =
           Cardinality(Places(q, d)) + (IF e = d THEN 1 ELSE 0)
  <1>1. CASE e = d
    <2>1. Places(Append(q, e), d) = Places(q, d) \cup {Len(q) + 1}
      BY <1>1 DEF Places
    <2>2. Len(q) + 1 \notin Places(q, d)
      BY DEF Places
    <2> QED
      BY <1>1, <2>1, <2>2, PlacesFinite, FS_AddElement
  <1>2. CASE e # d
    <2>1. Places(Append(q, e), d) = Places(q, d)
      BY <1>2 DEF Places
    <2> QED
      BY <1>2, <2>1, PlacesFinite
  <1> QED
    BY <1>1, <1>2

\* The head of the queue has the first place; the others move up.
LEMMA PlacesTail ==
  ASSUME NEW q \in Seq(Data), q # <<>>, NEW d
  PROVE  Cardinality(Places(Tail(q), d)) + (IF Head(q) = d THEN 1 ELSE 0)
           = Cardinality(Places(q, d))
  <1> DEFINE Behind == Places(q, d) \ {1}
             f == [k \in Places(Tail(q), d) |-> k + 1]
  <1>1. Len(Tail(q)) = Len(q) - 1 /\ Len(q) \in Nat \ {0}
    OBVIOUS
  <1>2. \A k \in 1 .. Len(Tail(q)) : Tail(q)[k] = q[k + 1]
    OBVIOUS
  <1>3. ExistsBijection(Places(Tail(q), d), Behind)
    <2>1. f \in [Places(Tail(q), d) -> Behind]
      BY <1>1, <1>2 DEF Places
    <2>2. ASSUME NEW i \in Places(Tail(q), d), NEW j \in Places(Tail(q), d),
                 f[i] = f[j]
          PROVE  i = j
      BY <2>2 DEF Places
    <2>3. ASSUME NEW k \in Behind
          PROVE  \E i \in Places(Tail(q), d) : f[i] = k
      <3>1. k - 1 \in Places(Tail(q), d) /\ k \in Nat
        BY <1>1, <1>2 DEF Places
      <3>2. f[k - 1] = k
        BY <3>1
      <3> QED
        BY <3>1, <3>2
    <2> QED
      BY <2>1, <2>2, <2>3, Zenon
        DEF ExistsBijection, Bijection, Injection, Surjection, IsInjective
  <1>4. IsFiniteSet(Places(Tail(q), d)) /\ IsFiniteSet(Places(q, d))
    <2>1. Tail(q) \in Seq(Data)
      OBVIOUS
    <2> QED
      BY <2>1, PlacesFinite
  <1>5. Cardinality(Behind) = Cardinality(Places(Tail(q), d))
    <2> HIDE DEF Behind
    <2> QED
      BY <1>3, <1>4, FS_Bijection
  <1>6. 1 \in Places(q, d) <=> Head(q) = d
    BY <1>1 DEF Places
  <1>7. Cardinality(Behind) = IF 1 \in Places(q, d)
                                THEN Cardinality(Places(q, d)) - 1
                                ELSE Cardinality(Places(q, d))
    BY <1>4, FS_RemoveElement
  <1> HIDE DEF Behind
  <1> QED
    BY <1>5, <1>6, <1>7, PlacesFinite

\* An entry is set; the others stay.
LEMMA SetLemma ==
  ASSUME Types, NEW r \in Requests, NEW s \in State, requests' = Set(r, s)
  PROVE  /\ DOMAIN requests' = DOMAIN requests \cup {r}
         /\ DOMAIN requests' \subseteq Requests
         /\ requests'[r] = s
         /\ \A x \in DOMAIN requests \ {r} : requests'[x] = requests[x]
         /\ \A x \in DOMAIN requests' : requests'[x] \in State
  BY DEF Types, Set

LEMMA AppendPlaces ==
  ASSUME NEW q \in Seq(Data), NEW e \in Data
  PROVE  /\ Append(q, e) \in Seq(Data)
         /\ \A k \in DOMAIN Append(q, e) :
              Append(q, e)[k] = IF k \in DOMAIN q THEN q[k] ELSE e
  OBVIOUS

LEMMA Increment ==
  ASSUME NEW f \in [Data -> Nat], NEW e \in Data
  PROVE  /\ [f EXCEPT ![e] = @ + 1] \in [Data -> Nat]
         /\ \A d \in Data :
              [f EXCEPT ![e] = @ + 1][d] = f[d] + (IF e = d THEN 1 ELSE 0)
  OBVIOUS

LEMMA NewStateType ==
  ASSUME NEW status \in {"pending", "consensus", "failed", "complete"},
         NEW prompt \in Prompts
  PROVE  NewState(status, prompt) \in State
  BY DEF NewState, State, Texts

\* A step that moves no message keeps the counts.
LEMMA CountsStay ==
  ASSUME IInv, UNCHANGED <<config, msgChan, receiver, votes, received>>
  PROVE  Counted' /\ Holding'
  BY DEF IInv, Counted, Holding, Waiting, InHand

\* A step that moves no message keeps the entries for those on their way, as
\* long as entries are not removed and a call that enters makes its own.
LEMMA EntriesStay ==
  ASSUME IInv, DOMAIN requests \subseteq DOMAIN requests',
         UNCHANGED <<receiver, msgChan, running>>,
         \A c \in Calls : pc'[c] # "called" =>
           pc[c] # "called" \/ RequestOf[c] \in DOMAIN requests'
  PROVE  InTable'
  BY DEF IInv, InTable, Known

-----------------------------------------------------------------------------
(* IInv is inductive. *)

LEMMA InitSafe == Init => IInv
  <1> SUFFICES ASSUME Init PROVE IInv
    OBVIOUS
  <1> USE DEF Init
  <1>1. Types
    BY CallsAssumption DEF Types
  <1>2. Counted
    <2> SUFFICES ASSUME NEW d \in Data
                 PROVE  /\ votes[d] + Waiting(d) + InHand(d) <= received[d]
                        /\ received[d] <= config.messages
      BY DEF Counted
    <2>1. Places(msgChan, d) = {}
      BY DEF Places
    <2>2. Waiting(d) = 0
      BY <2>1, FS_EmptySet DEF Waiting
    <2>3. config.messages \in Nat
      BY CallsAssumption
    <2> QED
      BY <2>2, <2>3 DEF InHand
  <1>3. Holding
    BY DEF Holding
  <1>4. InTable
    BY DEF InTable
  <1> QED
    BY <1>1, <1>2, <1>3, <1>4 DEF IInv

LEMMA EnterSafe ==
  ASSUME IInv, NEW c \in Calls, Enter(c)
  PROVE  IInv'
  <1> USE DEF IInv
  <1> DEFINE r == RequestOf[c]
  <1>0. r \in Requests /\ Free \notin Calls
    BY CallsAssumption
  <1>1. /\ DOMAIN requests' = DOMAIN requests \cup {r}
        /\ DOMAIN requests' \subseteq Requests
        /\ \A x \in DOMAIN requests' : requests'[x] \in State
    <2>1. NewState("pending", c) \in State
      BY NewStateType DEF Prompts
    <2> QED
      BY <1>0, <2>1, SetLemma DEF Enter
  <1>2. Types'
    BY <1>0, <1>1 DEF Types, Enter
  <1>3. InTable'
    BY <1>1, EntriesStay DEF Enter, Types
  <1>4. Counted' /\ Holding'
    BY CountsStay DEF Enter
  <1> QED
    BY <1>2, <1>3, <1>4

LEMMA AskLLMSafe ==
  ASSUME IInv, NEW c \in Calls, AskLLM(c)
  PROVE  IInv'
  <1> USE DEF IInv
  <1> DEFINE r == RequestOf[c]
  <1>0. r \in Requests /\ Free \notin Calls
    BY CallsAssumption
  <1>1. requests[r] \in State /\ r \in DOMAIN requests
    BY DEF AskLLM, InTable, Types, Known
  <1>2. /\ DOMAIN requests' = DOMAIN requests
        /\ \A x \in DOMAIN requests' : requests'[x] \in State
    <2>1. [requests[r] EXCEPT !.llm = c] \in State
      BY <1>1 DEF State, Texts
    <2>2. [requests[r] EXCEPT !.status = "failed"] \in State
      BY <1>1 DEF State, Texts
    <2> QED
      BY <1>1, <2>1, <2>2 DEF AskLLM, Types
  <1>3. Types'
    BY <1>0, <1>2 DEF Types, AskLLM, Return
  <1>4. InTable'
    BY <1>2, EntriesStay DEF AskLLM, Return, Types
  <1>5. Counted' /\ Holding'
    BY CountsStay DEF AskLLM
  <1> QED
    BY <1>3, <1>4, <1>5

LEMMA AskRoleSafe ==
  ASSUME IInv, NEW c \in Calls, AskRole(c)
  PROVE  IInv'
  <1> USE DEF IInv
  <1>0. Free \notin Calls
    BY CallsAssumption
  <1>1. Types'
    BY <1>0 DEF Types, AskRole, Return
  <1>2. InTable'
    BY EntriesStay DEF AskRole, Return, Types
  <1>3. Counted' /\ Holding'
    BY CountsStay DEF AskRole
  <1> QED
    BY <1>1, <1>2, <1>3

LEMMA ProposeSafe ==
  ASSUME IInv, NEW c \in Calls, Propose(c)
  PROVE  IInv'
  <1> USE DEF IInv
  <1> DEFINE r == RequestOf[c]
             d == [request |-> r, text |-> requests[r].llm]
  <1>0. r \in Requests /\ Free \notin Calls
    BY CallsAssumption
  <1>1. requests[r] \in State /\ r \in DOMAIN requests
    BY DEF Propose, InTable, Types, Known
  <1>2. d \in Data
    BY <1>0, <1>1 DEF Data, State
  <1>3. /\ DOMAIN requests' = DOMAIN requests
        /\ \A x \in DOMAIN requests' : requests'[x] \in State
    <2>1. [requests[r] EXCEPT !.status = "consensus"] \in State
      BY <1>1 DEF State, Texts
    <2>2. [requests[r] EXCEPT !.status = "failed"] \in State
      BY <1>1 DEF State, Texts
    <2> QED
      BY <1>1, <2>1, <2>2 DEF Propose, Types
  <1>4. proposed' \subseteq Data
    BY <1>2 DEF Propose, Types
  <1>5. Types'
    BY <1>0, <1>3, <1>4 DEF Types, Propose, Return
  <1>6. InTable'
    BY <1>3, EntriesStay DEF Propose, Return, Types
  <1>7. Counted' /\ Holding'
    BY CountsStay DEF Propose
  <1> QED
    BY <1>5, <1>6, <1>7

LEMMA ReceiveSafe ==
  ASSUME IInv, NEW e \in Data, Receive(e)
  PROVE  IInv'
  <1> USE DEF IInv
  <1>1. Types'
    <2>1. received \in [Data -> Nat]
      BY DEF Types
    <2>2. received' \in [Data -> Nat]
      BY <2>1, Increment DEF Receive
    <2>3. receiver' \in [at : {"idle", "creating", "processing"},
                         data : SUBSET Data]
      BY DEF Receive
    <2> QED
      BY <2>2, <2>3 DEF Types, Receive
  <1>2. Counted'
    <2> SUFFICES ASSUME NEW d \in Data
                 PROVE  (/\ votes[d] + Waiting(d) + InHand(d) <= received[d]
                         /\ received[d] <= config.messages)'
      BY DEF Counted
    <2>1. Waiting(d)' = Waiting(d) /\ Waiting(d) \in Nat
      BY PlacesFinite DEF Receive, Waiting, Types
    <2>2. /\ InHand(d) = 0
          /\ InHand(d)' = IF d = e THEN 1 ELSE 0
      BY DEF Receive, InHand, Holding
    <2>3. received'[d] = IF d = e THEN received[d] + 1 ELSE received[d]
      BY DEF Receive, Types
    <2>4. config.messages \in Nat /\ received[d] \in Nat /\ votes[d] \in Nat
      BY CallsAssumption DEF Types
    <2>5. /\ votes'[d] = votes[d] /\ config' = config
          /\ received[e] < config.messages
      BY DEF Receive
    <2>6. votes[d] + Waiting(d) <= received[d] /\ received[d] <= config.messages
      BY <2>1, <2>2, <2>4 DEF Counted
    <2> QED
      BY <2>1, <2>2, <2>3, <2>4, <2>5, <2>6
  <1>3. Holding'
    BY DEF Holding, Receive
  <1>4. InTable'
    BY DEF InTable, Receive, Known
  <1> QED
    BY <1>1, <1>2, <1>3, <1>4

LEMMA CreateSafe ==
  ASSUME IInv, Create
  PROVE  IInv'
  <1> USE DEF IInv
  <1>1. PICK d \in Data : receiver.data = {d}
    BY DEF Create, Holding
  <1>2. d.request \in Requests /\ requests' = Heard(d.request)
    BY <1>1 DEF Create, Data
  <1>3. /\ DOMAIN requests' = DOMAIN requests \cup {d.request}
        /\ DOMAIN requests' \subseteq Requests
        /\ \A x \in DOMAIN requests' : requests'[x] \in State
    <2>1. CASE Known(d.request)
      BY <1>2, <2>1 DEF Heard, Known, Types
    <2>2. CASE ~ Known(d.request)
      <3>1. requests' = Set(d.request, NewState("consensus", NoText))
        BY <1>2, <2>2 DEF Heard
      <3>2. NewState("consensus", NoText) \in State
        BY NewStateType DEF Prompts
      <3> QED
        BY <1>2, <3>1, <3>2, SetLemma
    <2> QED
      BY <2>1, <2>2
  <1>4. receiver' = [at |-> "processing", data |-> receiver.data]
    BY DEF Create, Types
  <1>5. Types'
    BY <1>3, <1>4 DEF Types, Create
  <1>6. Counted'
    BY <1>4 DEF Counted, Create, Waiting, InHand
  <1>7. Holding'
    BY <1>1, <1>4 DEF Holding
  <1>8. InTable'
    BY <1>1, <1>3, <1>4 DEF InTable, Create, Known
  <1> QED
    BY <1>5, <1>6, <1>7, <1>8

LEMMA ProcessSafe ==
  ASSUME IInv, Process
  PROVE  IInv'
  <1> USE DEF IInv
  <1>1. PICK e \in Data : receiver.data = {e}
    BY DEF Process, Holding
  <1>2. /\ receiver' = [at |-> "idle", data |-> {}]
        /\ msgChan' \in {msgChan, Append(msgChan, e)}
    BY <1>1 DEF Process
  <1>3. Types'
    <2>1. msgChan \in Seq(Data)
      BY DEF Types
    <2>2. Append(msgChan, e) \in Seq(Data)
      BY <2>1, AppendPlaces
    <2>3. msgChan' \in Seq(Data)
      BY <1>2, <2>1, <2>2
    <2>4. receiver' \in [at : {"idle", "creating", "processing"},
                         data : SUBSET Data]
      BY <1>2
    <2> QED
      BY <2>3, <2>4 DEF Types, Process
  <1>4. Counted'
    <2> SUFFICES ASSUME NEW d \in Data
                 PROVE  (/\ votes[d] + Waiting(d) + InHand(d) <= received[d]
                         /\ received[d] <= config.messages)'
      BY DEF Counted
    <2>1. /\ InHand(d)' = 0
          /\ InHand(d) = IF d = e THEN 1 ELSE 0
      BY <1>1, <1>2 DEF InHand
    <2>2. Waiting(d) \in Nat
      BY PlacesFinite DEF Waiting, Types
    <2>3. Waiting(d)' \in {Waiting(d), Waiting(d) + InHand(d)}
      <3>1. CASE msgChan' = msgChan
        BY <3>1 DEF Waiting
      <3>2. CASE msgChan' = Append(msgChan, e)
        <4>1. Cardinality(Places(msgChan', d)) =
                Cardinality(Places(msgChan, d)) + (IF e = d THEN 1 ELSE 0)
          BY <3>2, PlacesAppend DEF Types
        <4> QED
          BY <2>1, <4>1 DEF Waiting
      <3> QED
        BY <1>2, <3>1, <3>2
    <2>4. votes[d] \in Nat /\ received[d] \in Nat /\ InHand(d) \in Nat
      <3>1. InHand(d) \in Nat
        BY <2>1
      <3> QED
        BY <3>1 DEF Types
    <2>5. votes'[d] = votes[d] /\ received'[d] = received[d] /\ config' = config
      BY DEF Process
    <2>6. votes[d] + Waiting(d) + InHand(d) <= received[d]
      BY DEF Counted
    <2>7. received[d] <= config.messages
      BY DEF Counted
    <2> QED
      BY <2>1, <2>2, <2>3, <2>4, <2>5, <2>6, <2>7
  <1>5. Holding'
    BY <1>2 DEF Holding
  <1>6. InTable'
    <2>1. e \in receiver.data /\ Known(e.request)
      BY <1>1 DEF InTable, Process
    <2>2. \A k \in DOMAIN msgChan' : Known(msgChan'[k].request)
      <3>1. \A k \in DOMAIN Append(msgChan, e) :
              Append(msgChan, e)[k] = IF k \in DOMAIN msgChan THEN msgChan[k] ELSE e
        <4>1. msgChan \in Seq(Data)
          BY DEF Types
        <4> HIDE DEF IInv
        <4> QED
          BY <4>1, AppendPlaces
      <3> QED
        BY <1>2, <2>1, <3>1 DEF InTable
    <2> QED
      BY <1>2, <2>2 DEF InTable, Process, Known
  <1> QED
    BY <1>3, <1>4, <1>5, <1>6

\* What the first message in the queue is about, and what stays behind it.
LEMMA Taken ==
  ASSUME NEW q \in Seq(Data), q # <<>>
  PROVE  /\ Head(q) \in Data /\ Tail(q) \in Seq(Data)
         /\ Head(q) = q[1] /\ 1 \in DOMAIN q
         /\ \A k \in DOMAIN Tail(q) : k + 1 \in DOMAIN q /\ Tail(q)[k] = q[k + 1]
  OBVIOUS

LEMMA HandleSafe ==
  ASSUME IInv, Handle
  PROVE  IInv'
  <1> USE DEF IInv
  <1> DEFINE e == Head(msgChan)
  <1>1. /\ e \in Data /\ Tail(msgChan) \in Seq(Data)
        /\ e = msgChan[1] /\ 1 \in DOMAIN msgChan
        /\ \A k \in DOMAIN Tail(msgChan) :
             k + 1 \in DOMAIN msgChan /\ Tail(msgChan)[k] = msgChan[k + 1]
    <2>1. msgChan \in Seq(Data) /\ msgChan # <<>>
      BY DEF Handle, Types
    <2> HIDE DEF IInv
    <2> QED
      BY <2>1, Taken
  <1>2. /\ msgChan # <<>> /\ msgChan' = Tail(msgChan)
        /\ votes' = [votes EXCEPT ![e] = @ + 1]
        /\ \/ pMu' = Run /\ running' = {e}
           \/ UNCHANGED <<pMu, running>>
        /\ running = {}
    BY DEF Handle
  <1> HIDE DEF e
  <1>3. Types'
    <2>1. votes' \in [Data -> Nat]
      <3>1. votes \in [Data -> Nat]
        BY DEF Types
      <3> QED
        BY <1>1, <1>2, <3>1, Increment
    <2>2. pMu' = (IF running' = {} THEN Free ELSE Run) /\ running' \subseteq Data
      BY <1>1, <1>2 DEF Types
    <2> QED
      BY <1>1, <1>2, <2>1, <2>2 DEF Types, Handle
  <1>4. Counted'
    <2> SUFFICES ASSUME NEW d \in Data
                 PROVE  (/\ votes[d] + Waiting(d) + InHand(d) <= received[d]
                         /\ received[d] <= config.messages)'
      BY DEF Counted
    <2>1. Waiting(d) \in Nat /\ Waiting(d)' \in Nat
      BY <1>1, <1>2, PlacesFinite DEF Waiting, Types
    <2>2. Waiting(d)' + (IF e = d THEN 1 ELSE 0) = Waiting(d)
      BY <1>2, PlacesTail DEF Waiting, Types, e
    <2>3. votes'[d] = votes[d] + (IF e = d THEN 1 ELSE 0)
      <3>1. votes \in [Data -> Nat]
        BY DEF Types
      <3> QED
        BY <1>1, <1>2, <3>1, Increment
    <2>4. /\ InHand(d)' = InHand(d) /\ InHand(d) \in Nat
          /\ received'[d] = received[d] /\ config' = config
      BY DEF InHand, Handle
    <2>5. votes[d] \in Nat /\ received[d] \in Nat
      BY DEF Types
    <2>6. votes[d] + Waiting(d) + InHand(d) <= received[d]
      BY DEF Counted
    <2>7. received[d] <= config.messages
      BY DEF Counted
    <2> QED
      BY <2>1, <2>2, <2>3, <2>4, <2>5, <2>6, <2>7
  <1>5. Holding'
    BY DEF Holding, Handle
  <1>6. InTable'
    <2>1. Known(e.request) /\ \A k \in DOMAIN msgChan' : Known(msgChan'[k].request)
      BY <1>1, <1>2 DEF InTable
    <2> QED
      BY <1>2, <2>1 DEF InTable, Handle, Known
  <1> QED
    BY <1>3, <1>4, <1>5, <1>6

LEMMA DeliverSafe ==
  ASSUME IInv, NEW d \in Data, Deliver(d)
  PROVE  IInv'
  <1> USE DEF IInv
  <1> DEFINE r == d.request
             done == [requests[r] EXCEPT !.status = "complete", !.agreed = d.text]
  <1>0. /\ r \in Requests /\ d.text \in Texts
        /\ requests[r] \in State /\ r \in DOMAIN requests
    BY DEF Deliver, Data, Types, Known
  <1>1. done \in State /\ [done EXCEPT !.cid = TRUE] \in State
    BY <1>0 DEF State
  <1>2. \E s \in State : requests' = Set(r, s)
    BY <1>1 DEF Deliver
  <1>3. /\ DOMAIN requests' = DOMAIN requests
        /\ \A x \in DOMAIN requests' : requests'[x] \in State
    BY <1>0, <1>2, SetLemma
  <1>4. stored' \in Seq(Record)
    <2>0. done.prompt = requests[r].prompt
      BY <1>0 DEF State
    <2>1. [request |-> r, prompt |-> done.prompt, text |-> FinalText(r, d),
           agreed |-> d.text] \in Record
      BY <1>0, <2>0 DEF Record, FinalText, State
    <2>2. stored \in Seq(Record)
      BY DEF Types
    <2>3. Append(stored, [request |-> r, prompt |-> done.prompt,
                          text |-> FinalText(r, d), agreed |-> d.text])
            \in Seq(Record)
      BY <2>1, <2>2
    <2> QED
      BY <2>2, <2>3 DEF Deliver
  <1>5. Types'
    BY <1>3, <1>4 DEF Types, Deliver
  <1>6. Counted' /\ Holding'
    BY CountsStay DEF Deliver
  <1>7. InTable'
    BY <1>3 DEF InTable, Deliver, Known
  <1> QED
    BY <1>5, <1>6, <1>7

LEMMA StepSafe == IInv /\ [Next]_vars => IInv'
  <1> SUFFICES ASSUME IInv, [Next]_vars PROVE IInv'
    OBVIOUS
  <1>1. ASSUME NEW c \in Calls, ProcessPrompt(c) PROVE IInv'
    BY <1>1, EnterSafe, AskLLMSafe, AskRoleSafe, ProposeSafe DEF ProcessPrompt
  <1>2. CASE HandleMessages
    BY <1>2, CreateSafe, ProcessSafe DEF HandleMessages
  <1>3. CASE Engine
    BY <1>3, HandleSafe, DeliverSafe DEF Engine
  <1>4. ASSUME NEW d \in Data, Receive(d) PROVE IInv'
    BY <1>4, ReceiveSafe
  <1>5. CASE UNCHANGED vars
    BY <1>5 DEF vars, IInv, Types, Counted, Holding, InTable, Waiting, InHand, Known
  <1> QED
    BY <1>1, <1>2, <1>3, <1>4, <1>5 DEF Next

LEMMA IInvTypes == IInv => TypeOK
  <1> SUFFICES ASSUME IInv, NEW d \in Data
               PROVE  votes[d] <= received[d] /\ received[d] <= config.messages
    BY DEF IInv, Types, TypeOK
  <1>1. Waiting(d) \in Nat /\ InHand(d) \in Nat
    BY PlacesFinite DEF IInv, Types, Waiting, InHand
  <1>2. votes[d] \in Nat /\ received[d] \in Nat
    BY DEF IInv, Types
  <1>3. votes[d] + Waiting(d) + InHand(d) <= received[d]
    BY DEF IInv, Counted
  <1> QED
    BY <1>1, <1>2, <1>3 DEF IInv, Counted

-----------------------------------------------------------------------------
THEOREM Invariance == Spec => []IInv
  <1> QED
    BY InitSafe, StepSafe, PTL DEF Spec

\* The types hold, and each lock is with the goroutine that holds it between
\* its Lock and whichever Unlock it takes (oracle_node.go, ProcessPrompt's
\* returns and handleConsensusResult's defer).
THEOREM TypeCorrect == Spec => []TypeOK
  <1> QED
    BY Invariance, IInvTypes, PTL

\* A result finds its request in the table: "Request state not found" of
\* oracle_node.go:166 is never logged.
THEOREM ResultsFindRequests == Spec => []ResultFindsRequest
  <1>1. IInv => ResultFindsRequest
    BY DEF IInv, InTable, ResultFindsRequest
  <1> QED
    BY <1>1, Invariance, PTL

-----------------------------------------------------------------------------
(* LInv is inductive. *)

LEMMA ConfigStays == [Next]_vars => config' = config
  BY DEF Next, vars, ProcessPrompt, HandleMessages, Engine, Enter, AskLLM, AskRole,
         Propose, Receive, Create, Process, Handle, Deliver

LEMMA MadeStays ==
  ASSUME IInv, Made, [Next]_vars
  PROVE  Made'
  <1>1. config' = config
    BY ConfigStays
  <1>2. pc \in [Calls -> {"called", "asking LLM", "asking role", "proposing",
                          "returned"}]
    BY DEF IInv, Types
  <1>3. ASSUME NEW c \in Calls, pc[c] = "called", pc'[c] # "called"
        PROVE  c \in config.calls
    BY <1>2, <1>3
      DEF Next, vars, ProcessPrompt, HandleMessages, Engine, Enter, AskLLM, AskRole,
          Propose, Return, Receive, Create, Process, Handle, Deliver
  <1> QED
    BY <1>1, <1>3 DEF Made

\* The call that answered a request whose ID is not shared is the only one
\* that is ever made with that ID.
LEMMA OnlyCall ==
  ASSUME Made, NEW c \in config.calls, c \in Calls, Answered(RequestOf[c]),
         ~ Shared(RequestOf[c])
  PROVE  pc[c] = "returned"
  BY DEF Made, Shared, Answered

\* An entry is answered by the call that made it, or not at all: n.mu keeps
\* everybody else from it until the call returns.
LEMMA AnswersAreOwn ==
  ASSUME IInv, OwnAnswers, [Next]_vars
  PROVE  OwnAnswers'
  <1>0. /\ \A x \in DOMAIN requests : requests[x] \in State
        /\ Free \notin Calls
    BY CallsAssumption DEF IInv, Types
  <1>1. ASSUME NEW c \in Calls, Enter(c) PROVE OwnAnswers'
    <2>1. NewState("pending", c).llm = NoText /\ NewState("pending", c).prompt = c
      BY DEF NewState
    <2>2. requests' = Set(RequestOf[c], NewState("pending", c)) /\ nMu' = c
      BY <1>1 DEF Enter
    <2> QED
      BY <2>1, <2>2 DEF Set, OwnAnswers
  <1>2. ASSUME NEW c \in Calls, AskLLM(c) PROVE OwnAnswers'
    <2>1. PICK r : r = RequestOf[c]
      OBVIOUS
    <2>2. r \in DOMAIN requests /\ requests[r] \in State /\ nMu = c
      BY <1>0, <1>2, <2>1 DEF AskLLM, IInv, InTable, Known, Types
    <2>3. requests[r].prompt = c /\ nMu' \in {c, Free}
      BY <1>2, <2>1, <2>2 DEF OwnAnswers, AskLLM, Return
    <2>4. \/ requests' = requests
          \/ requests' = [requests EXCEPT ![r].llm = c]
          \/ requests' = [requests EXCEPT ![r].status = "failed"]
      BY <1>2, <2>1 DEF AskLLM
    <2>5. /\ DOMAIN requests' = DOMAIN requests
          /\ \A x \in DOMAIN requests : requests'[x].prompt = requests[x].prompt
          /\ \A x \in DOMAIN requests \ {r} : requests'[x].llm = requests[x].llm
          /\ requests'[r].llm \in {c, requests[r].llm}
      <3>1. CASE requests' = requests
        BY <2>2, <3>1
      <3>2. CASE requests' = [requests EXCEPT ![r].llm = c]
        BY <2>2, <3>2 DEF State
      <3>3. CASE requests' = [requests EXCEPT ![r].status = "failed"]
        BY <2>2, <3>3 DEF State
      <3> QED
        BY <2>4, <3>1, <3>2, <3>3
    <2>6. \A x \in DOMAIN requests' : requests'[x].llm \in {NoText, requests'[x].prompt}
      <3>1. \A x \in DOMAIN requests : requests[x].llm \in {NoText, requests[x].prompt}
        BY DEF OwnAnswers
      <3> QED
        BY <2>2, <2>3, <2>5, <3>1
    <2>7. \A k \in Calls : nMu' = k => k = c
      BY <1>0, <2>3
    <2>8. requests'[r].prompt = c
      BY <2>2, <2>3, <2>5
    <2>9. \A k \in Calls : nMu' = k => requests'[RequestOf[k]].prompt = k
      BY <2>1, <2>7, <2>8
    <2> QED
      BY <2>6, <2>9 DEF OwnAnswers
  <1>3. ASSUME NEW c \in Calls, AskRole(c) PROVE OwnAnswers'
    <2>1. requests' = requests /\ (nMu' = nMu \/ nMu' = Free)
      BY <1>3 DEF AskRole, Return
    <2> QED
      BY <1>0, <2>1 DEF OwnAnswers
  <1>4. ASSUME NEW c \in Calls, Propose(c) PROVE OwnAnswers'
    <2>1. PICK r : r = RequestOf[c]
      OBVIOUS
    <2>2. r \in DOMAIN requests /\ requests[r] \in State
      BY <1>0, <1>4, <2>1 DEF Propose, IInv, InTable, Known
    <2>3. /\ nMu' = Free
          /\ \/ requests' = [requests EXCEPT ![r].status = "consensus"]
             \/ requests' = [requests EXCEPT ![r].status = "failed"]
      BY <1>4, <2>1 DEF Propose, Return
    <2>4. /\ DOMAIN requests' = DOMAIN requests
          /\ \A x \in DOMAIN requests : /\ requests'[x].prompt = requests[x].prompt
                                        /\ requests'[x].llm = requests[x].llm
      BY <2>2, <2>3 DEF State
    <2> QED
      BY <1>0, <2>3, <2>4 DEF OwnAnswers
  <1>5. CASE Create
    <2>1. PICK r : requests' = Heard(r)
      BY <1>5 DEF Create
    <2>2. NewState("consensus", NoText).llm = NoText
      BY DEF NewState
    <2>3. nMu' = Free
      BY <1>5 DEF Create
    <2> QED
      BY <1>0, <2>1, <2>2, <2>3 DEF Heard, Set, OwnAnswers
  <1>6. ASSUME NEW d \in Data, Deliver(d) PROVE OwnAnswers'
    <2>1. PICK r : r = d.request
      OBVIOUS
    <2>2. PICK done : done = [requests[r] EXCEPT !.status = "complete",
                                                 !.agreed = d.text]
      OBVIOUS
    <2>3. r \in DOMAIN requests /\ requests[r] \in State /\ nMu' = Free
      BY <1>0, <1>6, <2>1 DEF Deliver, Known
    <2>4. /\ done.llm = requests[r].llm /\ done.prompt = requests[r].prompt
          /\ [done EXCEPT !.cid = TRUE].llm = requests[r].llm
          /\ [done EXCEPT !.cid = TRUE].prompt = requests[r].prompt
      BY <2>2, <2>3 DEF State
    <2>5. requests' \in {Set(r, done), Set(r, [done EXCEPT !.cid = TRUE])}
      BY <1>6, <2>1, <2>2 DEF Deliver
    <2>6. /\ DOMAIN requests' = DOMAIN requests
          /\ \A x \in DOMAIN requests : /\ requests'[x].prompt = requests[x].prompt
                                        /\ requests'[x].llm = requests[x].llm
      BY <2>3, <2>4, <2>5 DEF Set
    <2> QED
      BY <1>0, <2>3, <2>6 DEF OwnAnswers
  <1>7. CASE UNCHANGED <<requests, nMu>>
    BY <1>7 DEF OwnAnswers
  <1> QED
    BY <1>1, <1>2, <1>3, <1>4, <1>5, <1>6, <1>7
      DEF Next, vars, ProcessPrompt, HandleMessages, Engine, Receive, Process, Handle

\* No entry is ever removed.
LEMMA TableGrows ==
  ASSUME [Next]_vars
  PROVE  DOMAIN requests \subseteq DOMAIN requests'
  <1>1. ASSUME NEW c \in Calls, ProcessPrompt(c)
        PROVE  DOMAIN requests \subseteq DOMAIN requests'
    BY <1>1 DEF ProcessPrompt, Enter, AskLLM, AskRole, Propose, Set
  <1>2. ASSUME NEW d \in Data, Deliver(d)
        PROVE  DOMAIN requests \subseteq DOMAIN requests'
    BY <1>2 DEF Deliver, Set
  <1> QED
    BY <1>1, <1>2
      DEF Next, vars, HandleMessages, Engine, Receive, Create, Heard, Set, Process,
          Handle

LEMMA AnswersStay ==
  ASSUME IInv, [Next]_vars, NEW r, Answered(r)
  PROVE  Answered(r)'
  <1>1. PICK c \in Calls : RequestOf[c] = r /\ pc[c] = "returned"
    BY DEF Answered
  <1>2. pc \in [Calls -> {"called", "asking LLM", "asking role", "proposing",
                          "returned"}]
    BY DEF IInv, Types
  <1>3. pc'[c] = "returned"
    BY <1>1, <1>2
      DEF Next, vars, ProcessPrompt, HandleMessages, Engine, Enter, AskLLM, AskRole,
          Propose, Return, Receive, Create, Process, Handle, Deliver
  <1> QED
    BY <1>1, <1>3 DEF Answered

\* The entry of a request that was answered keeps its answer when its ID is
\* not shared, and its status changes to "complete" only.
LEMMA AnsweredKept ==
  ASSUME LInv, [Next]_vars,
         NEW r \in DOMAIN requests, Answered(r), ~ Shared(r)
  PROVE  /\ r \in DOMAIN requests'
         /\ requests'[r].llm = requests[r].llm
         /\ requests'[r].status \in {requests[r].status, "complete"}
  <1> DEFINE Kept ==
        /\ r \in DOMAIN requests'
        /\ requests'[r].llm = requests[r].llm
        /\ requests'[r].status \in {requests[r].status, "complete"}
  <1>0. requests[r] \in State
    BY DEF LInv, IInv, Types
  <1>1. \A c \in config.calls : c \in Calls /\ (pc[c] # "returned" => RequestOf[c] # r)
    <2>1. config.calls \subseteq Calls
      BY CallsAssumption DEF LInv, IInv, Types
    <2> QED
      BY <2>1, OnlyCall DEF LInv
  <1>2. ASSUME NEW c \in Calls, ProcessPrompt(c) PROVE Kept
    <2>0. c \in config.calls
      BY <1>2 DEF LInv, Made, ProcessPrompt, Enter, AskLLM, AskRole, Propose
    <2>1. CASE Enter(c)
      BY <1>1, <2>0, <2>1 DEF Enter, Set
    <2>2. CASE AskLLM(c)
      BY <1>1, <2>0, <2>2 DEF AskLLM
    <2>3. CASE AskRole(c)
      BY <2>3 DEF AskRole
    <2>4. CASE Propose(c)
      BY <1>1, <2>0, <2>4 DEF Propose
    <2> QED
      BY <1>2, <2>1, <2>2, <2>3, <2>4 DEF ProcessPrompt
  <1>3. CASE Create
    BY <1>3 DEF Create, Heard, Set, Known
  <1>4. CASE Process \/ Handle
    BY <1>4 DEF Process, Handle
  <1>5. ASSUME NEW d \in Data, Deliver(d) PROVE Kept
    <2>1. CASE d.request = r
      <3> DEFINE done == [requests[r] EXCEPT !.status = "complete",
                                             !.agreed = d.text]
      <3>1. /\ done.llm = requests[r].llm /\ done.status = "complete"
            /\ [done EXCEPT !.cid = TRUE].llm = requests[r].llm
            /\ [done EXCEPT !.cid = TRUE].status = "complete"
        BY <1>0 DEF State
      <3>2. requests' \in {Set(r, done), Set(r, [done EXCEPT !.cid = TRUE])}
        BY <1>5, <2>1 DEF Deliver
      <3> HIDE DEF done
      <3> QED
        BY <3>1, <3>2 DEF Set
    <2>2. CASE d.request # r
      BY <1>5, <2>2 DEF Deliver, Set
    <2> QED
      BY <2>1, <2>2
  <1>6. ASSUME NEW d \in Data, Receive(d) PROVE Kept
    BY <1>6 DEF Receive
  <1>7. CASE UNCHANGED vars
    BY <1>7 DEF vars
  <1> QED
    BY <1>2, <1>3, <1>4, <1>5, <1>6, <1>7 DEF Next, HandleMessages, Engine

\* A proposal is new only in ProposeValue, for a call that then returns.
LEMMA NewProposal ==
  ASSUME IInv, [Next]_vars, NEW d \in proposed'
  PROVE  \/ d \in proposed
         \/ /\ d.request \in DOMAIN requests'
            /\ requests'[d.request].llm = d.text
            /\ Answered(d.request)'
  <1>1. ASSUME NEW c \in Calls, Propose(c), d \notin proposed
        PROVE  /\ d.request \in DOMAIN requests'
               /\ requests'[d.request].llm = d.text
               /\ Answered(d.request)'
    <2> DEFINE r == RequestOf[c]
    <2>1. d = [request |-> r, text |-> requests[r].llm]
      BY <1>1 DEF Propose
    <2>2. r \in DOMAIN requests /\ requests[r] \in State
      BY <1>1 DEF Propose, IInv, InTable, Types, Known
    <2>3. r \in DOMAIN requests' /\ requests'[r].llm = requests[r].llm
      BY <1>1, <2>2 DEF Propose, State
    <2>4. pc'[c] = "returned"
      BY <1>1 DEF Propose, Return, IInv, Types
    <2> QED
      BY <2>1, <2>3, <2>4 DEF Answered
  <1> QED
    BY <1>1 DEF Next, vars, ProcessPrompt, HandleMessages, Engine, Enter, AskLLM,
                AskRole, Receive, Create, Process, Handle, Deliver

\* A request becomes complete only when a result for it is delivered.
LEMMA NewlyComplete ==
  ASSUME IInv, [Next]_vars, NEW r \in DOMAIN requests',
         requests'[r].status = "complete"
  PROVE  \/ r \in DOMAIN requests /\ requests[r].status = "complete"
         \/ \E d \in running : d.request = r
  <1>1. \A x \in DOMAIN requests : requests[x] \in State
    BY DEF IInv, Types
  <1>2. ASSUME NEW c \in Calls, ProcessPrompt(c)
        PROVE  r \in DOMAIN requests /\ requests[r].status = "complete"
    <2>0. pc[c] # "called" => RequestOf[c] \in DOMAIN requests
      BY DEF IInv, InTable, Known
    <2>1. CASE Enter(c)
      BY <2>1 DEF Enter, Set, NewState
    <2>2. CASE AskLLM(c)
      <3>1. PICK x : x = RequestOf[c]
        OBVIOUS
      <3>2. \/ requests' = requests
            \/ requests' = [requests EXCEPT ![x].llm = c]
            \/ requests' = [requests EXCEPT ![x].status = "failed"]
        BY <2>2, <3>1 DEF AskLLM
      <3>3. x \in DOMAIN requests => requests[x] \in State
        BY <1>1
      <3> QED
        BY <3>2, <3>3 DEF State
    <2>3. CASE AskRole(c)
      BY <2>3 DEF AskRole
    <2>4. CASE Propose(c)
      BY <1>1, <2>0, <2>4 DEF Propose, State
    <2> QED
      BY <1>2, <2>1, <2>2, <2>3, <2>4 DEF ProcessPrompt
  <1>3. CASE Create
    BY <1>3 DEF Create, Heard, Set, NewState
  <1>4. CASE Process \/ Handle
    BY <1>4 DEF Process, Handle
  <1>5. ASSUME NEW d \in Data, Deliver(d), d.request # r
        PROVE  r \in DOMAIN requests /\ requests[r].status = "complete"
    BY <1>5 DEF Deliver, Set
  <1>6. ASSUME NEW d \in Data, Deliver(d) PROVE d \in running
    BY <1>6 DEF Deliver
  <1>7. ASSUME NEW d \in Data, Receive(d)
        PROVE  r \in DOMAIN requests /\ requests[r].status = "complete"
    BY <1>7 DEF Receive
  <1>8. CASE UNCHANGED vars
    BY <1>8 DEF vars
  <1> QED
    BY <1>2, <1>3, <1>4, <1>5, <1>6, <1>7, <1>8 DEF Next, HandleMessages, Engine

\* At the leader the messages stay about what it proposed.
LEMMA TopicsStay ==
  ASSUME IInv, AboutProposals, config.leader, [Next]_vars
  PROVE  AboutProposals'
  <1> USE DEF AboutProposals
  <1>0. proposed \subseteq proposed' /\ config' = config
    BY ConfigStays
      DEF Next, vars, ProcessPrompt, HandleMessages, Engine, Enter, AskLLM, AskRole,
          Propose, Receive, Create, Process, Handle, Deliver
  <1>1. ASSUME NEW c \in Calls, ProcessPrompt(c) PROVE AboutProposals'
    BY <1>0, <1>1 DEF ProcessPrompt, Enter, AskLLM, AskRole, Propose
  <1>2. CASE Create
    BY <1>0, <1>2 DEF Create, IInv, Types
  <1>3. CASE Process
    <2>1. PICK e \in Data : receiver.data = {e}
      BY <1>3 DEF Process, IInv, Holding
    <2>2. msgChan \in Seq(Data)
      BY DEF IInv, Types
    <2>3. /\ receiver'.data = {} /\ running' = running /\ proposed' = proposed
          /\ msgChan' \in {msgChan, Append(msgChan, e)}
      BY <1>3, <2>1 DEF Process
    <2>4. \A k \in DOMAIN msgChan' : msgChan'[k] \in proposed
      BY <2>1, <2>2, <2>3, AppendPlaces
    <2> QED
      BY <2>3, <2>4
  <1>4. CASE Handle
    <2>1. msgChan \in Seq(Data) /\ msgChan # <<>>
      BY <1>4 DEF Handle, IInv, Types
    <2>2. /\ msgChan' = Tail(msgChan) /\ receiver' = receiver
          /\ proposed' = proposed
          /\ running' = running \/ running' = {Head(msgChan)}
      BY <1>4 DEF Handle
    <2>3. \A k \in DOMAIN msgChan' : msgChan'[k] \in proposed
      BY <2>1, <2>2, Taken
    <2>4. Head(msgChan) \in proposed
      BY <2>1, Taken
    <2> QED
      BY <2>2, <2>3, <2>4
  <1>5. ASSUME NEW d \in Data, Deliver(d) PROVE AboutProposals'
    BY <1>0, <1>5 DEF Deliver
  <1>6. ASSUME NEW d \in Data, Receive(d) PROVE AboutProposals'
    BY <1>0, <1>6 DEF Receive, Topics
  <1>7. CASE UNCHANGED vars
    BY <1>7 DEF vars
  <1> QED
    BY <1>1, <1>2, <1>3, <1>4, <1>5, <1>6, <1>7 DEF Next, HandleMessages, Engine

LEMMA LeaderSafe ==
  ASSUME LInv, [Next]_vars
  PROVE  LInv'
  <1>1. /\ IInv' /\ config' = config /\ Made' /\ OwnAnswers'
        /\ DOMAIN requests \subseteq DOMAIN requests'
        /\ \A r : Shared(r)' <=> Shared(r)
    <2>1. config' = config
      BY ConfigStays
    <2> QED
      BY <2>1, StepSafe, MadeStays, AnswersAreOwn, TableGrows DEF LInv, Shared
  <1>2. CASE ~ config.leader
    BY <1>1, <1>2 DEF LInv, Said, AboutProposals, Finished
  <1>3. CASE config.leader
    <2>1. AboutProposals'
      BY <1>3, TopicsStay DEF LInv
    <2>2. ASSUME NEW d \in proposed'
          PROVE  /\ d.request \in DOMAIN requests'
                 /\ ~ Shared(d.request) =>
                      requests'[d.request].llm = d.text /\ Answered(d.request)'
      <3>1. CASE d \in proposed
        <4>1. /\ d.request \in DOMAIN requests
              /\ ~ Shared(d.request) =>
                   requests[d.request].llm = d.text /\ Answered(d.request)
          BY <1>3, <3>1 DEF LInv, Said, Known
        <4>2. ASSUME ~ Shared(d.request)
              PROVE  requests'[d.request].llm = d.text /\ Answered(d.request)'
          <5>1. Answered(d.request)'
            BY <4>1, <4>2, AnswersStay DEF LInv
          <5>2. requests'[d.request].llm = requests[d.request].llm
            BY <4>1, <4>2, AnsweredKept
          <5> QED
            BY <4>1, <4>2, <5>1, <5>2
        <4> QED
          BY <1>1, <4>1, <4>2
      <3> QED
        BY <3>1, NewProposal DEF LInv
    <2>3. Said'
      BY <1>1, <2>2 DEF Said, Known
    <2>4. ASSUME NEW r \in DOMAIN requests', requests'[r].status = "complete",
                 ~ Shared(r)
          PROVE  Answered(r)'
      <3>1. Answered(r)
        <4>1. CASE r \in DOMAIN requests /\ requests[r].status = "complete"
          BY <1>3, <2>4, <4>1 DEF LInv, Finished
        <4>2. ASSUME NEW d \in running, d.request = r
              PROVE  Answered(r)
          BY <1>3, <2>4, <4>2 DEF LInv, AboutProposals, Said
        <4> QED
          BY <2>4, <4>1, <4>2, NewlyComplete DEF LInv
      <3> QED
        BY <3>1, AnswersStay DEF LInv
    <2>5. Finished'
      BY <1>1, <2>4 DEF Finished
    <2> QED
      BY <1>1, <2>1, <2>3, <2>5 DEF LInv
  <1> QED
    BY <1>2, <1>3

\* What is stored is what was agreed, or the answer to the prompt in the entry.
LEMMA StoredSafe ==
  ASSUME LInv, StoredIsAgreed, [Next]_vars
  PROVE  StoredIsAgreed'
  <1>0. \A r : (config.leader => Shared(r)) <=> (config'.leader => Shared(r)')
    BY ConfigStays DEF Shared
  <1>1. ASSUME NEW d \in Data, Deliver(d), stored' # stored
        PROVE  StoredIsAgreed'
    <2>1. PICK r : r = d.request
      OBVIOUS
    <2>2. r \in DOMAIN requests /\ requests[r] \in State
      BY <1>1, <2>1 DEF Deliver, Known, LInv, IInv, Types
    <2>3. PICK e : e = [request |-> r, prompt |-> requests[r].prompt,
                        text |-> FinalText(r, d), agreed |-> d.text]
      OBVIOUS
    <2>4. stored' = Append(stored, e)
      <3>1. [requests[r] EXCEPT !.status = "complete", !.agreed = d.text].prompt
              = requests[r].prompt
        BY <2>2 DEF State
      <3> QED
        BY <1>1, <2>1, <2>3, <3>1 DEF Deliver
    <2>5. requests[r].llm \in {NoText, requests[r].prompt}
      BY <2>2 DEF LInv, OwnAnswers
    <2>6. config.leader /\ ~ Shared(r) => requests[r].llm = d.text
      BY <1>1, <2>1 DEF Deliver, LInv, AboutProposals, Said
    <2>7. \/ e.text = e.agreed
          \/ e.text = e.prompt /\ (config.leader => Shared(e.request))
      BY <2>3, <2>5, <2>6 DEF FinalText
    <2>8. stored \in Seq(Record)
      BY DEF LInv, IInv, Types
    <2>9. \A k \in DOMAIN stored' :
            stored'[k] = IF k \in DOMAIN stored THEN stored[k] ELSE e
      BY <2>4, <2>8
    <2> QED
      BY <1>0, <2>7, <2>9 DEF StoredIsAgreed
  <1>2. CASE stored' = stored
    BY <1>0, <1>2 DEF StoredIsAgreed
  <1>3. stored' # stored => \E d \in Data : Deliver(d)
    BY DEF Next, vars, ProcessPrompt, HandleMessages, Engine, Enter, AskLLM, AskRole,
           Propose, Receive, Create, Process, Handle
  <1> QED
    BY <1>1, <1>2, <1>3

LEMMA InitLeader == Init => LInv /\ StoredIsAgreed
  <1> SUFFICES ASSUME Init PROVE LInv /\ StoredIsAgreed
    OBVIOUS
  <1>1. IInv
    BY InitSafe
  <1>2. OwnAnswers
    BY CallsAssumption DEF Init, OwnAnswers
  <1> QED
    BY <1>1, <1>2 DEF Init, LInv, Made, Said, AboutProposals, Finished, StoredIsAgreed

THEOREM LeaderInvariance == Spec => []LInv
  <1>1. Init => LInv
    BY InitLeader
  <1>2. LInv /\ [Next]_vars => LInv'
    BY LeaderSafe
  <1> QED
    BY <1>1, <1>2, PTL DEF Spec

\* What goes on IPFS is the text the nodes agreed on (oracle_node.go:224), or
\* the answer to the prompt in the record, and that only where a node other
\* than the leader stores, or a second call has passed the ID.
THEOREM StoredTextsAreAgreed == Spec => []StoredIsAgreed
  <1>1. Init => StoredIsAgreed
    BY InitLeader
  <1>2. LInv /\ StoredIsAgreed /\ [Next]_vars => StoredIsAgreed'
    BY StoredSafe
  <1> QED
    BY <1>1, <1>2, LeaderInvariance, PTL DEF Spec

\* A request that is complete at the leader stays complete: no late vote,
\* second result or error of a call (oracle_node.go, the assignments of
\* state.Status) takes it back, unless its ID is passed twice.
THEOREM CompleteStays == Spec => LeaderCompleteStays
  <1>1. ASSUME LInv, [Next]_vars
        PROVE  config.leader =>
                 \A r \in DOMAIN requests :
                   requests[r].status = "complete" /\ ~ Shared(r) =>
                     requests'[r].status = "complete"
    BY <1>1, AnsweredKept DEF LInv, Finished
  <1>2. LInv /\ [Next]_vars =>
          [config.leader =>
             \A r \in DOMAIN requests :
               requests[r].status = "complete" /\ ~ Shared(r) =>
                 requests'[r].status = "complete"]_vars
    BY <1>1
  <1> QED
    BY <1>2, LeaderInvariance, PTL DEF Spec, LeaderCompleteStays
=============================================================================
