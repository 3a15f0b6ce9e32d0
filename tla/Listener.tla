------------------------------- MODULE Listener -------------------------------
(***************************************************************************)
(* The road of a request outside the oracle nodes: a caller                *)
(* (scripts/caller.go) puts it into the contract, the listener             *)
(* (monitorBlockchain of scripts/main.go) finds its event, has the oracle  *)
(* answer it and sends the answer to the contract, the caller waits for    *)
(* the event of the answer.                                                *)
(*                                                                         *)
(* The chain is external: a block holds one transaction, blocks are final, *)
(* the listener's transactions are mined in the order of their nonces. The *)
(* oracle is one call that returns a CID, the empty CID (nothing was       *)
(* stored) or an error, or that never returns. Polling is a step that may be taken at any time.   *)
(***************************************************************************)
EXTENDS OracleContract, Integers, Sequences

CONSTANTS
  Lookback,      \* blocks that a fresh listener looks back, 100 in the code
  UintModulus,   \* 2^64
  FirstHeights,  \* heights of the chain when it is first looked at
  Callers,       \* the requests that come from a caller of caller.go
  MaxBlocks,     \* bound: the height up to which others have blocks mined
  MaxFailures,   \* bound: calls of the listener that fail
  MaxCrashes     \* bound: crashes of the listener

ASSUME ListenerAssumption ==
  /\ UintModulus \in Nat \ {0}
  /\ Lookback \in 0 .. UintModulus - 1
  /\ FirstHeights \subseteq Nat \ {0}
  /\ Callers \subseteq Ids
  /\ {MaxBlocks, MaxFailures, MaxCrashes} \subseteq Nat

VARIABLES
  height,        \* the number of the last block
  createdAt,     \* the block of the request's event, 0 if there is none
  answeredAt,    \* the block of the answer's event, 0 if there is none
  mempool,       \* the listener's transactions that are not mined yet
  at,            \* where the listener is
  lastBlock, currentBlock,  \* as in monitorBlockchain
  logs,          \* the requests whose events are not processed yet
  answer,        \* what the oracle answered to the first of them
  scanStart,     \* history: this listener looks at the blocks behind this one
  givenUp,       \* history: requests that a failed step left without answer
  failures, crashes,
  caller         \* per request: where its caller is, lastCheckedBlock, and as
                 \* history whether it was answered before its caller waited

chainVars    == <<height, createdAt, answeredAt, mempool>>
scanVars     == <<lastBlock, currentBlock, scanStart>>
listenerVars == <<at, scanVars, logs, answer, givenUp, failures, crashes>>
vars         == <<contractVars, chainVars, listenerVars, caller>>

Blocks == 0 .. UintModulus - 1

Init ==
  /\ ContractInit
  /\ height \in FirstHeights
  /\ createdAt = [id \in Ids |-> 0]
  /\ answeredAt = [id \in Ids |-> 0]
  /\ mempool = <<>>
  /\ at = "down"
  /\ lastBlock = 0 /\ currentBlock = 0 /\ scanStart = 0
  /\ logs = {}
  /\ answer = NoCid
  /\ givenUp = {}
  /\ failures = 0 /\ crashes = 0
  /\ caller = [id \in Callers |-> [at |-> "sent", checked |-> 0, late |-> FALSE]]

-----------------------------------------------------------------------------
(* Blocks. *)

\* A transaction of caller.go or of another client. One that reverts is left
\* out, and so is its caller, who waits for an answer to the ID 0.
MineRequest(id, value) ==
  /\ height < MaxBlocks
  /\ CreateRequest(id, value)
  /\ height' = height + 1
  /\ createdAt' = [createdAt EXCEPT ![id] = height + 1]
  /\ UNCHANGED <<answeredAt, mempool, listenerVars, caller>>

\* What the contract's owner or anybody else does; or, with a payment of 0,
\* nothing. Answers of an account that takes the oracle's place are left out.
MineOther ==
  /\ height < MaxBlocks
  /\ height' = height + 1
  /\ \/ \E a \in Accounts : UpdateOracleAddress(a)
     \/ \E value \in Payments : ReceivePayment(value)
  /\ UNCHANGED <<createdAt, answeredAt, mempool, listenerVars, caller>>

\* A transaction that reverts is in the block as well, without an event.
MineResponse ==
  LET tx == Head(mempool) IN
  /\ mempool # <<>>
  /\ mempool' = Tail(mempool)
  /\ height' = height + 1
  /\ \/ /\ SubmitResponse(Key, tx.id, tx.cid)
        /\ answeredAt' = [answeredAt EXCEPT ![tx.id] = height + 1]
        /\ UNCHANGED givenUp
     \/ /\ ~ MaySubmit(Key, tx.id, tx.cid)
        /\ givenUp' = givenUp \cup ({tx.id} \cap Open)
        /\ UNCHANGED <<contractVars, answeredAt>>
  /\ UNCHANGED <<createdAt, at, scanVars, logs, answer, failures, crashes, caller>>

-----------------------------------------------------------------------------
(* monitorBlockchain. *)

Start ==
  /\ at = "down"
  /\ at' = "idle"
  /\ UNCHANGED <<contractVars, chainVars, scanVars, logs, answer, givenUp, failures,
                 crashes, caller>>

\* The process ends; what it had not sent is lost.
Crash ==
  /\ at # "down"
  /\ crashes < MaxCrashes
  /\ crashes' = crashes + 1
  /\ at' = "down"
  /\ lastBlock' = 0 /\ currentBlock' = 0 /\ scanStart' = 0
  /\ logs' = {}
  /\ answer' = NoCid
  /\ UNCHANGED <<contractVars, chainVars, givenUp, failures, caller>>

\* Mutant of LookBack: a subtraction that does not wrap.
LookBackBelow(h) == h - Lookback + 0 * UintModulus

\* uint64 subtraction
LookBack(h) == (h + UintModulus - Lookback) % UintModulus

\* Mutant of Found: the block after the last one is left out.
FoundBehind(from, to) == {id \in Ids : createdAt[id] > from + 1 /\ createdAt[id] <= to}

\* The requests with an event in the blocks from + 1 to to.
Found(from, to) == {id \in Ids : createdAt[id] > from /\ createdAt[id] <= to}

\* Logs come in the order of their blocks.
First == CHOOSE id \in logs : \A other \in logs : createdAt[id] <= createdAt[other]

\* One tick, up to the logs. Where the range is empty, FilterLogs may return
\* nothing or an error; elsewhere an error is a failure. After an error the
\* next tick tries again, lastBlock having left 0 for good.
Tick ==
  LET from == IF lastBlock = 0 THEN LookBack(height) ELSE lastBlock IN
  /\ at = "idle"
  /\ lastBlock' = from
  /\ scanStart' = IF lastBlock = 0 THEN from ELSE scanStart
  /\ \/ /\ at' = "processing"
        /\ currentBlock' = height
        /\ logs' = Found(from, height)
        /\ UNCHANGED failures
     \/ /\ from >= height
        /\ UNCHANGED <<at, currentBlock, logs, failures>>
     \/ /\ failures < MaxFailures
        /\ failures' = failures + 1
        /\ UNCHANGED <<at, currentBlock, logs>>
  /\ UNCHANGED <<contractVars, chainVars, answer, givenUp, crashes, caller>>

\* A step of the loop body fails and the loop goes on with the next event.
GiveUp ==
  /\ failures < MaxFailures
  /\ failures' = failures + 1
  /\ givenUp' = givenUp \cup ({First} \cap Open)
  /\ logs' = logs \ {First}
  /\ at' = "processing"
  /\ answer' = NoCid

\* sendToOracle: the request is posted, without a timeout or a deadline.
Ask ==
  /\ at = "processing"
  /\ logs # {}
  /\ at' = "asking"
  /\ UNCHANGED <<contractVars, chainVars, scanVars, logs, answer, givenUp, failures,
                 crashes, caller>>

\* The oracle answers, with a CID or without, or the call fails.
OracleAnswers ==
  /\ at = "asking"
  /\ \/ /\ answer' \in Cids
        /\ at' = "answered"
        /\ UNCHANGED <<logs, givenUp, failures>>
     \/ /\ failures < MaxFailures
        /\ failures' = failures + 1
        /\ answer' = NoCid
        /\ at' = "answered"
        /\ UNCHANGED <<logs, givenUp>>
     \/ GiveUp
  /\ UNCHANGED <<contractVars, chainVars, scanVars, crashes, caller>>

\* createTransactionAuth and Transact: the transaction is sent, not mined.
Submit ==
  /\ at = "answered"
  /\ \/ /\ mempool' = Append(mempool, [id |-> First, cid |-> answer])
        /\ logs' = logs \ {First}
        /\ answer' = NoCid
        /\ at' = "processing"
        /\ UNCHANGED <<givenUp, failures>>
     \/ GiveUp /\ UNCHANGED mempool
  /\ UNCHANGED <<contractVars, height, createdAt, answeredAt, scanVars, crashes, caller>>

Finish ==
  /\ at = "processing"
  /\ logs = {}
  /\ at' = "idle"
  /\ lastBlock' = currentBlock
  /\ currentBlock' = 0
  /\ scanStart' = IF scanStart > currentBlock THEN currentBlock ELSE scanStart
  /\ UNCHANGED <<contractVars, chainVars, logs, answer, givenUp, failures, crashes,
                 caller>>

Monitor == Tick \/ Ask \/ Submit \/ Finish

-----------------------------------------------------------------------------
(* The caller of a request. *)

\* Mutant of Heard: the last block checked is not looked at again.
HeardSince(id, from, to) == answeredAt[id] > from /\ answeredAt[id] <= to

Heard(id, from, to) == answeredAt[id] >= from /\ answeredAt[id] <= to

\* The transaction is mined, and waitForResponse reads the block number.
Wait(id) ==
  /\ caller[id].at = "sent"
  /\ createdAt[id] # 0
  /\ caller' = [caller EXCEPT ![id] =
                  [at |-> "waiting", checked |-> height,
                   late |-> Heard(id, 1, height - 1)]]
  /\ UNCHANGED <<contractVars, chainVars, listenerVars>>

\* With the response or with an error: the program ends in both cases.
Return(id) ==
  caller' = [caller EXCEPT ![id] = [at |-> "returned", checked |-> 0, late |-> FALSE]]

Poll(id) ==
  LET from == caller[id].checked IN
  /\ caller[id].at = "waiting"
  /\ height # from
  /\ \/ /\ Heard(id, from, height)
        /\ Return(id)
     \/ /\ ~ Heard(id, from, height)
        /\ caller' = [caller EXCEPT ![id].checked = height]
  /\ UNCHANGED <<contractVars, chainVars, listenerVars>>

Timeout(id) ==
  /\ caller[id].at = "waiting"
  /\ Return(id)
  /\ UNCHANGED <<contractVars, chainVars, listenerVars>>

-----------------------------------------------------------------------------
Next ==
  \/ \E id \in Ids, value \in Payments : MineRequest(id, value)
  \/ MineOther \/ MineResponse
  \/ Start \/ Crash \/ Monitor \/ OracleAnswers
  \/ \E id \in Callers : Wait(id) \/ Poll(id) \/ Timeout(id)

Spec == Init /\ [][Next]_vars

\* The ticker ticks and the chain mines what it has; nobody has to start the
\* listener again, and the oracle does not have to answer.
FairSpec == Spec /\ WF_vars(Monitor) /\ WF_vars(MineResponse)

-----------------------------------------------------------------------------
(* Properties. *)

\* The types; block numbers are 64 bits wide, also where a young chain makes
\* the first subtraction of monitorBlockchain wrap.
TypeOK ==
  /\ requests \in [Ids -> Request]
  /\ oracleAddress \in Accounts
  /\ balance \in Nat
  /\ {height, lastBlock, currentBlock, scanStart} \subseteq Blocks
  /\ createdAt \in [Ids -> Blocks]
  /\ answeredAt \in [Ids -> Blocks]
  /\ mempool \in Seq([id : Ids, cid : Cids \cup {NoCid}])
  /\ at \in {"down", "idle", "processing", "asking", "answered"}
  /\ logs \subseteq Ids
  /\ answer \in Cids \cup {NoCid}
  /\ givenUp \subseteq Ids
  /\ caller \in [Callers -> [at : {"sent", "waiting", "returned"},
                         checked : Blocks, late : BOOLEAN]]

\* An answer on the chain is final, though a listener that was started again
\* has the oracle answer the requests of the last hundred blocks once more.
AnswerStays ==
  [][\A id \in Ids : requests[id].fulfilled =>
       requests'[id].fulfilled /\ requests'[id].response = requests[id].response]_vars

\* The listener passes no request by: one in a block it counts as scanned is
\* answered, has its answer on the way, or is one that a step failed for.
NothingPassedBy ==
  \A id \in Found(scanStart, lastBlock) :
    \/ requests[id].fulfilled
    \/ \E k \in DOMAIN mempool : mempool[k].id = id
    \/ id \in givenUp

\* A caller that waits has not passed its answer by: the ranges it asked for
\* cover every block from the one in which it began to wait. (An answer from
\* before that block it never finds.)
CallerPassesNothingBy ==
  \A id \in Callers :
    caller[id].at = "waiting" /\ answeredAt[id] # 0 /\ ~ caller[id].late =>
      answeredAt[id] >= caller[id].checked

\* README.md:22, the caller waits for the response: every request gets its
\* answer, unless a step failed for it, or it is in a block that the listener
\* does not look at, or no listener runs, or a call of the oracle never
\* returns: that one call then holds up every other request.
EveryRequestSettles ==
  \/ <>[](at = "asking")
  \/ \A id \in Ids :
       (createdAt[id] # 0) ~>
         (requests[id].fulfilled \/ id \in givenUp \/ createdAt[id] <= scanStart
          \/ at = "down")
===============================================================================
