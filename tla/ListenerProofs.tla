---------------------------- MODULE ListenerProofs ----------------------------
(***************************************************************************)
(* Proofs about Listener, for any requests, fee, look-back and width of    *)
(* the block numbers, and any number of blocks, failures and crashes.      *)
(*                                                                         *)
(* IInv is inductive. Recorded ties the two mappings of the contract to    *)
(* the blocks: submitResponse does not ask whether the request exists, so  *)
(* that an answer is final needs that the listener sends answers only for  *)
(* requests it found. Scanning says what the tick in progress has left to  *)
(* do; Scanned is NothingPassedBy. Types leaves the width of the block     *)
(* numbers out, as no assumption bounds the height of the chain; Fits,     *)
(* inductive with IInv, is about the numbers of a chain that does fit.     *)
(***************************************************************************)
EXTENDS Listener, FiniteSetTheorems, WellFoundedInduction, TLAPS

Tx == [id : Ids, cid : Cids \cup {NoCid}]

Types ==
  /\ requests \in [Ids -> Request]
  /\ oracleAddress \in Accounts
  /\ balance \in Nat
  /\ height \in Nat
  /\ createdAt \in [Ids -> Nat]
  /\ answeredAt \in [Ids -> Nat]
  /\ mempool \in Seq(Tx)
  /\ at \in {"down", "idle", "processing", "asking", "answered"}
  /\ lastBlock \in Nat /\ currentBlock \in Nat /\ scanStart \in Nat
  /\ logs \subseteq Ids
  /\ answer \in Cids \cup {NoCid}
  /\ givenUp \subseteq Ids
  /\ caller \in [Callers -> [at : {"sent", "waiting", "returned"},
                             checked : Nat, late : BOOLEAN]]

Recorded ==
  /\ \A id \in Ids :
       /\ requests[id].requester <=> createdAt[id] # 0
       /\ requests[id].fulfilled => requests[id].requester
       /\ createdAt[id] <= height /\ answeredAt[id] <= height
  /\ \A k \in DOMAIN mempool : requests[mempool[k].id].requester

\* The listener is done with a request.
Settled(id) ==
  \/ requests[id].fulfilled
  \/ \E k \in DOMAIN mempool : mempool[k].id = id
  \/ id \in givenUp

Processing == {"processing", "asking", "answered"}

Scanning ==
  /\ lastBlock <= height \/ lastBlock = scanStart
  /\ at = "down" => lastBlock = 0 /\ scanStart = 0
  /\ at \in {"asking", "answered"} => logs # {}
  /\ at \in Processing =>
       /\ currentBlock <= height
       /\ \A id \in Found(lastBlock, currentBlock) : id \in logs \/ Settled(id)
  /\ \A id \in logs : requests[id].requester

Scanned == \A id \in Found(scanStart, lastBlock) : Settled(id)

Waiting ==
  \A id \in Callers :
    caller[id].at = "waiting" =>
      /\ caller[id].checked <= height
      /\ answeredAt[id] # 0 /\ ~ caller[id].late =>
           answeredAt[id] >= caller[id].checked

IInv == Types /\ Recorded /\ Scanning /\ Scanned /\ Waiting /\ Solvent

-----------------------------------------------------------------------------
(* The operators. *)

LEMMA OpenFinite == IsFiniteSet(Open) /\ Cardinality(Open) \in Nat
  <1>1. Open \subseteq Ids /\ IsFiniteSet(Ids)
    BY ContractAssumption DEF Open
  <1> QED
    BY <1>1, FS_Subset, FS_CardinalityType

LEMMA Least ==
  ASSUME NEW T \in SUBSET Nat, T # {}
  PROVE  \E x \in T : \A y \in T : x <= y
  <1> DEFINE R == {p \in Nat \X Nat : p[1] < p[2]}
  <1>1. IsWellFoundedOn(R, Nat)
    BY NatLessThanWellFounded DEF OpToRel
  <1> HIDE DEF R
  <1>2. PICK x \in T : \A y \in T : <<y, x>> \notin R
    BY <1>1, WFMin
  <1>3. \A y \in T : x <= y
    <2> TAKE y \in T
    <2>1. x \in Nat /\ y \in Nat /\ <<y, x>> \notin R
      BY <1>2
    <2>2. ~ (y < x)
      BY <2>1 DEF R
    <2> QED
      BY <2>1, <2>2
  <1> QED
    BY <1>2, <1>3

\* The first log is one of the logs.
LEMMA FirstIsThere ==
  ASSUME Types, logs # {}
  PROVE  First \in logs
  <1> DEFINE T == {createdAt[id] : id \in logs}
  <1>1. T \in SUBSET Nat /\ T # {}
    BY DEF Types
  <1>2. PICK x \in T : \A y \in T : x <= y
    BY <1>1, Least
  <1>3. PICK id \in logs : createdAt[id] = x
    BY <1>2
  <1>4. \A other \in logs : createdAt[id] <= createdAt[other]
    BY <1>2, <1>3
  <1> QED
    BY <1>4 DEF First

LEMMA LookBackType ==
  ASSUME NEW h \in Nat
  PROVE  LookBack(h) \in Nat
  BY ListenerAssumption DEF LookBack

LEMMA MempoolIds ==
  ASSUME Types
  PROVE  \A k \in DOMAIN mempool : mempool[k] \in Tx /\ mempool[k].id \in Ids
  <1>1. mempool \in Seq(Tx)
    BY DEF Types
  <1>2. \A k \in DOMAIN mempool : mempool[k] \in Tx
    BY <1>1
  <1> QED
    BY <1>2 DEF Tx

LEMMA QueueEnds ==
  ASSUME NEW q \in Seq(Tx), q # <<>>
  PROVE  /\ Head(q) \in Tx /\ Tail(q) \in Seq(Tx)
         /\ Head(q) = q[1] /\ 1 \in DOMAIN q
         /\ \A k \in DOMAIN Tail(q) : k + 1 \in DOMAIN q /\ Tail(q)[k] = q[k + 1]
         /\ \A k \in DOMAIN q \ {1} : k - 1 \in DOMAIN Tail(q) /\ Tail(q)[k - 1] = q[k]
  OBVIOUS

LEMMA AppendPlaces ==
  ASSUME NEW q \in Seq(Tx), NEW e \in Tx
  PROVE  /\ Append(q, e) \in Seq(Tx)
         /\ Len(q) + 1 \in DOMAIN Append(q, e)
         /\ Append(q, e)[Len(q) + 1] = e
         /\ \A k \in DOMAIN q : k \in DOMAIN Append(q, e) /\ Append(q, e)[k] = q[k]
         /\ \A k \in DOMAIN Append(q, e) :
              Append(q, e)[k] = IF k \in DOMAIN q THEN q[k] ELSE e
  OBVIOUS

\* A step that leaves the contract alone keeps what its money has to cover.
LEMMA SolventStays ==
  ASSUME Solvent, UNCHANGED <<requests, balance>>
  PROVE  Solvent'
  BY DEF Solvent, Open

-----------------------------------------------------------------------------
(* IInv is inductive. *)

LEMMA InitSafe == Init => IInv
  <1> SUFFICES ASSUME Init PROVE IInv
    OBVIOUS
  <1> USE DEF Init, ContractInit
  <1>1. Types
    BY ContractAssumption, ListenerAssumption DEF Types, Request, Zero
  <1>2. Recorded
    BY <1>1 DEF Recorded, Types, Zero
  <1>3. Scanning /\ Scanned
    BY <1>1 DEF Scanning, Scanned, Found, Types
  <1>4. Waiting
    BY DEF Waiting
  <1>5. Solvent
    <2>1. Open = {}
      BY DEF Open, Zero
    <2> QED
      BY <2>1, FS_EmptySet, ContractAssumption DEF Solvent
  <1> QED
    BY <1>1, <1>2, <1>3, <1>4, <1>5 DEF IInv

LEMMA RequestSafe ==
  ASSUME IInv, NEW i \in Ids, NEW value \in Payments, MineRequest(i, value)
  PROVE  IInv'
  <1> DEFINE new == [Zero EXCEPT !.requester = TRUE]
  <1>1. /\ value \in Nat /\ Fee \in Nat /\ value >= Fee
        /\ ~ requests[i].requester
        /\ requests' = [requests EXCEPT ![i] = new]
        /\ balance' = balance + value
        /\ height' = height + 1
        /\ createdAt' = [createdAt EXCEPT ![i] = height + 1]
        /\ UNCHANGED <<oracleAddress, answeredAt, mempool, listenerVars, caller>>
    BY ContractAssumption DEF MineRequest, CreateRequest, MayCreate
  <1>2. new \in Request /\ new.requester /\ ~ new.fulfilled
    BY DEF Request, Zero
  <1> HIDE DEF new
  <1> USE DEF listenerVars, scanVars
  <1>3. /\ balance \in Nat /\ height \in Nat /\ height + 1 \in Nat
        /\ requests \in [Ids -> Request] /\ createdAt \in [Ids -> Nat]
        /\ answeredAt \in [Ids -> Nat]
    BY DEF IInv, Types
  <1>4. Types'
    <2>1. balance' \in Nat /\ height' \in Nat
      BY <1>1, <1>3
    <2>2. requests' \in [Ids -> Request]
      BY <1>1, <1>2, <1>3
    <2>3. createdAt' \in [Ids -> Nat]
      BY <1>1, <1>3
    <2> QED
      BY <1>1, <2>1, <2>2, <2>3 DEF IInv, Types
  <1>5. Recorded'
    <2>1. ASSUME NEW id \in Ids
          PROVE  (/\ requests[id].requester <=> createdAt[id] # 0
                  /\ requests[id].fulfilled => requests[id].requester
                  /\ createdAt[id] <= height /\ answeredAt[id] <= height)'
      <3>1. /\ requests[id].requester <=> createdAt[id] # 0
            /\ requests[id].fulfilled => requests[id].requester
            /\ createdAt[id] <= height /\ answeredAt[id] <= height
        BY DEF IInv, Recorded
      <3>2. CASE id = i
        BY <1>1, <1>2, <1>3, <3>1, <3>2
      <3>3. CASE id # i
        BY <1>1, <1>3, <3>1, <3>3
      <3> QED
        BY <3>2, <3>3
    <2>2. \A k \in DOMAIN mempool' : requests'[mempool'[k].id].requester
      <3>1. \A k \in DOMAIN mempool : mempool[k].id \in Ids
        BY MempoolIds DEF IInv
      <3> QED
        BY <1>1, <1>2, <1>3, <3>1 DEF IInv, Recorded
    <2> QED
      BY <2>1, <2>2 DEF Recorded
  <1>6. ASSUME NEW id \in Ids, Settled(id) PROVE Settled(id)'
    <2>1. requests[id].fulfilled => id # i
      BY <1>1 DEF IInv, Recorded
    <2> QED
      BY <1>1, <1>3, <1>6, <2>1 DEF Settled
  <1>7. ASSUME NEW from \in Nat, NEW to \in Nat, to <= height \/ to = from
        PROVE  Found(from, to)' = Found(from, to)
    <2>1. createdAt[i] = 0
      BY <1>1 DEF IInv, Recorded
    <2>2. \A id \in Ids \ {i} : createdAt'[id] = createdAt[id]
      BY <1>1, <1>3
    <2>3. createdAt'[i] = height + 1
      BY <1>1, <1>3
    <2> QED
      BY <1>3, <1>7, <2>1, <2>2, <2>3 DEF Found
  <1>8. /\ lastBlock \in Nat /\ currentBlock \in Nat /\ scanStart \in Nat
        /\ logs \subseteq Ids /\ \A from, to \in Nat : Found(from, to) \subseteq Ids
    BY DEF IInv, Types, Found
  <1>9. Scanning'
    <2>1. lastBlock' <= height' \/ lastBlock' = scanStart'
      BY <1>1, <1>3, <1>8 DEF IInv, Scanning
    <2>2. at \in Processing =>
            /\ currentBlock' <= height'
            /\ \A id \in Found(lastBlock, currentBlock)' : id \in logs' \/ Settled(id)'
      BY <1>1, <1>3, <1>6, <1>7, <1>8 DEF IInv, Scanning
    <2>3. \A id \in logs' : requests'[id].requester
      BY <1>1, <1>2, <1>3, <1>8 DEF IInv, Scanning
    <2> QED
      BY <1>1, <2>1, <2>2, <2>3 DEF IInv, Scanning
  <1>10. Scanned'
    BY <1>1, <1>6, <1>7, <1>8 DEF IInv, Scanning, Scanned
  <1>11. Waiting'
    BY <1>1, <1>3 DEF IInv, Waiting, Types
  <1>12. Solvent'
    <2>1. Open' = Open \cup {i} /\ i \notin Open
      BY <1>1, <1>2, <1>3 DEF Open
    <2>2. Cardinality(Open') = Cardinality(Open) + 1
      BY <2>1, OpenFinite, FS_AddElement
    <2>3. balance >= Fee * Cardinality(Open)
      BY DEF IInv, Solvent
    <2> DEFINE c == Cardinality(Open)
    <2>4. c \in Nat
      BY OpenFinite
    <2>5. Fee * (c + 1) = Fee * c + Fee /\ Fee * c \in Nat
      BY <1>1, <2>4
    <2> HIDE DEF c
    <2>6. balance + value >= Fee * (c + 1)
      BY <1>1, <1>3, <2>3, <2>5 DEF c
    <2> QED
      BY <1>1, <2>2, <2>6 DEF Solvent, c
  <1> QED
    BY <1>4, <1>5, <1>9, <1>10, <1>11, <1>12 DEF IInv

LEMMA OtherSafe ==
  ASSUME IInv, MineOther
  PROVE  IInv'
  <1> USE DEF listenerVars, scanVars
  <1>1. /\ balance \in Nat /\ height \in Nat /\ height + 1 \in Nat
        /\ answeredAt \in [Ids -> Nat] /\ createdAt \in [Ids -> Nat]
        /\ lastBlock \in Nat /\ currentBlock \in Nat
    BY DEF IInv, Types
  <1>2. /\ height' = height + 1
        /\ UNCHANGED <<requests, createdAt, answeredAt, mempool, listenerVars, caller>>
    BY DEF MineOther, UpdateOracleAddress, ReceivePayment
  <1>3. balance' \in Nat /\ balance' >= balance /\ oracleAddress' \in Accounts
    BY <1>1, ContractAssumption
      DEF MineOther, UpdateOracleAddress, ReceivePayment, IInv, Types
  <1>4. Types'
    BY <1>1, <1>2, <1>3 DEF IInv, Types
  <1>5. Recorded'
    BY <1>1, <1>2 DEF IInv, Recorded
  <1>6. Scanning' /\ Scanned'
    BY <1>1, <1>2 DEF IInv, Scanning, Scanned, Settled, Found
  <1>7. Waiting'
    BY <1>1, <1>2 DEF IInv, Waiting, Types
  <1>8. Solvent'
    <2>1. Open' = Open
      BY <1>2 DEF Open
    <2>2. balance >= Fee * Cardinality(Open)
      BY DEF IInv, Solvent
    <2>3. Fee * Cardinality(Open) \in Nat
      BY OpenFinite, ContractAssumption
    <2>4. balance' >= Fee * Cardinality(Open)
      BY <1>1, <1>3, <2>2, <2>3
    <2> QED
      BY <2>1, <2>4 DEF Solvent
  <1> QED
    BY <1>4, <1>5, <1>6, <1>7, <1>8 DEF IInv

\* The transaction that answers, and the one that reverts.
LEMMA ResponseSafe ==
  ASSUME IInv, MineResponse
  PROVE  IInv'
  <1> DEFINE tx == Head(mempool)
             i  == tx.id
  <1>1. /\ mempool \in Seq(Tx) /\ mempool # <<>>
        /\ height \in Nat /\ balance \in Nat /\ Fee \in Nat
        /\ requests \in [Ids -> Request]
        /\ answeredAt \in [Ids -> Nat] /\ createdAt \in [Ids -> Nat]
        /\ lastBlock \in Nat /\ currentBlock \in Nat
    BY ContractAssumption DEF MineResponse, IInv, Types
  <1>2. /\ tx \in Tx /\ Tail(mempool) \in Seq(Tx)
        /\ tx = mempool[1] /\ 1 \in DOMAIN mempool
        /\ \A k \in DOMAIN Tail(mempool) :
             k + 1 \in DOMAIN mempool /\ Tail(mempool)[k] = mempool[k + 1]
        /\ \A k \in DOMAIN mempool \ {1} :
             k - 1 \in DOMAIN Tail(mempool) /\ Tail(mempool)[k - 1] = mempool[k]
    BY <1>1, QueueEnds
  <1>3. i \in Ids /\ tx.cid \in Cids \cup {NoCid} /\ requests[i].requester
    BY <1>2 DEF Tx, IInv, Recorded
  <1>4. /\ mempool' = Tail(mempool) /\ height' = height + 1
        /\ UNCHANGED <<createdAt, at, scanVars, logs, answer, caller, oracleAddress>>
        /\ \/ /\ SubmitResponse(Key, i, tx.cid)
              /\ answeredAt' = [answeredAt EXCEPT ![i] = height + 1]
              /\ UNCHANGED givenUp
           \/ /\ ~ MaySubmit(Key, i, tx.cid)
              /\ givenUp' = givenUp \cup ({i} \cap Open)
              /\ UNCHANGED <<contractVars, answeredAt>>
    BY DEF MineResponse, SubmitResponse, contractVars
  <1> HIDE DEF tx, i
  <1> USE DEF scanVars
  <1>5. \A k \in DOMAIN mempool' : requests[mempool'[k].id].requester /\ mempool'[k].id \in Ids
    BY <1>1, <1>2, <1>4, MempoolIds DEF IInv, Recorded
  <1>6. ASSUME NEW id \in Ids \ {i}, NEW j \in DOMAIN mempool, mempool[j].id = id
        PROVE  \E k \in DOMAIN mempool' : mempool'[k].id = id
    <2>1. j \in DOMAIN mempool \ {1}
      BY <1>2, <1>6 DEF i
    <2>2. j - 1 \in DOMAIN mempool' /\ mempool'[j - 1].id = id
      BY <1>2, <1>4, <1>6, <2>1
    <2> QED
      BY <2>2
  <1>7. CASE SubmitResponse(Key, i, tx.cid) /\ UNCHANGED givenUp
                /\ answeredAt' = [answeredAt EXCEPT ![i] = height + 1]
    <2>1. /\ ~ requests[i].fulfilled /\ balance >= Fee
          /\ requests' = [requests EXCEPT ![i].fulfilled = TRUE,
                                          ![i].response = tx.cid]
          /\ balance' = balance - Fee
      BY <1>7 DEF SubmitResponse, MaySubmit
    <2>2. /\ requests' \in [Ids -> Request]
          /\ requests'[i].fulfilled /\ requests'[i].requester
          /\ \A id \in Ids \ {i} : requests'[id] = requests[id]
      BY <1>1, <1>3, <2>1 DEF Request
    <2>3. /\ answeredAt' \in [Ids -> Nat]
          /\ answeredAt'[i] = height + 1
          /\ \A id \in Ids \ {i} : answeredAt'[id] = answeredAt[id]
      BY <1>1, <1>3, <1>7
    <2>4. Types'
      <3>1. balance' \in Nat
        BY <2>1, ContractAssumption DEF IInv, Types
      <3> QED
        BY <1>1, <1>2, <1>4, <1>7, <2>2, <2>3, <3>1 DEF IInv, Types
    <2>5. Recorded'
      <3>1. ASSUME NEW id \in Ids
            PROVE  (/\ requests[id].requester <=> createdAt[id] # 0
                    /\ requests[id].fulfilled => requests[id].requester
                    /\ createdAt[id] <= height /\ answeredAt[id] <= height)'
        <4>1. /\ requests[id].requester <=> createdAt[id] # 0
              /\ requests[id].fulfilled => requests[id].requester
              /\ createdAt[id] <= height /\ answeredAt[id] <= height
          BY DEF IInv, Recorded
        <4>2. CASE id = i
          BY <1>1, <1>3, <1>4, <2>2, <2>3, <4>1, <4>2
        <4>3. CASE id # i
          BY <1>1, <1>4, <2>2, <2>3, <4>1, <4>3
        <4> QED
          BY <4>2, <4>3
      <3>2. \A k \in DOMAIN mempool' : requests'[mempool'[k].id].requester
        BY <1>5, <2>2
      <3> QED
        BY <3>1, <3>2 DEF Recorded
    <2>6. ASSUME NEW id \in Ids, Settled(id) PROVE Settled(id)'
      <3>1. CASE id = i
        BY <2>2, <3>1 DEF Settled
      <3>2. CASE id # i
        BY <1>7, <1>6, <2>2, <2>6, <3>2 DEF Settled
      <3> QED
        BY <3>1, <3>2
    <2>7. Scanning' /\ Scanned'
      <3>1. /\ Found(lastBlock, currentBlock)' = Found(lastBlock, currentBlock)
            /\ Found(scanStart, lastBlock)' = Found(scanStart, lastBlock)
            /\ Found(lastBlock, currentBlock) \subseteq Ids
            /\ Found(scanStart, lastBlock) \subseteq Ids
            /\ logs \subseteq Ids
        BY <1>4 DEF Found, IInv, Types
      <3>2. Scanned'
        BY <2>6, <3>1 DEF IInv, Scanned
      <3>3. \A id \in logs' : requests'[id].requester
        BY <1>4, <2>2, <3>1 DEF IInv, Scanning
      <3>4. Scanning'
        BY <1>1, <1>4, <2>6, <3>1, <3>3 DEF IInv, Scanning
      <3> QED
        BY <3>2, <3>4
    <2>8. Waiting'
      <3>1. \A id \in Callers : id \in Ids /\ caller[id].checked \in Nat
        BY ListenerAssumption DEF IInv, Types
      <3>2. ASSUME NEW id \in Callers, caller[id].at = "waiting"
            PROVE  (/\ caller[id].checked <= height
                    /\ answeredAt[id] # 0 /\ ~ caller[id].late =>
                         answeredAt[id] >= caller[id].checked)'
        BY <1>1, <1>4, <2>3, <3>1, <3>2 DEF IInv, Waiting
      <3> QED
        BY <1>4, <3>2 DEF Waiting
    <2>9. Solvent'
      <3>1. Open' = Open \ {i} /\ i \in Open
        BY <1>1, <1>3, <2>1, <2>2 DEF Open
      <3>2. Cardinality(Open') = Cardinality(Open) - 1
        BY <3>1, OpenFinite, FS_RemoveElement
      <3>3. balance >= Fee * Cardinality(Open)
        BY DEF IInv, Solvent
      <3> DEFINE c == Cardinality(Open)
      <3>4. c \in Nat
        BY OpenFinite
      <3>5. Fee * (c - 1) = Fee * c - Fee /\ Fee * c \in Nat
        BY <1>1, <3>4
      <3> HIDE DEF c
      <3>6. balance - Fee >= Fee * (c - 1)
        BY <1>1, <3>3, <3>5 DEF c
      <3> QED
        BY <2>1, <3>2, <3>6 DEF Solvent, c
    <2> QED
      BY <2>4, <2>5, <2>7, <2>8, <2>9 DEF IInv
  <1>8. CASE givenUp' = givenUp \cup ({i} \cap Open) /\ UNCHANGED <<contractVars, answeredAt>>
    <2> USE DEF contractVars
    <2>1. Types'
      BY <1>1, <1>2, <1>3, <1>4, <1>8 DEF IInv, Types
    <2>2. Recorded'
      BY <1>1, <1>4, <1>5, <1>8 DEF IInv, Recorded
    <2>3. ASSUME NEW id \in Ids, Settled(id) PROVE Settled(id)'
      <3>1. CASE id = i
        BY <1>3, <1>8, <3>1 DEF Settled, Open
      <3>2. CASE id # i
        BY <1>8, <1>6, <2>3, <3>2 DEF Settled
      <3> QED
        BY <3>1, <3>2
    <2>4. Scanning' /\ Scanned'
      <3>1. /\ requests' = requests
            /\ Found(lastBlock, currentBlock)' \subseteq Ids
            /\ Found(scanStart, lastBlock)' \subseteq Ids
        BY <1>8 DEF Found
      <3>2. /\ Found(lastBlock, currentBlock)' = Found(lastBlock, currentBlock)
            /\ Found(scanStart, lastBlock)' = Found(scanStart, lastBlock)
        BY <1>4 DEF Found
      <3>3. Scanned'
        BY <2>3, <3>1, <3>2 DEF IInv, Scanned
      <3>4. Scanning'
        BY <1>1, <1>4, <2>3, <3>1, <3>2 DEF IInv, Scanning
      <3> QED
        BY <3>3, <3>4
    <2>5. Waiting'
      BY <1>1, <1>4, <1>8 DEF IInv, Waiting, Types
    <2>6. Solvent'
      BY <1>8, SolventStays DEF IInv
    <2> QED
      BY <2>1, <2>2, <2>4, <2>5, <2>6 DEF IInv
  <1> QED
    BY <1>4, <1>7, <1>8

\* What monitorBlockchain does leaves the contract and the callers alone.
LEMMA OutsideStays ==
  ASSUME IInv,
         UNCHANGED <<contractVars, height, createdAt, answeredAt, caller>>,
         \A k \in DOMAIN mempool' : requests[mempool'[k].id].requester
  PROVE  Recorded' /\ Waiting' /\ Solvent'
  <1> USE DEF contractVars
  <1>1. Solvent'
    BY SolventStays DEF IInv
  <1>2. Recorded' /\ Waiting'
    BY DEF IInv, Recorded, Waiting
  <1> QED
    BY <1>1, <1>2

\* What is settled stays settled while the listener works.
LEMMA SettledStays ==
  ASSUME requests' = requests, givenUp \subseteq givenUp',
         \A k \in DOMAIN mempool : k \in DOMAIN mempool' /\ mempool'[k] = mempool[k],
         NEW id, Settled(id)
  PROVE  Settled(id)'
  BY DEF Settled

LEMMA StartSafe ==
  ASSUME IInv, Start
  PROVE  IInv'
  <1> USE DEF chainVars, scanVars
  <1>1. Types'
    BY DEF Start, contractVars, IInv, Types
  <1>2. Recorded' /\ Waiting' /\ Solvent'
    BY OutsideStays DEF Start, IInv, Recorded
  <1>3. Scanning' /\ Scanned'
    BY DEF Start, contractVars, IInv, Scanning, Processing, Scanned, Found, Settled
  <1> QED
    BY <1>1, <1>2, <1>3 DEF IInv

LEMMA CrashSafe ==
  ASSUME IInv, Crash
  PROVE  IInv'
  <1> USE DEF chainVars
  <1>1. Types'
    BY DEF Crash, contractVars, IInv, Types
  <1>2. Recorded' /\ Waiting' /\ Solvent'
    BY OutsideStays DEF Crash, IInv, Recorded
  <1>3. Scanning' /\ Scanned'
    <2>1. height' \in Nat /\ createdAt' \in [Ids -> Nat]
      BY DEF Crash, IInv, Types
    <2> QED
      BY <2>1 DEF Crash, Scanning, Scanned, Found
  <1> QED
    BY <1>1, <1>2, <1>3 DEF IInv

LEMMA TickSafe ==
  ASSUME IInv, Tick
  PROVE  IInv'
  <1> DEFINE from == IF lastBlock = 0 THEN LookBack(height) ELSE lastBlock
  <1> USE DEF chainVars, contractVars
  <1>1. /\ height \in Nat /\ lastBlock \in Nat /\ scanStart \in Nat
        /\ createdAt \in [Ids -> Nat] /\ from \in Nat
    BY LookBackType DEF IInv, Types
  <1>2. /\ at = "idle" /\ lastBlock' = from
        /\ scanStart' = IF lastBlock = 0 THEN from ELSE scanStart
        /\ \/ at' = "processing" /\ currentBlock' = height /\ logs' = Found(from, height)
           \/ UNCHANGED <<at, currentBlock, logs>>
        /\ UNCHANGED <<requests, oracleAddress, balance, height, createdAt, answeredAt,
                       mempool, answer, givenUp, crashes, caller>>
    BY DEF Tick
  <1> HIDE DEF from
  <1>3. Types'
    <2>1. Found(from, height) \subseteq Ids
      BY DEF Found
    <2>2. scanStart' \in Nat /\ lastBlock' \in Nat /\ currentBlock' \in Nat
      BY <1>1, <1>2 DEF IInv, Types
    <2> QED
      BY <1>2, <2>1, <2>2 DEF IInv, Types
  <1>4. Recorded' /\ Waiting' /\ Solvent'
    BY <1>2, OutsideStays DEF IInv, Recorded
  <1>5. Scanned'
    <2>1. CASE lastBlock = 0
      BY <1>1, <1>2, <2>1 DEF Scanned, Found
    <2>2. CASE lastBlock # 0
      BY <1>2, <2>2 DEF IInv, Scanned, Found, Settled, from
    <2> QED
      BY <2>1, <2>2
  <1>6. Scanning'
    <2>1. lastBlock' <= height' \/ lastBlock' = scanStart'
      BY <1>2 DEF IInv, Scanning, from
    <2>2. CASE /\ at' = "processing" /\ currentBlock' = height
               /\ logs' = Found(from, height)
      <3>1. logs' = Found(lastBlock, currentBlock)' /\ currentBlock' <= height'
        BY <1>1, <1>2, <2>2 DEF Found
      <3>2. \A id \in logs' : id \in Ids /\ createdAt[id] # 0
        BY <1>1, <2>2 DEF Found
      <3>3. \A id \in logs' : requests'[id].requester
        BY <1>2, <3>2 DEF IInv, Recorded
      <3> QED
        BY <2>1, <2>2, <3>1, <3>3 DEF Scanning, Processing
    <2>3. CASE UNCHANGED <<at, currentBlock, logs>>
      BY <1>2, <2>1, <2>3 DEF IInv, Scanning, Processing
    <2> QED
      BY <1>2, <2>2, <2>3
  <1> QED
    BY <1>3, <1>4, <1>5, <1>6 DEF IInv

\* What the steps of the loop body have in common: the listener is done with
\* the first log, or keeps it.
LEMMA LogDone ==
  ASSUME IInv, at \in Processing,
         UNCHANGED <<contractVars, height, createdAt, answeredAt, scanVars, caller>>,
         Types', givenUp \subseteq givenUp',
         \A k \in DOMAIN mempool : k \in DOMAIN mempool' /\ mempool'[k] = mempool[k],
         \A k \in DOMAIN mempool' : requests[mempool'[k].id].requester,
         at' \in Processing, at' # "processing" => logs' # {},
         logs' \subseteq logs,
         \A id \in logs \ logs' : Settled(id)'
  PROVE  IInv'
  <1> USE DEF contractVars, scanVars
  <1>1. Recorded' /\ Waiting' /\ Solvent'
    BY OutsideStays
  <1>2. \A id : Settled(id) => Settled(id)'
    BY SettledStays
  <1>3. Scanned'
    BY <1>2 DEF IInv, Scanned, Found
  <1>4. \A id \in Found(lastBlock, currentBlock)' : id \in logs' \/ Settled(id)'
    BY <1>2 DEF IInv, Scanning, Found
  <1>5. Scanning'
    BY <1>4 DEF IInv, Scanning, Processing
  <1> QED
    BY <1>1, <1>3, <1>5 DEF IInv

\* A log that a failed step leaves behind is settled: it is given up, or was
\* answered before.
LEMMA GiveUpDone ==
  ASSUME IInv, GiveUp, logs # {}, UNCHANGED <<requests, mempool>>
  PROVE  /\ givenUp \subseteq givenUp' /\ givenUp' \subseteq Ids
         /\ logs' \subseteq logs
         /\ \A id \in logs \ logs' : Settled(id)'
  <1>1. First \in Ids /\ requests[First].requester
    BY FirstIsThere DEF IInv, Types, Scanning
  <1>2. /\ givenUp' = givenUp \cup ({First} \cap Open)
        /\ logs' = logs \ {First}
    BY DEF GiveUp
  <1>3. givenUp \subseteq Ids
    BY DEF IInv, Types
  <1> QED
    BY <1>1, <1>2, <1>3 DEF Settled, Open

LEMMA AskSafe ==
  ASSUME IInv, Ask
  PROVE  IInv'
  <1> USE DEF chainVars
  <1>1. /\ at = "processing" /\ logs # {} /\ at' = "asking"
        /\ UNCHANGED <<contractVars, chainVars, scanVars, logs, answer, givenUp,
                       crashes, caller>>
    BY DEF Ask
  <1>2. Types'
    BY <1>1 DEF IInv, Types, contractVars, scanVars
  <1>3. \A k \in DOMAIN mempool : requests[mempool[k].id].requester
    BY DEF IInv, Recorded
  <1> QED
    BY <1>1, <1>2, <1>3, LogDone DEF Processing, contractVars

LEMMA OracleAnswersSafe ==
  ASSUME IInv, OracleAnswers
  PROVE  IInv'
  <1> USE DEF chainVars
  <1>1. at = "asking" /\ logs # {}
    BY DEF OracleAnswers, IInv, Scanning
  <1>2. UNCHANGED <<contractVars, chainVars, scanVars, crashes, caller>>
    BY DEF OracleAnswers
  <1>3. requests' = requests /\ \A k \in DOMAIN mempool : requests[mempool[k].id].requester
    BY <1>2 DEF contractVars, IInv, Recorded
  <1>4. CASE GiveUp
    <2>1. /\ givenUp \subseteq givenUp' /\ givenUp' \subseteq Ids
          /\ logs' \subseteq logs
          /\ \A id \in logs \ logs' : Settled(id)'
      BY <1>1, <1>2, <1>3, <1>4, GiveUpDone
    <2>2. Types'
      BY <1>2, <1>4, <2>1 DEF IInv, Types, GiveUp, contractVars, scanVars
    <2> QED
      BY <1>1, <1>2, <1>3, <1>4, <2>1, <2>2, LogDone DEF GiveUp, Processing
  <1>5. CASE at' = "answered" /\ answer' \in Cids \cup {NoCid}
             /\ UNCHANGED <<logs, givenUp>>
    <2>1. Types'
      BY <1>2, <1>5 DEF IInv, Types, contractVars, scanVars
    <2> QED
      BY <1>1, <1>2, <1>3, <1>5, <2>1, LogDone DEF Processing
  <1> QED
    BY <1>4, <1>5 DEF OracleAnswers

LEMMA SubmitSafe ==
  ASSUME IInv, Submit
  PROVE  IInv'
  <1>1. at = "answered" /\ logs # {}
    BY DEF Submit, IInv, Scanning
  <1>2. UNCHANGED <<contractVars, height, createdAt, answeredAt, scanVars, crashes,
                    caller>>
    BY DEF Submit
  <1>3. requests' = requests /\ \A k \in DOMAIN mempool : requests[mempool[k].id].requester
    BY <1>2 DEF contractVars, IInv, Recorded
  <1>4. CASE GiveUp /\ UNCHANGED mempool
    <2>1. /\ givenUp \subseteq givenUp' /\ givenUp' \subseteq Ids
          /\ logs' \subseteq logs
          /\ \A id \in logs \ logs' : Settled(id)'
      BY <1>1, <1>3, <1>4, GiveUpDone
    <2>2. Types'
      BY <1>2, <1>4, <2>1 DEF IInv, Types, GiveUp, contractVars, scanVars
    <2> QED
      BY <1>1, <1>2, <1>3, <1>4, <2>1, <2>2, LogDone DEF GiveUp, Processing
  <1>5. CASE /\ mempool' = Append(mempool, [id |-> First, cid |-> answer])
             /\ logs' = logs \ {First} /\ answer' = NoCid /\ at' = "processing"
             /\ UNCHANGED givenUp
    <2> DEFINE tx == [id |-> First, cid |-> answer]
    <2>1. First \in logs /\ logs \subseteq Ids
      BY <1>1, FirstIsThere DEF IInv, Types
    <2>2. tx \in Tx /\ mempool \in Seq(Tx) /\ requests[tx.id].requester
      BY <2>1 DEF Tx, IInv, Types, Scanning
    <2> HIDE DEF tx
    <2>3. /\ mempool' \in Seq(Tx)
          /\ Len(mempool) + 1 \in DOMAIN mempool' /\ mempool'[Len(mempool) + 1] = tx
          /\ \A k \in DOMAIN mempool : k \in DOMAIN mempool' /\ mempool'[k] = mempool[k]
          /\ \A k \in DOMAIN mempool' :
               mempool'[k] = IF k \in DOMAIN mempool THEN mempool[k] ELSE tx
      BY <1>5, <2>2, AppendPlaces DEF tx
    <2>4. Types'
      BY <1>2, <1>5, <2>1, <2>3 DEF IInv, Types, contractVars, scanVars
    <2>5. \A k \in DOMAIN mempool' : requests[mempool'[k].id].requester
      BY <1>3, <2>2, <2>3
    <2>6. ASSUME NEW id \in logs \ logs' PROVE Settled(id)'
      <3>1. mempool'[Len(mempool) + 1].id = id
        BY <1>5, <2>3 DEF tx
      <3> QED
        BY <2>3, <3>1 DEF Settled
    <2> QED
      BY <1>1, <1>2, <1>5, <2>3, <2>4, <2>5, <2>6, LogDone DEF Processing
  <1> QED
    BY <1>4, <1>5 DEF Submit

LEMMA FinishSafe ==
  ASSUME IInv, Finish
  PROVE  IInv'
  <1> USE DEF chainVars, contractVars
  <1>1. /\ at = "processing" /\ logs = {} /\ at' = "idle"
        /\ lastBlock' = currentBlock /\ currentBlock' = 0
        /\ scanStart' = IF scanStart > currentBlock THEN currentBlock ELSE scanStart
        /\ UNCHANGED <<requests, oracleAddress, balance, height, createdAt, answeredAt,
                       mempool, logs, answer, givenUp, caller>>
    BY DEF Finish
  <1>2. /\ lastBlock \in Nat /\ currentBlock \in Nat /\ scanStart \in Nat
        /\ createdAt \in [Ids -> Nat]
    BY DEF IInv, Types
  <1>3. Types'
    BY <1>1, <1>2 DEF IInv, Types
  <1>4. Recorded' /\ Waiting' /\ Solvent'
    BY <1>1, OutsideStays DEF IInv, Recorded
  <1>5. ASSUME NEW id \in Found(scanStart, lastBlock)' PROVE Settled(id)'
    <2>1. /\ id \in Ids /\ createdAt[id] \in Nat
          /\ createdAt[id] > scanStart /\ createdAt[id] <= currentBlock
      BY <1>1, <1>2 DEF Found
    <2>2. CASE createdAt[id] <= lastBlock
      BY <1>1, <2>1, <2>2 DEF Found, Settled, IInv, Scanned
    <2>3. CASE createdAt[id] > lastBlock
      BY <1>1, <2>1, <2>3 DEF Found, Settled, IInv, Scanning, Processing
    <2> QED
      BY <1>2, <2>1, <2>2, <2>3
  <1>6. Scanning' /\ Scanned'
    BY <1>1, <1>5 DEF IInv, Scanning, Scanned, Processing
  <1> QED
    BY <1>3, <1>4, <1>6 DEF IInv

Entry == [at : {"sent", "waiting", "returned"}, checked : Nat, late : BOOLEAN]

\* A caller goes to a state in which it passes nothing by.
LEMMA EntrySafe ==
  ASSUME IInv, NEW i \in Callers, NEW entry \in Entry,
         caller' = [caller EXCEPT ![i] = entry],
         UNCHANGED <<contractVars, chainVars, listenerVars>>,
         entry.at = "waiting" =>
           /\ entry.checked <= height
           /\ answeredAt[i] # 0 /\ ~ entry.late => answeredAt[i] >= entry.checked
  PROVE  IInv'
  <1> USE DEF chainVars, contractVars, listenerVars, scanVars
  <1>1. caller \in [Callers -> Entry]
    BY DEF IInv, Types, Entry
  <1>2. /\ caller' \in [Callers -> Entry]
        /\ \A id \in Callers : caller'[id] = IF id = i THEN entry ELSE caller[id]
    BY <1>1
  <1>3. Types'
    BY <1>2 DEF IInv, Types, Entry
  <1>4. Waiting'
    BY <1>2 DEF IInv, Waiting
  <1>5. Recorded' /\ Scanning' /\ Scanned'
    BY DEF IInv, Recorded, Scanning, Scanned, Settled, Found
  <1>6. Solvent'
    BY SolventStays DEF IInv
  <1> QED
    BY <1>3, <1>4, <1>5, <1>6 DEF IInv

LEMMA CallerSafe ==
  ASSUME IInv, NEW i \in Callers, Wait(i) \/ Poll(i) \/ Timeout(i)
  PROVE  IInv'
  <1>1. /\ height \in Nat /\ answeredAt[i] \in Nat /\ answeredAt[i] <= height
        /\ caller \in [Callers -> Entry] /\ caller[i] \in Entry
    BY ListenerAssumption DEF IInv, Types, Recorded, Entry
  <1>2. UNCHANGED <<contractVars, chainVars, listenerVars>>
    BY DEF Wait, Poll, Timeout
  <1>3. CASE Wait(i)
    <2> DEFINE entry == [at |-> "waiting", checked |-> height,
                         late |-> Heard(i, 1, height - 1)]
    <2>1. entry \in Entry
      BY <1>1 DEF Heard, Entry
    <2>2. answeredAt[i] # 0 /\ ~ entry.late => answeredAt[i] >= height
      <3>1. answeredAt[i] # 0 /\ ~ Heard(i, 1, height - 1) => answeredAt[i] >= height
        BY <1>1 DEF Heard
      <3>2. entry.late = Heard(i, 1, height - 1)
        OBVIOUS
      <3> HIDE DEF entry
      <3> QED
        BY <3>1, <3>2
    <2>3. entry.checked = height /\ height <= height
      BY <1>1
    <2>4. caller' = [caller EXCEPT ![i] = entry]
      BY <1>3 DEF Wait
    <2> HIDE DEF entry
    <2> QED
      BY <1>2, <2>1, <2>2, <2>3, <2>4, EntrySafe
  <1>4. CASE Poll(i) /\ ~ Return(i)
    <2> DEFINE entry == [caller[i] EXCEPT !.checked = height]
    <2>1. /\ caller[i].at = "waiting"
          /\ ~ Heard(i, caller[i].checked, height)
          /\ caller' = [caller EXCEPT ![i] = entry]
      BY <1>4 DEF Poll
    <2>2. /\ entry \in Entry /\ entry.checked = height /\ height <= height
          /\ entry.late = caller[i].late
      BY <1>1 DEF Entry
    <2>3. caller[i].checked \in Nat
      BY <1>1 DEF Entry
    <2>4. answeredAt[i] # 0 => caller[i].late
      BY <1>1, <2>1, <2>3 DEF Heard, IInv, Waiting
    <2> HIDE DEF entry
    <2> QED
      BY <1>2, <2>1, <2>2, <2>4, EntrySafe
  <1>5. CASE Return(i)
    <2> DEFINE entry == [at |-> "returned", checked |-> 0, late |-> FALSE]
    <2>1. entry \in Entry /\ entry.at # "waiting"
      BY DEF Entry
    <2>2. caller' = [caller EXCEPT ![i] = entry]
      BY <1>5 DEF Return
    <2> HIDE DEF entry
    <2> QED
      BY <1>2, <2>1, <2>2, EntrySafe
  <1> QED
    BY <1>3, <1>4, <1>5 DEF Timeout

LEMMA StutterSafe ==
  ASSUME IInv, UNCHANGED vars
  PROVE  IInv'
  <1> USE DEF vars, chainVars, contractVars, listenerVars, scanVars
  <1>1. Solvent'
    BY SolventStays DEF IInv
  <1>2. Types' /\ Recorded' /\ Waiting'
    BY DEF IInv, Types, Recorded, Waiting
  <1>3. Scanning' /\ Scanned'
    BY DEF IInv, Scanning, Scanned, Settled, Found
  <1> QED
    BY <1>1, <1>2, <1>3 DEF IInv

LEMMA StepSafe == IInv /\ [Next]_vars => IInv'
  BY RequestSafe, OtherSafe, ResponseSafe, StartSafe, CrashSafe, TickSafe, AskSafe,
     OracleAnswersSafe, SubmitSafe, FinishSafe, CallerSafe, StutterSafe
    DEF Next, Monitor

-----------------------------------------------------------------------------
THEOREM Invariance == Spec => []IInv
  <1> QED
    BY InitSafe, StepSafe, PTL DEF Spec

\* The contract has the fees of all requests that wait for an answer: no
\* submitResponse reverts at its transfer (Oracle.sol:69) for want of money.
THEOREM ContractIsSolvent == Spec => []Solvent
  <1>1. IInv => Solvent
    BY DEF IInv
  <1> QED
    BY <1>1, Invariance, PTL

\* Whatever fails, however often the listener is started again: a request in
\* a block that it counts as scanned is answered, has its answer in the
\* mempool, or is one for which a step of the loop of monitorBlockchain failed.
THEOREM NothingIsPassedBy == Spec => []NothingPassedBy
  <1>1. IInv => NothingPassedBy
    BY DEF IInv, Scanned, Settled, NothingPassedBy
  <1> QED
    BY <1>1, Invariance, PTL

\* A caller that waits in waitForResponse (scripts/caller.go) has not passed
\* by an answer given after it began to wait.
THEOREM CallersPassNothingBy == Spec => []CallerPassesNothingBy
  <1>1. IInv => CallerPassesNothingBy
    BY DEF IInv, Waiting, CallerPassesNothingBy
  <1> QED
    BY <1>1, Invariance, PTL

\* An answer on the chain is final: submitResponse refuses a second one, and
\* createRequest, which would reset the entry, never meets an answered ID, as
\* the listener answers only requests that exist.
THEOREM AnswersAreFinal == Spec => AnswerStays
  <1> DEFINE Kept ==
        \A id \in Ids : requests[id].fulfilled =>
          requests'[id].fulfilled /\ requests'[id].response = requests[id].response
  <1>1. IInv /\ [Next]_vars => [Kept]_vars
    <2> SUFFICES ASSUME IInv, Next, NEW id \in Ids, requests[id].fulfilled
                 PROVE  /\ requests'[id].fulfilled
                        /\ requests'[id].response = requests[id].response
      OBVIOUS
    <2>0. requests \in [Ids -> Request]
      BY DEF IInv, Types
    <2>1. ASSUME NEW i \in Ids, NEW value \in Payments, MineRequest(i, value)
          PROVE  requests'[id] = requests[id]
      BY <2>0, <2>1 DEF MineRequest, CreateRequest, MayCreate, IInv, Recorded
    <2>2. CASE MineResponse
      BY <2>0, <2>2
        DEF MineResponse, SubmitResponse, MaySubmit, contractVars
    <2>3. CASE MineOther
      BY <2>3 DEF MineOther, UpdateOracleAddress, ReceivePayment
    <2>4. CASE Start \/ Crash \/ Monitor \/ OracleAnswers
      BY <2>4 DEF Start, Crash, Monitor, Tick, Ask, OracleAnswers, Submit, Finish,
                  contractVars
    <2>5. ASSUME NEW i \in Callers, Wait(i) \/ Poll(i) \/ Timeout(i)
          PROVE  requests' = requests
      BY <2>5 DEF Wait, Poll, Timeout, contractVars
    <2> QED
      BY <2>1, <2>2, <2>3, <2>4, <2>5 DEF Next
  <1> QED
    BY <1>1, Invariance, PTL DEF Spec, AnswerStays

-----------------------------------------------------------------------------
(* The width of the block numbers. *)

\* What the listener and the callers keep is behind the chain, or it is what
\* the subtraction of a look-back left, which wraps but fits.
Fits ==
  /\ currentBlock <= height
  /\ scanStart \in Blocks
  /\ \A id \in Callers : caller[id].checked <= height

LEMMA LookBackFits ==
  ASSUME NEW h \in Nat
  PROVE  LookBack(h) \in Blocks
  <1>1. /\ UintModulus \in Nat \ {0} /\ Lookback \in Nat
        /\ h + UintModulus - Lookback \in Nat
    BY ListenerAssumption
  <1>2. \A n \in Nat, m \in Nat \ {0} : n % m \in 0 .. m - 1
    OBVIOUS
  <1>3. (h + UintModulus - Lookback) % UintModulus \in 0 .. UintModulus - 1
    BY <1>1, <1>2
  <1> QED
    BY <1>3 DEF LookBack, Blocks

LEMMA InitFits == Init => Fits
  BY ListenerAssumption DEF Init, Fits, Blocks

\* The steps of the chain: it grows, and the others do not look yet.
LEMMA ChainFits ==
  ASSUME IInv, Fits, height' \in {height, height + 1},
         UNCHANGED <<currentBlock, scanStart, caller>>
  PROVE  Fits'
  <1>1. /\ height \in Nat /\ currentBlock \in Nat
        /\ \A id \in Callers : caller[id].checked \in Nat
    BY DEF IInv, Types
  <1> QED
    BY <1>1 DEF Fits, Blocks

LEMMA MonitorFits ==
  ASSUME IInv, Fits, Crash \/ Tick \/ Finish
  PROVE  Fits'
  <1> USE DEF chainVars
  <1>1. /\ height \in Nat /\ currentBlock \in Nat /\ scanStart \in Nat
        /\ UNCHANGED <<height, caller>>
    BY DEF IInv, Types, Crash, Tick, Finish
  <1>2. CASE Crash
    BY <1>1, <1>2, ListenerAssumption DEF Crash, Fits, Blocks
  <1>3. CASE Tick
    <2>1. currentBlock' \in {currentBlock, height}
      BY <1>3 DEF Tick
    <2>2. scanStart' \in {scanStart, LookBack(height)}
      BY <1>3 DEF Tick
    <2>3. LookBack(height) \in Blocks
      BY <1>1, LookBackFits
    <2> QED
      BY <1>1, <2>1, <2>2, <2>3 DEF Fits, Blocks
  <1>4. CASE Finish
    <2>1. /\ currentBlock' = 0
          /\ scanStart' \in Nat /\ scanStart' <= scanStart
      BY <1>1, <1>4 DEF Finish
    <2> QED
      BY <1>1, <2>1, ListenerAssumption DEF Fits, Blocks
  <1> QED
    BY <1>2, <1>3, <1>4

LEMMA CallerFits ==
  ASSUME IInv, Fits, NEW i \in Callers, Wait(i) \/ Poll(i) \/ Timeout(i)
  PROVE  Fits'
  <1>1. /\ height \in Nat /\ caller \in [Callers -> Entry]
        /\ UNCHANGED <<height, currentBlock, scanStart>>
    BY DEF IInv, Types, Entry, Wait, Poll, Timeout, chainVars, listenerVars, scanVars
  <1>2. /\ caller'[i].checked \in {height, 0}
        /\ \A id \in Callers \ {i} : caller'[id] = caller[id]
    <2>1. CASE Wait(i)
      BY <1>1, <2>1 DEF Wait
    <2>2. CASE Return(i)
      BY <1>1, <2>2 DEF Return
    <2>3. CASE Poll(i) /\ ~ Return(i)
      <3>1. caller' = [caller EXCEPT ![i].checked = height]
        BY <2>3 DEF Poll
      <3> QED
        BY <1>1, <3>1 DEF Entry
    <2> QED
      BY <2>1, <2>2, <2>3 DEF Timeout
  <1> QED
    BY <1>1, <1>2 DEF Fits, Blocks

LEMMA StepFits == IInv /\ Fits /\ [Next]_vars => Fits'
  <1> SUFFICES ASSUME IInv, Fits, [Next]_vars PROVE Fits'
    OBVIOUS
  <1> USE DEF chainVars, listenerVars, scanVars, vars
  <1>1. CASE \E id \in Ids, value \in Payments : MineRequest(id, value)
    BY <1>1, ChainFits DEF MineRequest
  <1>2. CASE MineOther \/ MineResponse
    BY <1>2, ChainFits DEF MineOther, MineResponse
  <1>3. CASE Start \/ Ask \/ OracleAnswers \/ Submit \/ UNCHANGED vars
    BY <1>3, ChainFits DEF Start, Ask, OracleAnswers, Submit
  <1>4. CASE Crash \/ Tick \/ Finish
    BY <1>4, MonitorFits
  <1>5. CASE \E id \in Callers : Wait(id) \/ Poll(id) \/ Timeout(id)
    BY <1>5, CallerFits
  <1> QED
    BY <1>1, <1>2, <1>3, <1>4, <1>5 DEF Next, Monitor

\* As long as the height of the chain is a uint64, every block number that
\* the listener and the callers keep is one: lastBlock and lastCheckedBlock
\* never run away from the chain, though the first subtraction of
\* monitorBlockchain may wrap. (Nothing bounds the height itself.)
THEOREM TypesWhileHeightFits == Spec => [](height < UintModulus => TypeOK)
  <1>1. IInv /\ Fits => (height < UintModulus => TypeOK)
    <2> SUFFICES ASSUME IInv, Fits, height < UintModulus PROVE TypeOK
      OBVIOUS
    <2>1. /\ UintModulus \in Nat
          /\ height \in Nat /\ lastBlock \in Nat /\ currentBlock \in Nat
          /\ lastBlock <= height \/ lastBlock = scanStart
      BY ListenerAssumption DEF IInv, Types, Scanning
    <2>2. {height, lastBlock, currentBlock, scanStart} \subseteq Blocks
      BY <2>1 DEF Fits, Blocks
    <2>3. createdAt \in [Ids -> Blocks] /\ answeredAt \in [Ids -> Blocks]
      <3>1. /\ createdAt \in [Ids -> Nat] /\ answeredAt \in [Ids -> Nat]
            /\ \A id \in Ids : createdAt[id] <= height /\ answeredAt[id] <= height
        BY DEF IInv, Types, Recorded
      <3>2. \A id \in Ids : createdAt[id] \in Blocks /\ answeredAt[id] \in Blocks
        BY <2>1, <3>1 DEF Blocks
      <3> QED
        BY <3>1, <3>2
    <2>4. caller \in [Callers -> [at : {"sent", "waiting", "returned"},
                                  checked : Blocks, late : BOOLEAN]]
      <3>1. caller \in [Callers -> Entry]
        BY DEF IInv, Types, Entry
      <3>2. \A id \in Callers : caller[id].checked \in Blocks
        BY <2>1, <3>1 DEF Fits, Blocks, Entry
      <3>3. \A id \in Callers :
              caller[id] \in [at : {"sent", "waiting", "returned"},
                              checked : Blocks, late : BOOLEAN]
        BY <3>1, <3>2 DEF Entry
      <3> QED
        BY <3>1, <3>3
    <2> QED
      BY <2>2, <2>3, <2>4 DEF IInv, Types, TypeOK, Tx
  <1>2. Spec => []Fits
    BY InitFits, StepFits, Invariance, PTL DEF Spec
  <1> QED
    BY <1>1, <1>2, Invariance, PTL
=============================================================================
