--------------------------- MODULE OracleContract ---------------------------
(***************************************************************************)
(* The contract, contracts/Oracle.sol: the requests, the account that may  *)
(* answer them and the money the contract holds. A transaction is one step *)
(* or, when a require fails, no step. A prompt is left out, and a request  *)
(* ID, the hash of prompt, sender and time, is a member of Ids.            *)
(***************************************************************************)
EXTENDS Naturals, FiniteSets

CONSTANTS
  Ids,       \* request IDs
  Accounts,  \* accounts that are the oracle's at some time
  Key,       \* the account of the listener, the oracle's at first
  Fee,       \* requestFee
  Payments,  \* what requesters send along
  Cids,      \* responses; the listener passes the IPFS CID for both strings
  NoCid      \* the empty string

ASSUME ContractAssumption ==
  /\ IsFiniteSet(Ids)
  /\ Key \in Accounts
  /\ Fee \in Nat
  /\ Payments \subseteq Nat
  /\ NoCid \notin Cids

VARIABLES
  requests,       \* the mapping: every ID has an entry, of zeros at first
  oracleAddress,
  balance

contractVars == <<requests, oracleAddress, balance>>

Request ==
  [requester : BOOLEAN, fulfilled : BOOLEAN, response : Cids \cup {NoCid}]

Zero == [requester |-> FALSE, fulfilled |-> FALSE, response |-> NoCid]

ContractInit ==
  /\ requests = [id \in Ids |-> Zero]
  /\ oracleAddress = Key
  /\ balance = 0

\* Mutant of MayCreate: no fee is asked for.
MayCreateFree(id, value) == ~ requests[id].requester

\* The requires of createRequest. The requester is not the zero address.
MayCreate(id, value) == value >= Fee /\ ~ requests[id].requester

CreateRequest(id, value) ==
  /\ MayCreate(id, value)
  /\ requests' = [requests EXCEPT ![id] = [Zero EXCEPT !.requester = TRUE]]
  /\ balance' = balance + value
  /\ UNCHANGED oracleAddress

\* Mutant of MaySubmit: an answer replaces an answer.
MaySubmitAgain(sender, id, cid) ==
  sender = oracleAddress /\ cid # NoCid /\ balance >= Fee

\* The requires of submitResponse, and the transfer, which reverts when the
\* contract has less than the fee. Nobody asks whether the request exists.
MaySubmit(sender, id, cid) ==
  /\ sender = oracleAddress
  /\ ~ requests[id].fulfilled
  /\ cid # NoCid
  /\ balance >= Fee

SubmitResponse(sender, id, cid) ==
  /\ MaySubmit(sender, id, cid)
  /\ requests' = [requests EXCEPT ![id].fulfilled = TRUE, ![id].response = cid]
  /\ balance' = balance - Fee
  /\ UNCHANGED oracleAddress

UpdateOracleAddress(a) ==
  /\ oracleAddress' = a
  /\ UNCHANGED <<requests, balance>>

\* receive()
ReceivePayment(value) ==
  /\ balance' = balance + value
  /\ UNCHANGED <<requests, oracleAddress>>

Open == {id \in Ids : requests[id].requester /\ ~ requests[id].fulfilled}

\* submitResponse never fails for want of money (Oracle.sol:69): the fees of
\* the requests that wait for an answer are there, whatever was paid out before.
Solvent == balance >= Fee * Cardinality(Open)
=============================================================================
