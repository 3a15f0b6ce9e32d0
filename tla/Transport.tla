----------------------------- MODULE Transport -----------------------------
(***************************************************************************)
(* The transport, oracle/pkg/network/p2p.go: the connections of one node   *)
(* to one of its peers. Send looks for a connection in the table, dials if *)
(* there is none, and writes. A dialled connection is only written to; its *)
(* reader goroutine (handleConnection) waits for it to end, and then       *)
(* closes whatever connection is in the table and dials again. The peer    *)
(* reads what it accepted, one goroutine per connection. t.mu is held for  *)
(* single looks at the table only, so that Send and the readers meet       *)
(* between the look, the dial and the entry.                               *)
(*                                                                         *)
(* Abstractions. One peer: Broadcast goes over the peers one by one, and   *)
(* no entry of the table depends on another. One call of Send at a time:   *)
(* the engine, the only caller, broadcasts under p.mu. A frame is a length *)
(* and its data. TCP (external) keeps the order of a connection, and what  *)
(* was written before a Close by the writer still arrives. The peer's      *)
(* channel has room; a peer that does not read is a write that fails.      *)
(***************************************************************************)
EXTENDS Naturals, Sequences, FiniteSets, Functions

CONSTANTS
  MaxConns,   \* bound: connections dialled
  MaxSends,   \* bound: calls of Send
  MaxFaults,  \* bound: resets, crashes of the peer, writes and dials timing out
  MaxStops    \* bound: calls of Stop (0 or 1)

ASSUME TransportAssumption ==
  /\ MaxConns \in Nat \ {0} /\ MaxSends \in Nat
  /\ MaxFaults \in Nat /\ MaxStops \in {0, 1}

Conns   == 1..MaxConns
Sender  == MaxConns + 1          \* the goroutine that calls Send
Workers == Conns \cup {Sender}   \* a connection stands for its reader
NoConn  == 0

VARIABLES
  table,    \* t.connections[peer]
  conn,     \* conn[c]: its two ends, and what is written and not read
  at,       \* where the sender and each reader is
  using,    \* using[w]: the connection that w dialled or is writing to
  known,    \* readers that found their connection in the table: peerID # ""
  stopped,  \* doneChan is closed
  up,       \* the peer accepts connections
  next,     \* the number of the next message
  sent,     \* messages whose Send returned nil
  arrived,  \* messages the peer has read, in order
  lost,     \* history: messages that were sent into a connection cut by a fault
  faults    \* history: what went wrong so far

links   == <<table, conn>>
peer    == <<up, arrived>>
calls   == <<next, sent>>
history == <<lost, faults>>
vars    == <<links, at, using, known, stopped, peer, calls, history>>

Init ==
  /\ table = NoConn
  /\ conn = [c \in Conns |->
               [local |-> "unused", remote |-> "unused", stream |-> <<>>]]
  /\ at = [w \in Workers |-> IF w = Sender THEN "idle" ELSE "none"]
  /\ using = [w \in Workers |-> NoConn]
  /\ known = {}
  /\ stopped = FALSE
  /\ up = FALSE
  /\ next = 1
  /\ sent = {}
  /\ arrived = <<>>
  /\ lost = {}
  /\ faults = 0

Go(w, where) == at' = [at EXCEPT ![w] = where]
Fault        == faults < MaxFaults /\ faults' = faults + 1

Both(c)    == conn[c].local = "open" /\ conn[c].remote = "open"
HalfCut(c) == conn[c].local = "open" /\ conn[c].remote = "closed"

\* Mutant of Closed: what is not yet on the wire is thrown away.
ClosedAtOnce(c) == [conn EXCEPT ![c].local = "closed", ![c].stream = <<>>]

\* conn.Close() at this end; what was written stays on the wire.
Closed(c) == [conn EXCEPT ![c].local = "closed"]

\* Mutant of Stored: the connection is never found.
NeverStored == FALSE

Stored == table # NoConn

-----------------------------------------------------------------------------
(* connectWithRetry, called by a sender or by a reader. *)

\* It ends: a sender goes on or fails, a reader goes away.
Connected(w) == Go(w, IF w = Sender THEN "rereading" ELSE "gone")
GaveUp(w)    == Go(w, IF w = Sender THEN "idle" ELSE "gone")

Check(w) ==
  /\ at[w] = "checking"
  /\ IF Stored THEN Connected(w) ELSE Go(w, "dialing")
  /\ UNCHANGED <<links, using, known, stopped, peer, calls, history>>

\* Connections are numbered as they are dialled.
Dial(w) ==
  /\ at[w] = "dialing"
  /\ \/ /\ up
        /\ \E c \in Conns :
             /\ conn[c].local = "unused"
             /\ \A d \in Conns : d < c => conn[d].local # "unused"
             /\ conn' = [conn EXCEPT ![c].local = "open", ![c].remote = "open"]
             /\ using' = [using EXCEPT ![w] = c]
        /\ Go(w, "storing")
        /\ UNCHANGED faults
     \/ /\ ~ up
        /\ GaveUp(w)
        /\ UNCHANGED <<conn, using, faults>>
     \/ /\ up /\ Fault
        /\ GaveUp(w)
        /\ UNCHANGED <<conn, using>>
  /\ UNCHANGED <<table, known, stopped, peer, calls, lost>>

\* The entry is written over whatever is there, and the reader starts.
Store(w) ==
  LET c == using[w] IN
  /\ at[w] = "storing"
  /\ table' = c
  /\ at' = [at EXCEPT ![w] = IF w = Sender THEN "rereading" ELSE "gone",
                      ![c] = "starting"]
  /\ using' = [using EXCEPT ![w] = NoConn]
  /\ UNCHANGED <<conn, known, stopped, peer, calls, history>>

-----------------------------------------------------------------------------
(* Send. *)

Send ==
  /\ at[Sender] = "idle"
  /\ next <= MaxSends
  /\ IF Stored
       THEN Go(Sender, "writing") /\ using' = [using EXCEPT ![Sender] = table]
       ELSE Go(Sender, "checking") /\ UNCHANGED using
  /\ UNCHANGED <<links, known, stopped, peer, calls, history>>

\* Mutant of Reread: a nil connection is written to.
RereadBlind ==
  /\ at[Sender] = "rereading"
  /\ Go(Sender, "writing")
  /\ using' = [using EXCEPT ![Sender] = table]
  /\ UNCHANGED <<links, known, stopped, peer, calls, history>>

\* The table is read again, without a look whether there is an entry: a nil
\* connection panics at SetWriteDeadline.
Reread ==
  /\ at[Sender] = "rereading"
  /\ Go(Sender, IF Stored THEN "writing" ELSE "panicked")
  /\ using' = [using EXCEPT ![Sender] = table]
  /\ UNCHANGED <<links, known, stopped, peer, calls, history>>

Put(c, part) ==
  conn' = [conn EXCEPT ![c].stream = Append(@, [part |-> part, of |-> next])]

\* Send returns.
Done ==
  /\ Go(Sender, "idle")
  /\ using' = [using EXCEPT ![Sender] = NoConn]
  /\ next' = next + 1

\* Mutant of Dropped: the connection stays in the table.
DroppedNot == table

\* A failed write takes the entry of the peer out of the table, whichever
\* connection that is by now; the connection written to is left open.
Dropped == NoConn

\* SetWriteDeadline fails if this end is closed, and leaves the table alone.
\* A write to a connection that the other end closed may fail or not; one to
\* a good connection may time out, before or after a part of the frame.
WriteLength ==
  LET c == using[Sender] IN
  /\ at[Sender] = "writing"
  /\ \/ /\ Both(c)
        /\ Put(c, "length")
        /\ Go(Sender, "halfway")
        /\ UNCHANGED <<table, using, next, faults>>
     \/ /\ HalfCut(c)
        /\ Go(Sender, "halfway")
        /\ UNCHANGED <<links, using, next, faults>>
     \/ /\ Both(c) /\ Fault
        /\ Put(c, "length") \/ UNCHANGED conn
        /\ table' = Dropped
        /\ Done
     \/ /\ ~ Both(c)
        /\ table' = Dropped
        /\ Done
        /\ UNCHANGED <<conn, faults>>
     \/ /\ conn[c].local = "closed"
        /\ Done
        /\ UNCHANGED <<links, faults>>
  /\ UNCHANGED <<known, stopped, peer, sent, lost>>

WriteData ==
  LET c == using[Sender] IN
  /\ at[Sender] = "halfway"
  /\ Done
  /\ \/ /\ Both(c)
        /\ Put(c, "data")
        /\ sent' = sent \cup {next}
        /\ UNCHANGED <<table, history>>
     \/ /\ HalfCut(c)
        /\ sent' = sent \cup {next}
        /\ lost' = lost \cup {next}
        /\ UNCHANGED <<links, faults>>
     \/ /\ Both(c) /\ Fault
        /\ table' = Dropped
        /\ UNCHANGED <<conn, sent, lost>>
     \/ /\ ~ Both(c)
        /\ table' = Dropped
        /\ UNCHANGED <<conn, sent, history>>
  /\ UNCHANGED <<known, stopped, peer>>

-----------------------------------------------------------------------------
(* handleConnection at this end: the reader of c. *)

\* Mutant of Own: the reader looks before the connection is in the table.
NotYet(c) == FALSE

Own(c) == table = c

\* Which peer the connection is of is looked up in the table.
Identify(c) ==
  /\ at[c] = "starting"
  /\ known' = IF Own(c) THEN known \cup {c} ELSE known
  /\ Go(c, IF stopped THEN "leaving" ELSE "reading")
  /\ UNCHANGED <<links, using, stopped, peer, calls, history>>

\* Mutant of Ended: only a Close of this end is noticed.
EndedHere(c) == conn[c].local = "closed"

Ended(c) == conn[c].local = "closed" \/ conn[c].remote = "closed"

\* Nothing is ever read; the call returns when the connection ends.
ReadFails(c) ==
  /\ at[c] = "reading"
  /\ Ended(c)
  /\ Go(c, "leaving")
  /\ UNCHANGED <<links, using, known, stopped, peer, calls, history>>

\* The deferred function: close, and if the peer is known closeConnection.
Leave(c) ==
  /\ at[c] = "leaving"
  /\ conn' = Closed(c)
  /\ Go(c, IF c \in known THEN "removing" ELSE "gone")
  /\ UNCHANGED <<table, using, known, stopped, peer, calls, history>>

\* closeConnection closes and removes what is in the table now.
CloseConnection(c) ==
  /\ at[c] = "removing"
  /\ conn' = IF Stored THEN Closed(table) ELSE conn
  /\ table' = NoConn
  /\ Go(c, "failing")
  /\ UNCHANGED <<using, known, stopped, peer, calls, history>>

\* handleConnectionFailure.
Reconnect(c) ==
  /\ at[c] = "failing"
  /\ Go(c, IF stopped THEN "gone" ELSE "checking")
  /\ UNCHANGED <<links, using, known, stopped, peer, calls, history>>

\* Stop closes what is in the table; nobody else is told but by doneChan.
Stop ==
  /\ MaxStops = 1 /\ ~ stopped
  /\ stopped' = TRUE
  /\ conn' = IF Stored THEN Closed(table) ELSE conn
  /\ table' = NoConn
  /\ UNCHANGED <<at, using, known, peer, calls, history>>

-----------------------------------------------------------------------------
(* The peer and the network. *)

\* handleConnection at the peer, of an accepted connection: the next frame.
Read(c) ==
  /\ conn[c].remote = "open" /\ Len(conn[c].stream) > 1
  /\ arrived' = Append(arrived, Head(conn[c].stream).of)
  /\ conn' = [conn EXCEPT ![c].stream = Tail(Tail(@))]
  /\ UNCHANGED <<table, at, using, known, stopped, up, calls, history>>

\* The end of the stream: the peer closes its end as well.
ReadEnd(c) ==
  /\ conn[c].remote = "open" /\ conn[c].local = "closed"
  /\ Len(conn[c].stream) < 2
  /\ conn' = [conn EXCEPT ![c].remote = "closed", ![c].stream = <<>>]
  /\ UNCHANGED <<table, at, using, known, stopped, peer, calls, history>>

Unread(c) == {s.of : s \in Range(conn[c].stream)}

\* Connections in C are cut, with what is in them.
Cut(C) ==
  /\ conn' = [c \in Conns |->
                IF c \in C
                  THEN [conn[c] EXCEPT !.remote = "closed", !.stream = <<>>]
                  ELSE conn[c]]
  /\ lost' = lost \cup {m \in sent : \E c \in C : m \in Unread(c)}

Reset(c) ==
  /\ conn[c].remote = "open"
  /\ Fault
  /\ Cut({c})
  /\ UNCHANGED <<table, at, using, known, stopped, peer, calls>>

PeerStarts ==
  /\ ~ up
  /\ up' = TRUE
  /\ UNCHANGED <<links, at, using, known, stopped, arrived, calls, history>>

PeerCrashes ==
  /\ up
  /\ Fault
  /\ up' = FALSE
  /\ Cut({c \in Conns : conn[c].remote = "open"})
  /\ UNCHANGED <<table, at, using, known, stopped, arrived, calls>>

-----------------------------------------------------------------------------
Connect(w) == Check(w) \/ Dial(w) \/ Store(w)
Sending    == Connect(Sender) \/ Reread \/ WriteLength \/ WriteData
Reader(c)  == Identify(c) \/ ReadFails(c) \/ Leave(c) \/ CloseConnection(c)
                \/ Reconnect(c) \/ Connect(c)
Peer(c)    == Read(c) \/ ReadEnd(c)

Next ==
  \/ Send \/ Sending
  \/ \E c \in Conns : Reader(c) \/ Peer(c) \/ Reset(c)
  \/ Stop \/ PeerStarts \/ PeerCrashes

Spec == Init /\ [][Next]_vars

\* Goroutines go on when they can; TCP carries what was written, and tells
\* the other end that a connection was closed.
Fairness ==
  /\ WF_vars(Sending)
  /\ \A c \in Conns : WF_vars(Reader(c)) /\ WF_vars(Peer(c))

FairSpec == Spec /\ Fairness

-----------------------------------------------------------------------------
(* Properties. *)

Parts == [part : {"length", "data"}, of : 1..MaxSends]
Ends  == {"unused", "open", "closed"}
Connecting == {"checking", "dialing", "storing"}

\* The variables have their types, and what dials, stores or writes has the
\* connection that it does it with.
TypeOK ==
  /\ table \in Conns \cup {NoConn}
  /\ conn \in [Conns -> [local : Ends, remote : Ends, stream : Seq(Parts)]]
  /\ at[Sender] \in Connecting \cup
       {"idle", "rereading", "writing", "halfway", "panicked"}
  /\ \A c \in Conns : at[c] \in Connecting \cup
       {"none", "starting", "reading", "leaving", "removing", "failing", "gone"}
  /\ using \in [Workers -> Conns \cup {NoConn}]
  /\ \A w \in Workers : at[w] \in {"storing", "writing", "halfway"} <=> using[w] # NoConn
  /\ known \subseteq Conns
  /\ stopped \in BOOLEAN /\ up \in BOOLEAN
  /\ next \in 1..MaxSends + 1
  /\ sent \subseteq 1..MaxSends
  /\ arrived \in Seq(sent) /\ lost \subseteq sent
  /\ faults \in 0..MaxFaults

IsOpen(c) == conn[c].local = "open"

\* p2p.go:118-131, 271-300: until something fails the node has one connection
\* to the peer, Send never finds the table empty after connecting, and what
\* it sends arrives in order. (Pbft takes its links to be like this.)
UndisturbedLink ==
  faults = 0 /\ ~ stopped =>
    /\ Cardinality({c \in Conns : IsOpen(c)}) <= 1
    /\ at[Sender] # "panicked"
    /\ \A i, j \in DOMAIN arrived : i < j => arrived[i] < arrived[j]

\* p2p.go:152-166: a connection carries whole frames; where a write failed
\* half way no other frame follows, though the connection stays open and the
\* readers replace connections in the meantime.
FramesIntact ==
  \A c \in Conns : \A i \in DOMAIN conn[c].stream :
    LET s == conn[c].stream IN
    IF i % 2 = 1 THEN s[i].part = "length"
                 ELSE s[i] = [part |-> "data", of |-> s[i - 1].of]

\* p2p.go:211-215: when the connection in the table is one that this end
\* closed, its reader is about to take it out: it found its peer when it
\* started, and nobody puts a connection back.
DeadEntryIsRemoved ==
  \A c \in Conns :
    table = c /\ ~ IsOpen(c) => at[c] = "removing" /\ c \in known

\* A connection that the peer closed does not stay in the table.
DeadEntryGoes ==
  \A c \in Conns : (table = c /\ conn[c].remote = "closed") ~> table # c

\* p2p.go:168: a message that Send reports as sent arrives, unless a fault cut
\* the connection it was in: this end closing a connection, its own or that
\* of another reader, loses nothing.
SentArrives ==
  \A m \in 1..MaxSends : (m \in sent) ~> (m \in Range(arrived) \cup lost)
=============================================================================
