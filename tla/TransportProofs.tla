-------------------------- MODULE TransportProofs --------------------------
(***************************************************************************)
(* Proofs about Transport, for any number of connections, messages and     *)
(* faults.                                                                 *)
(*                                                                         *)
(* IInv is inductive. Linked says who may have a connection: it is stored  *)
(* once, by whoever dialled it, and once it is out of the table it never   *)
(* comes back, which is why its reader still knows it and why no frame     *)
(* follows a torn one. Framed is about what is on the wire, and Calm about *)
(* how little goes on until the first fault.                               *)
(***************************************************************************)
EXTENDS Transport, FiniteSetTheorems, SequenceTheorems, TLAPS

Places ==
  Connecting \cup {"idle", "rereading", "writing", "halfway", "panicked", "none",
                   "starting", "reading", "leaving", "removing", "failing", "gone"}

Conn == [local : Ends, remote : Ends, stream : Seq(Parts)]

Holds(w) == at[w] \in {"storing", "writing", "halfway"}

Types ==
  /\ table \in Conns \cup {NoConn}
  /\ conn \in [Conns -> Conn]
  /\ at \in [Workers -> Places]
  /\ at[Sender] \in Connecting \cup {"idle", "rereading", "writing", "halfway", "panicked"}
  /\ \A c \in Conns : at[c] \in Connecting \cup
       {"none", "starting", "reading", "leaving", "removing", "failing", "gone"}
  /\ using \in [Workers -> Conns \cup {NoConn}]
  /\ \A w \in Workers : Holds(w) <=> using[w] # NoConn
  /\ known \subseteq Conns
  /\ stopped \in BOOLEAN /\ up \in BOOLEAN
  /\ next \in Nat /\ 1 <= next /\ next <= MaxSends + 1
  /\ at[Sender] # "idle" => next <= MaxSends
  /\ sent \subseteq 1..MaxSends
  /\ arrived \in Seq(sent) /\ lost \subseteq sent
  /\ faults \in 0..MaxFaults

\* A connection is unused, then at its dialler's, then in the table, and its
\* reader takes it out.
Linked ==
  /\ \A c \in Conns : conn[c].local = "unused" =>
       /\ conn[c].remote = "unused" /\ conn[c].stream = <<>>
       /\ at[c] = "none"
       /\ \A w \in Workers : using[w] # c
  /\ \A w \in Workers : at[w] = "storing" =>
       at[using[w]] = "none" /\ conn[using[w]].local = "open"
  /\ \A v, w \in Workers : at[v] = "storing" /\ using[v] = using[w] => v = w
  /\ \A w \in Workers : at[w] \in {"writing", "halfway"} => at[using[w]] # "none"
  /\ table # NoConn =>
       /\ at[table] \in {"starting", "reading", "leaving", "removing"}
       /\ at[table] # "starting" => table \in known
       /\ conn[table].local # "open" => at[table] = "removing"

\* What a frame may still be written to.
Fresh(c) ==
  at[c] = "none" \/ table = c \/ (at[Sender] = "writing" /\ using[Sender] = c)

\* The sender is between the length and the data of a frame on c.
Halfway(c) == at[Sender] = "halfway" /\ using[Sender] = c

Odd(s) == Len(s) % 2 = 1

Framed ==
  /\ FramesIntact
  /\ \A c \in Conns : \A i \in DOMAIN conn[c].stream :
       conn[c].stream[i].part = "data" => conn[c].stream[i].of \in sent
  /\ \A c \in Conns : Both(c) /\ Fresh(c) /\ ~ Halfway(c) => ~ Odd(conn[c].stream)
  /\ \A c \in Conns : Both(c) /\ Halfway(c) =>
       Odd(conn[c].stream) /\ conn[c].stream[Len(conn[c].stream)].of = next

\* The numbers in a stream rise from frame to frame.
Rising(s) ==
  \A i, j \in DOMAIN s : i < j =>
    s[i].of <= s[j].of /\ (s[j].part = "length" => s[i].of < s[j].of)

Ordered ==
  /\ \A c \in Conns :
       /\ Rising(conn[c].stream)
       /\ \A j \in DOMAIN conn[c].stream :
            /\ conn[c].stream[j].of <= next
            /\ at[Sender] # "halfway" => conn[c].stream[j].of < next
            /\ \A k \in DOMAIN arrived : arrived[k] < conn[c].stream[j].of
  /\ \A k \in DOMAIN arrived : arrived[k] < next
  /\ \A i, j \in DOMAIN arrived : i < j => arrived[i] < arrived[j]

Quiet ==
  /\ at[Sender] # "panicked"
  /\ \A c \in Conns :
       /\ at[c] \in {"none", "starting", "reading"}
       /\ conn[c].local # "closed"
       /\ conn[c].local = "open" =>
            /\ conn[c].remote = "open"
            /\ table = c \/ (at[Sender] = "storing" /\ using[Sender] = c)
  /\ at[Sender] \in {"dialing", "storing"} => table = NoConn
  /\ at[Sender] \in {"rereading", "writing", "halfway"} => table # NoConn
  /\ at[Sender] \in {"writing", "halfway"} => using[Sender] = table

Calm == faults = 0 /\ ~ stopped => Quiet /\ Ordered

IInv == Types /\ Linked /\ Framed /\ Calm

-----------------------------------------------------------------------------
(* What the steps do to the variables' types. *)

LEMMA Basics ==
  /\ MaxConns \in Nat /\ 1 <= MaxConns /\ MaxSends \in Nat /\ MaxFaults \in Nat
  /\ Sender \in Workers /\ Sender \notin Conns /\ Conns \subseteq Workers
  /\ NoConn \notin Conns /\ Conns \subseteq Nat
  BY TransportAssumption DEF Sender, Workers, Conns, NoConn

LEMMA ConnType ==
  ASSUME Types, NEW c \in Conns
  PROVE  /\ conn[c] \in Conn /\ conn[c].stream \in Seq(Parts)
         /\ conn[c].local \in Ends /\ conn[c].remote \in Ends
         /\ \A i \in DOMAIN conn[c].stream : conn[c].stream[i] \in Parts
  BY DEF Types, Conn

LEMMA SeqGrows ==
  ASSUME NEW S, NEW T, S \subseteq T, NEW q \in Seq(S)
  PROVE  q \in Seq(T)
  <1>1. Len(q) \in Nat /\ q \in [1..Len(q) -> S]
    OBVIOUS
  <1>2. q \in [1..Len(q) -> T]
    BY <1>1
  <1> QED
    BY <1>1, <1>2

\* What is left of a stream after a frame of two parts.
LEMMA TailTail ==
  ASSUME NEW S, NEW s \in Seq(S), Len(s) > 1
  PROVE  /\ 1 \in DOMAIN s /\ 2 \in DOMAIN s /\ Head(s) = s[1]
         /\ Tail(Tail(s)) \in Seq(S) /\ Len(Tail(Tail(s))) = Len(s) - 2
         /\ \A i \in DOMAIN Tail(Tail(s)) : i \in 1..(Len(s) - 2) /\ Tail(Tail(s))[i] = s[i + 2]
  <1>1. s # <<>> /\ Len(s) \in Nat /\ DOMAIN s = 1..Len(s)
    OBVIOUS
  <1>2. /\ Tail(s) \in Seq(S) /\ Len(Tail(s)) = Len(s) - 1
        /\ \A i \in 1..Len(Tail(s)) : Tail(s)[i] = s[i + 1]
    BY <1>1, HeadTailProperties
  <1>3. Tail(s) # <<>>
    <2>1. PICK t \in Seq(S) : t = Tail(s)
      BY <1>2
    <2>2. Len(t) # 0
      BY <1>1, <1>2, <2>1
    <2> QED
      BY <2>1, <2>2
  <1>4. /\ Tail(Tail(s)) \in Seq(S) /\ Len(Tail(Tail(s))) = Len(s) - 2
        /\ \A i \in 1..Len(Tail(Tail(s))) : Tail(Tail(s))[i] = Tail(s)[i + 1]
    BY <1>1, <1>2, <1>3, HeadTailProperties
  <1>5. DOMAIN Tail(Tail(s)) = 1..(Len(s) - 2)
    BY <1>4
  <1>6. ASSUME NEW i \in 1..(Len(s) - 2) PROVE Tail(Tail(s))[i] = s[i + 2]
    <2>1. i \in 1..Len(Tail(Tail(s))) /\ i + 1 \in 1..Len(Tail(s)) /\ (i + 1) + 1 = i + 2
      BY <1>1, <1>2, <1>4
    <2> QED
      BY <1>2, <1>4, <2>1
  <1> QED
    BY <1>1, <1>4, <1>5, <1>6

LEMMA Parity ==
  ASSUME NEW n \in Nat
  PROVE  /\ n % 2 = 1 <=> (n + 1) % 2 # 1
         /\ (n + 2) % 2 = n % 2
  OBVIOUS

\* A move of one worker.
LEMMA GoType ==
  ASSUME Types, NEW w \in Workers, NEW where, Go(w, where)
  PROVE  at'[w] = where /\ \A v \in Workers \ {w} : at'[v] = at[v]
  BY DEF Types, Go

\* Moves that change no connection in use, and nothing else but the table and
\* the ends of connections, keep the types.
LEMMA MoveTypes ==
  ASSUME Types, NEW w \in Workers, NEW where, Go(w, where),
         where \notin {"storing", "writing", "halfway"}, ~ Holds(w),
         \/ w = Sender /\ where \in {"checking", "dialing", "idle", "rereading", "panicked"}
         \/ w \in Conns /\ where \in {"checking", "dialing", "none", "starting", "reading",
                                      "leaving", "removing", "failing", "gone"},
         w = Sender /\ where # "idle" => next <= MaxSends,
         UNCHANGED <<using, stopped, peer, calls, lost>>,
         faults' \in 0..MaxFaults, known' \subseteq Conns,
         table' \in Conns \cup {NoConn}, conn' \in [Conns -> Conn]
  PROVE  Types'
  <1> USE DEF peer, calls
  <1>1. /\ at'[w] = where /\ \A v \in Workers \ {w} : at'[v] = at[v]
        /\ Sender \in Workers /\ Conns \subseteq Workers /\ Sender \notin Conns
    BY GoType, Basics
  <1>2. where \in Places
    BY DEF Places, Connecting
  <1>3. at' \in [Workers -> Places]
    BY <1>2 DEF Types, Go
  <1>4. at'[Sender] \in Connecting \cup {"idle", "rereading", "writing", "halfway", "panicked"}
    BY <1>1 DEF Types, Connecting
  <1>5. \A c \in Conns : at'[c] \in Connecting \cup
          {"none", "starting", "reading", "leaving", "removing", "failing", "gone"}
    BY <1>1 DEF Types, Connecting
  <1>6. \A v \in Workers : Holds(v)' <=> using'[v] # NoConn
    BY <1>1 DEF Types, Holds
  <1>7. at'[Sender] # "idle" => next' <= MaxSends
    BY <1>1 DEF Types
  <1> QED
    BY <1>3, <1>4, <1>5, <1>6, <1>7 DEF Types

LEMMA ClosedType ==
  ASSUME Types, NEW c \in Conns, conn' = Closed(c)
  PROVE  /\ conn' \in [Conns -> Conn]
         /\ conn'[c].local = "closed" /\ conn'[c].remote = conn[c].remote
         /\ conn'[c].stream = conn[c].stream
         /\ \A d \in Conns \ {c} : conn'[d] = conn[d]
  <1>1. PICK k : k = [conn[c] EXCEPT !.local = "closed"]
    OBVIOUS
  <1>2. /\ k \in Conn /\ k.local = "closed" /\ k.remote = conn[c].remote
        /\ k.stream = conn[c].stream
    BY <1>1, ConnType DEF Conn, Ends
  <1>3. conn \in [Conns -> Conn] /\ conn' = [conn EXCEPT ![c] = k]
    BY <1>1 DEF Types, Closed
  <1> QED
    BY <1>2, <1>3

LEMMA PutType ==
  ASSUME Types, NEW c \in Conns, NEW part \in {"length", "data"}, Put(c, part),
         next \in 1..MaxSends
  PROVE  /\ conn' \in [Conns -> Conn]
         /\ conn'[c].local = conn[c].local /\ conn'[c].remote = conn[c].remote
         /\ conn'[c].stream = Append(conn[c].stream, [part |-> part, of |-> next])
         /\ \A d \in Conns \ {c} : conn'[d] = conn[d]
  <1>1. PICK p \in Parts : p = [part |-> part, of |-> next]
    BY DEF Parts
  <1>2. PICK s \in Seq(Parts) : s = Append(conn[c].stream, p)
    <2>1. conn[c].stream \in Seq(Parts)
      BY ConnType
    <2>2. Append(conn[c].stream, p) \in Seq(Parts)
      BY <1>1, <2>1
    <2> QED
      BY <2>2
  <1>3. PICK k : k = [conn[c] EXCEPT !.stream = s]
    OBVIOUS
  <1>4. k \in Conn /\ k.local = conn[c].local /\ k.remote = conn[c].remote /\ k.stream = s
    BY <1>3, ConnType DEF Conn
  <1>5. conn \in [Conns -> Conn] /\ conn' = [conn EXCEPT ![c] = k]
    BY <1>1, <1>2, <1>3 DEF Types, Put
  <1> QED
    BY <1>1, <1>2, <1>4, <1>5

LEMMA CutType ==
  ASSUME Types, NEW C \in SUBSET Conns, Cut(C)
  PROVE  /\ conn' \in [Conns -> Conn]
         /\ \A c \in C : /\ conn'[c].local = conn[c].local
                         /\ conn'[c].remote = "closed" /\ conn'[c].stream = <<>>
         /\ \A c \in Conns \ C : conn'[c] = conn[c]
         /\ lost' \subseteq sent
  <1>1. \A c \in C : \E k \in Conn :
          /\ k = [conn[c] EXCEPT !.remote = "closed", !.stream = <<>>]
          /\ k.local = conn[c].local /\ k.remote = "closed" /\ k.stream = <<>>
    <2> TAKE c \in C
    <2>1. PICK k : k = [conn[c] EXCEPT !.remote = "closed", !.stream = <<>>]
      OBVIOUS
    <2>2. <<>> \in Seq(Parts)
      OBVIOUS
    <2>3. k \in Conn /\ k.local = conn[c].local /\ k.remote = "closed" /\ k.stream = <<>>
      BY <2>1, <2>2, ConnType DEF Conn, Ends
    <2> QED
      BY <2>1, <2>3
  <1>2. conn' \in [Conns -> Conn]
    BY <1>1, ConnType DEF Cut
  <1> QED
    BY <1>1, <1>2 DEF Cut, Types

LEMMA DialType ==
  ASSUME Types, NEW w \in Workers, Dial(w), at'[w] = "storing"
  PROVE  \E c \in Conns :
           /\ conn[c].local = "unused"
           /\ conn' \in [Conns -> Conn]
           /\ conn'[c].local = "open" /\ conn'[c].remote = "open"
           /\ conn'[c].stream = conn[c].stream
           /\ \A d \in Conns \ {c} : conn'[d] = conn[d]
           /\ using' = [using EXCEPT ![w] = c]
           /\ Go(w, "storing")
           /\ UNCHANGED <<table, known, stopped, peer, calls, history>>
  <1>1. ~ GaveUp(w)
    <2> SUFFICES ASSUME GaveUp(w) PROVE FALSE
      OBVIOUS
    <2>1. at'[w] = IF w = Sender THEN "idle" ELSE "gone"
      BY GoType DEF GaveUp
    <2> QED
      BY <2>1
  <1>2. PICK c \in Conns :
          /\ conn[c].local = "unused"
          /\ conn' = [conn EXCEPT ![c].local = "open", ![c].remote = "open"]
          /\ using' = [using EXCEPT ![w] = c]
          /\ Go(w, "storing")
          /\ UNCHANGED <<table, known, stopped, peer, calls, history>>
    BY <1>1 DEF Dial, history
  <1>3. PICK k : k = [conn[c] EXCEPT !.local = "open", !.remote = "open"]
    OBVIOUS
  <1>4. k \in Conn /\ k.local = "open" /\ k.remote = "open" /\ k.stream = conn[c].stream
    BY <1>3, ConnType DEF Conn, Ends
  <1>5. conn \in [Conns -> Conn] /\ conn' = [conn EXCEPT ![c] = k]
    BY <1>2, <1>3 DEF Types
  <1>6. /\ conn' \in [Conns -> Conn] /\ conn'[c] = k
        /\ \A d \in Conns \ {c} : conn'[d] = conn[d]
    BY <1>4, <1>5
  <1> QED
    BY <1>2, <1>4, <1>6

LEMMA DialFails ==
  ASSUME Types, NEW w \in Workers, Dial(w), at'[w] # "storing"
  PROVE  /\ GaveUp(w) /\ faults' \in 0..MaxFaults
         /\ UNCHANGED <<links, using, known, stopped, peer, calls, lost>>
         /\ faults' \in {faults, faults + 1}
  <1>1. ~ Go(w, "storing")
    BY GoType
  <1>2. faults \in 0..MaxFaults /\ MaxFaults \in Nat
    BY Basics DEF Types
  <1> QED
    BY <1>1, <1>2 DEF Dial, Fault, links

LEMMA ConnectTypes ==
  ASSUME Types, Linked, NEW w \in Workers, Connect(w)
  PROVE  Types'
  <1>0. /\ w = Sender \/ w \in Conns
        /\ Sender \notin Conns
        /\ at[w] \in Connecting /\ at[w] \notin {"idle", "writing", "halfway"}
        /\ Types
        /\ faults \in 0..MaxFaults /\ known \subseteq Conns
        /\ table \in Conns \cup {NoConn} /\ conn \in [Conns -> Conn]
        /\ w = Sender => next <= MaxSends
    BY Basics DEF Workers, Connect, Check, Dial, Store, Connecting, Types
  <1>1. CASE Check(w)
    <2>1. PICK where : /\ Go(w, where)
                       /\ \/ where = "dialing"
                          \/ w = Sender /\ where = "rereading"
                          \/ w # Sender /\ where = "gone"
      BY <1>1 DEF Check, Connected
    <2>2. ~ Holds(w)
      BY <1>1 DEF Check, Holds
    <2>3. UNCHANGED <<links, using, known, stopped, peer, calls, history>>
      BY <1>1 DEF Check
    <2> QED
      BY <1>0, <2>1, <2>2, <2>3, MoveTypes DEF links, history
  <1>2. CASE Dial(w) /\ at'[w] # "storing"
    <2>1. /\ GaveUp(w) /\ faults' \in 0..MaxFaults
          /\ UNCHANGED <<links, using, known, stopped, peer, calls, lost>>
      BY <1>2, DialFails
    <2>2. PICK where : /\ Go(w, where)
                       /\ \/ w = Sender /\ where = "idle"
                          \/ w # Sender /\ where = "gone"
      BY <2>1 DEF GaveUp
    <2>3. ~ Holds(w)
      BY <1>2 DEF Dial, Holds
    <2> QED
      BY <1>0, <2>1, <2>2, <2>3, MoveTypes DEF links
  <1>3. CASE Dial(w) /\ at'[w] = "storing"
    <2>1. PICK c \in Conns :
            /\ conn' \in [Conns -> Conn]
            /\ using' = [using EXCEPT ![w] = c]
            /\ Go(w, "storing")
            /\ UNCHANGED <<table, known, stopped, peer, calls, history>>
      BY <1>3, DialType
    <2>2. /\ at' \in [Workers -> Places]
          /\ at'[w] = "storing" /\ \A v \in Workers \ {w} : at'[v] = at[v]
      BY <2>1 DEF Go, Types, Places, Connecting
    <2>3. /\ using' \in [Workers -> Conns \cup {NoConn}]
          /\ using'[w] = c /\ \A v \in Workers \ {w} : using'[v] = using[v]
      BY <2>1 DEF Types
    <2>4. \A v \in Workers : Holds(v)' <=> using'[v] # NoConn
      BY <2>2, <2>3, Basics DEF Types, Holds
    <2>5. /\ at'[Sender] \in Connecting \cup
               {"idle", "rereading", "writing", "halfway", "panicked"}
          /\ \A d \in Conns : at'[d] \in Connecting \cup
               {"none", "starting", "reading", "leaving", "removing", "failing", "gone"}
      BY <2>2, Basics DEF Types, Connecting
    <2>6. at'[Sender] # "idle" => next <= MaxSends
      BY <1>0, <2>2, Basics DEF Types
    <2> QED
      BY <2>1, <2>2, <2>3, <2>4, <2>5, <2>6 DEF Types, peer, calls, history
  <1>4. CASE Store(w)
    <2>1. PICK c \in Conns : c = using[w] /\ at[c] = "none" /\ c # w
      BY <1>4 DEF Store, Types, Holds, Linked
    <2>2. PICK where : /\ at' = [at EXCEPT ![w] = where, ![c] = "starting"]
                       /\ \/ w = Sender /\ where = "rereading"
                          \/ w \in Conns /\ where = "gone"
      BY <1>0, <1>4, <2>1 DEF Store
    <2>3. /\ at' \in [Workers -> Places]
          /\ at'[w] = where /\ at'[c] = "starting"
          /\ \A v \in Workers \ {w, c} : at'[v] = at[v]
      BY <2>1, <2>2, Basics DEF Types, Places
    <2>4. /\ using' \in [Workers -> Conns \cup {NoConn}]
          /\ using'[w] = NoConn /\ \A v \in Workers \ {w} : using'[v] = using[v]
      BY <1>4 DEF Types, Store
    <2>5. \A v \in Workers : Holds(v)' <=> using'[v] # NoConn
      BY <2>1, <2>2, <2>3, <2>4 DEF Types, Holds
    <2>6. /\ at'[Sender] \in Connecting \cup
               {"idle", "rereading", "writing", "halfway", "panicked"}
          /\ \A d \in Conns : at'[d] \in Connecting \cup
               {"none", "starting", "reading", "leaving", "removing", "failing", "gone"}
      BY <2>1, <2>2, <2>3, Basics DEF Types, Connecting
    <2>7. at'[Sender] # "idle" => next <= MaxSends
      BY <1>0, <2>1, <2>3, Basics DEF Types
    <2> QED
      BY <1>4, <2>1, <2>3, <2>4, <2>5, <2>6, <2>7 DEF Types, Store, peer, calls, history
  <1> QED
    BY <1>1, <1>2, <1>3, <1>4 DEF Connect

\* Steps of the sender, but for connecting.
LEMMA SendTypes ==
  ASSUME Types, Linked, Send \/ Reread \/ WriteLength \/ WriteData
  PROVE  Types'
  <1> USE DEF links, peer, calls, history
  <1>0. /\ at[Sender] \in {"idle", "rereading", "writing", "halfway"}
        /\ at \in [Workers -> Places] /\ using \in [Workers -> Conns \cup {NoConn}]
        /\ Sender \in Workers /\ Sender \notin Conns
        /\ table \in Conns \cup {NoConn} /\ conn \in [Conns -> Conn]
        /\ next \in Nat /\ 1 <= next /\ next <= MaxSends + 1 /\ MaxSends \in Nat
        /\ at[Sender] # "idle" => next \in 1..MaxSends
        /\ NoConn \notin Conns
    BY Basics DEF Send, Reread, WriteLength, WriteData, Types
  <1>1. \E where \in {"checking", "rereading", "writing", "halfway", "panicked", "idle"},
           u \in Conns \cup {NoConn} :
          /\ Go(Sender, where) /\ using' = [using EXCEPT ![Sender] = u]
          /\ where \in {"writing", "halfway"} <=> u # NoConn
          /\ where # "idle" => next \in 1..MaxSends /\ next' = next
          /\ next' \in {next, next + 1} /\ (next' = next + 1 => next \in 1..MaxSends)
    <2>1. using[Sender] \in Conns \cup {NoConn}
      BY <1>0
    <2>2. using = [using EXCEPT ![Sender] = using[Sender]]
      BY <1>0
    <2>3. using[Sender] # NoConn <=> Holds(Sender)
      BY <1>0 DEF Types
    <2>4. CASE Send
      <3>1. next \in 1..MaxSends /\ next' = next
        BY <1>0, <2>4 DEF Send
      <3>2. ~ Holds(Sender)
        BY <2>4 DEF Send, Holds
      <3> QED
        BY <1>0, <2>1, <2>2, <2>3, <2>4, <3>1, <3>2 DEF Send, Stored
    <2>5. CASE Reread
      BY <1>0, <2>5 DEF Reread, Stored
    <2>6. CASE WriteLength
      <3>1. Holds(Sender)
        BY <2>6 DEF WriteLength, Holds
      <3>2. CASE Go(Sender, "halfway") /\ UNCHANGED <<using, next>>
        BY <1>0, <2>1, <2>2, <2>3, <2>6, <3>1, <3>2 DEF WriteLength
      <3>3. CASE Done
        BY <1>0, <2>6, <3>3 DEF WriteLength, Done
      <3> QED
        BY <2>6, <3>2, <3>3 DEF WriteLength
    <2>7. CASE WriteData
      BY <1>0, <2>7 DEF WriteData, Done
    <2> QED
      BY <2>4, <2>5, <2>6, <2>7
  <1>2. PICK where \in {"checking", "rereading", "writing", "halfway", "panicked", "idle"},
             u \in Conns \cup {NoConn} :
          /\ Go(Sender, where) /\ using' = [using EXCEPT ![Sender] = u]
          /\ where \in {"writing", "halfway"} <=> u # NoConn
          /\ where # "idle" => next \in 1..MaxSends /\ next' = next
          /\ next' \in {next, next + 1} /\ (next' = next + 1 => next \in 1..MaxSends)
    BY <1>1
  <1>3. /\ at' \in [Workers -> Places] /\ at'[Sender] = where
        /\ \A w \in Workers \ {Sender} : at'[w] = at[w]
    BY <1>2, Basics DEF Go, Types, Places, Connecting
  <1>4. /\ using' \in [Workers -> Conns \cup {NoConn}] /\ using'[Sender] = u
        /\ \A w \in Workers \ {Sender} : using'[w] = using[w]
    BY <1>0, <1>2
  <1>5. \A w \in Workers : Holds(w)' <=> using'[w] # NoConn
    BY <1>2, <1>3, <1>4 DEF Types, Holds
  <1>6. /\ at'[Sender] \in Connecting \cup
             {"idle", "rereading", "writing", "halfway", "panicked"}
        /\ \A d \in Conns : at'[d] \in Connecting \cup
             {"none", "starting", "reading", "leaving", "removing", "failing", "gone"}
    BY <1>3, Basics DEF Types, Connecting
  <1>7. /\ next' \in Nat /\ 1 <= next' /\ next' <= MaxSends + 1
        /\ at'[Sender] # "idle" => next' <= MaxSends
    BY <1>0, <1>2, <1>3
  <1>8. /\ table' \in Conns \cup {NoConn}
        /\ UNCHANGED <<known, stopped, up, arrived>>
    BY <1>0 DEF Send, Reread, WriteLength, WriteData, Dropped
  <1>9. faults' \in 0..MaxFaults
    BY Basics DEF Types, Send, Reread, WriteLength, WriteData, Fault
  <1>10. conn' \in [Conns -> Conn]
    <2>1. CASE conn' = conn
      BY <1>0, <2>1
    <2>2. CASE conn' # conn
      <3>1. PICK c \in Conns, part \in {"length", "data"} : Put(c, part)
        <4>1. Holds(Sender)
          BY <2>2 DEF Send, Reread, WriteLength, WriteData, Holds
        <4>2. using[Sender] \in Conns
          BY <1>0, <4>1 DEF Types
        <4> QED
          BY <2>2, <4>2 DEF Send, Reread, WriteLength, WriteData
      <3>2. next \in 1..MaxSends
        BY <1>0, <2>2 DEF Send, Reread, WriteLength, WriteData
      <3> QED
        BY <3>1, <3>2, PutType
    <2> QED
      BY <2>1, <2>2
  <1>11. /\ sent' \in {sent, sent \cup {next}} /\ lost' \in {lost, lost \cup {next}}
         /\ lost' # lost => sent' = sent \cup {next}
         /\ sent' # sent => at[Sender] # "idle"
    BY DEF Send, Reread, WriteLength, WriteData
  <1>12. sent' \subseteq 1..MaxSends /\ lost' \subseteq sent' /\ sent \subseteq sent'
    BY <1>0, <1>11 DEF Types
  <1>13. arrived' \in Seq(sent')
    BY <1>8, <1>12, SeqGrows DEF Types
  <1> QED
    BY <1>3, <1>4, <1>5, <1>6, <1>7, <1>8, <1>9, <1>10, <1>12, <1>13 DEF Types

LEMMA ReaderTypes ==
  ASSUME Types, NEW c \in Conns,
         Identify(c) \/ ReadFails(c) \/ Leave(c) \/ CloseConnection(c) \/ Reconnect(c)
  PROVE  Types'
  <1>0. /\ c \in Workers /\ c # Sender /\ ~ Holds(c)
        /\ known \subseteq Conns /\ faults \in 0..MaxFaults
        /\ table \in Conns \cup {NoConn} /\ conn \in [Conns -> Conn]
        /\ NoConn \notin Conns
    BY Basics DEF Types, Identify, ReadFails, Leave, CloseConnection, Reconnect, Holds
  <1>1. PICK where \in {"checking", "leaving", "reading", "removing", "failing", "gone"} :
          Go(c, where)
    BY DEF Identify, ReadFails, Leave, CloseConnection, Reconnect
  <1>2. conn' \in [Conns -> Conn]
    <2>1. CASE Leave(c)
      BY <2>1, ClosedType DEF Leave
    <2>2. CASE CloseConnection(c) /\ Stored
      BY <1>0, <2>2, ClosedType DEF CloseConnection, Stored
    <2>3. CASE ~ Leave(c) /\ ~ (CloseConnection(c) /\ Stored)
      BY <1>0, <2>3 DEF Identify, ReadFails, CloseConnection, Reconnect, links
    <2> QED
      BY <2>1, <2>2, <2>3
  <1>3. /\ UNCHANGED <<using, stopped, peer, calls, lost, faults>>
        /\ known' \subseteq Conns /\ table' \in Conns \cup {NoConn}
    BY <1>0 DEF Identify, ReadFails, Leave, CloseConnection, Reconnect, links, history
  <1> QED
    BY <1>0, <1>1, <1>2, <1>3, MoveTypes

\* Nobody moves: the rest of the process, the peer and the network.
LEMMA OtherTypes ==
  ASSUME Types, Framed,
         \/ Stop \/ PeerStarts \/ PeerCrashes
         \/ \E c \in Conns : Peer(c) \/ Reset(c)
         \/ UNCHANGED vars
  PROVE  Types' /\ UNCHANGED <<at, using, known, next, sent>>
  <1> USE DEF links, peer, calls, history
  <1>1. UNCHANGED <<at, using, known, next, sent>>
    BY DEF Stop, PeerStarts, PeerCrashes, Peer, Read, ReadEnd, Reset, vars
  <1>2. /\ table' \in Conns \cup {NoConn} /\ stopped' \in BOOLEAN /\ up' \in BOOLEAN
        /\ faults' \in 0..MaxFaults
    <2>1. faults' = faults \/ (faults < MaxFaults /\ faults' = faults + 1)
      BY DEF Stop, PeerStarts, PeerCrashes, Peer, Read, ReadEnd, Reset, vars, Fault
    <2>2. faults' \in 0..MaxFaults
      BY <2>1, Basics DEF Types
    <2>3. table' \in {table, NoConn} /\ stopped' \in {stopped, TRUE}
      BY DEF Stop, PeerStarts, PeerCrashes, Peer, Read, ReadEnd, Reset, vars
    <2>4. up' \in {up, TRUE, FALSE}
      BY DEF Stop, PeerStarts, PeerCrashes, Peer, Read, ReadEnd, Reset, vars
    <2> QED
      BY <2>2, <2>3, <2>4 DEF Types
  <1>3. conn' \in [Conns -> Conn] /\ lost' \subseteq sent /\ arrived' \in Seq(sent)
    <2>0. /\ conn \in [Conns -> Conn] /\ lost \subseteq sent /\ arrived \in Seq(sent)
          /\ NoConn \notin Conns
      BY Basics DEF Types
    <2>1. CASE Stop
      <3>1. UNCHANGED <<lost, arrived>>
        BY <2>1 DEF Stop
      <3>2. CASE Stored
        BY <2>0, <2>1, <3>1, <3>2, ClosedType DEF Stop, Stored, Types
      <3>3. CASE ~ Stored
        BY <2>0, <2>1, <3>1, <3>3 DEF Stop
      <3> QED
        BY <3>2, <3>3
    <2>2. CASE PeerCrashes
      <3>1. \E C \in SUBSET Conns : Cut(C)
        BY <2>2 DEF PeerCrashes
      <3>2. conn' \in [Conns -> Conn] /\ lost' \subseteq sent
        BY <3>1, CutType
      <3> QED
        BY <2>0, <2>2, <3>2 DEF PeerCrashes
    <2>3. ASSUME NEW c \in Conns, Reset(c)
          PROVE  conn' \in [Conns -> Conn] /\ lost' \subseteq sent /\ arrived' \in Seq(sent)
      <3>1. {c} \in SUBSET Conns /\ Cut({c})
        BY <2>3 DEF Reset
      <3>2. conn' \in [Conns -> Conn] /\ lost' \subseteq sent
        BY <3>1, CutType
      <3> QED
        BY <2>0, <2>3, <3>2 DEF Reset
    <2>4. ASSUME NEW c \in Conns, Read(c)
          PROVE  conn' \in [Conns -> Conn] /\ lost' \subseteq sent /\ arrived' \in Seq(sent)
      <3>1. PICK s \in Seq(Parts) : s = conn[c].stream /\ Len(s) > 1
        BY <2>4, ConnType DEF Read
      <3>2. /\ 1 \in DOMAIN s /\ 2 \in DOMAIN s /\ s # <<>>
            /\ 1 % 2 = 1 /\ 2 % 2 # 1 /\ 2 - 1 = 1
        BY <3>1
      <3>3. s[2].part = "data" /\ s[2].of = s[1].of
        <4>1. s[2] = [part |-> "data", of |-> s[2 - 1].of]
          BY <3>1, <3>2 DEF Framed, FramesIntact
        <4> QED
          BY <3>2, <4>1
      <3>4. s[1].of \in sent
        BY <3>1, <3>2, <3>3 DEF Framed
      <3>5. Head(s) = s[1] /\ Tail(Tail(s)) \in Seq(Parts)
        BY <3>1, TailTail
      <3>7. PICK k : k = [conn[c] EXCEPT !.stream = Tail(Tail(s))]
        OBVIOUS
      <3>8. k \in Conn
        BY <3>5, <3>7, ConnType DEF Conn
      <3>9. conn' = [conn EXCEPT ![c] = k]
        BY <2>0, <2>4, <3>1, <3>7 DEF Read
      <3>10. arrived' = Append(arrived, s[1].of) /\ lost' = lost
        BY <2>4, <3>1, <3>5 DEF Read
      <3> QED
        BY <2>0, <3>4, <3>8, <3>9, <3>10
    <2>5. ASSUME NEW c \in Conns, ReadEnd(c)
          PROVE  conn' \in [Conns -> Conn] /\ lost' \subseteq sent /\ arrived' \in Seq(sent)
      <3>1. <<>> \in Seq(Parts)
        OBVIOUS
      <3>2. PICK k : k = [conn[c] EXCEPT !.remote = "closed", !.stream = <<>>]
        OBVIOUS
      <3>3. k \in Conn
        BY <3>1, <3>2, ConnType DEF Conn, Ends
      <3>4. conn' = [conn EXCEPT ![c] = k]
        BY <2>0, <2>5, <3>2 DEF ReadEnd
      <3> QED
        BY <2>0, <2>5, <3>3, <3>4 DEF ReadEnd
    <2>6. CASE PeerStarts \/ UNCHANGED vars
      BY <2>0, <2>6 DEF PeerStarts, vars
    <2> QED
      BY <2>1, <2>2, <2>3, <2>4, <2>5, <2>6 DEF Peer
  <1>4. \A w \in Workers : Holds(w)' <=> using'[w] # NoConn
    BY <1>1 DEF Types, Holds
  <1> QED
    BY <1>1, <1>2, <1>3, <1>4 DEF Types

-----------------------------------------------------------------------------
(* Who has which connection. *)

\* Steps that put no connection into the table and start no reader.
LEMMA LinkedMove ==
  ASSUME Types, Types', Linked,
         \A v \in Workers :
           \/ at'[v] = at[v]
           \/ at[v] \notin {"none", "storing"} /\ at'[v] \notin {"none", "storing"},
         \A v \in Workers :
           /\ using'[v] \in {using[v], NoConn, table}
           /\ at'[v] = "storing" => using'[v] = using[v],
         table' \in {table, NoConn},
         \A c \in Conns :
           \/ conn'[c] = conn[c]
           \/ /\ conn[c].local # "unused" /\ conn'[c].local # "unused"
              /\ conn'[c].local # conn[c].local =>
                   at[c] # "none" /\ (table' = c => at'[c] = "removing"),
         table' # NoConn =>
           /\ at'[table] \in {"starting", "reading", "leaving", "removing"}
           /\ at'[table] # "starting" => table \in known'
           /\ at[table] = "removing" => at'[table] = "removing"
  PROVE  Linked'
  <1>0. /\ NoConn \notin Conns /\ Conns \subseteq Workers
        /\ table # NoConn => table \in Conns /\ at[table] # "none"
        /\ \A v \in Workers : at[v] = "storing" => using[v] \in Conns
    BY Basics DEF Types, Linked, Holds
  <1>1. \A c \in Conns : conn'[c].local = "unused" =>
          /\ conn'[c].remote = "unused" /\ conn'[c].stream = <<>>
          /\ at'[c] = "none"
          /\ \A w \in Workers : using'[w] # c
    <2> SUFFICES ASSUME NEW c \in Conns, conn'[c].local = "unused"
                 PROVE  /\ conn'[c].remote = "unused" /\ conn'[c].stream = <<>>
                        /\ at'[c] = "none"
                        /\ \A w \in Workers : using'[w] # c
      OBVIOUS
    <2>1. /\ conn'[c] = conn[c] /\ conn[c].local = "unused"
          /\ conn[c].remote = "unused" /\ conn[c].stream = <<>> /\ at[c] = "none"
          /\ \A w \in Workers : using[w] # c
      BY DEF Linked
    <2> QED
      BY <1>0, <2>1
  <1>2. \A w \in Workers : at'[w] = "storing" =>
          /\ at[w] = "storing" /\ using'[w] = using[w] /\ using[w] \in Conns
          /\ at[using[w]] = "none" /\ at'[using[w]] = "none"
          /\ conn'[using[w]].local = "open"
    BY <1>0 DEF Linked
  <1>3. \A v, w \in Workers : at'[v] = "storing" /\ using'[v] = using'[w] => v = w
    <2> SUFFICES ASSUME NEW v \in Workers, NEW w \in Workers,
                        at'[v] = "storing", using'[v] = using'[w]
                 PROVE  v = w
      OBVIOUS
    <2>1. using'[w] # NoConn /\ using'[w] # table
      BY <1>0, <1>2
    <2>2. using'[w] = using[w]
      BY <2>1
    <2> QED
      BY <1>2, <2>2 DEF Linked
  <1>4. table' # NoConn =>
          /\ at'[table'] \in {"starting", "reading", "leaving", "removing"}
          /\ at'[table'] # "starting" => table' \in known'
          /\ conn'[table'].local # "open" => at'[table'] = "removing"
    BY <1>0 DEF Linked
  <1>5. \A w \in Workers : at'[w] \in {"writing", "halfway"} => at'[using'[w]] # "none"
    <2> SUFFICES ASSUME NEW w \in Workers, at'[w] \in {"writing", "halfway"}
                 PROVE  at'[using'[w]] # "none"
      OBVIOUS
    <2>1. using'[w] \in Conns
      BY <1>0 DEF Types, Holds
    <2>2. at[using'[w]] # "none"
      <3>1. CASE using'[w] = table
        BY <1>0, <2>1, <3>1
      <3>2. CASE using'[w] # table
        <4>1. using[w] = using'[w] /\ using[w] # NoConn
          BY <1>0, <2>1, <3>2
        <4>2. at[w] \in {"writing", "halfway"}
          BY <4>1 DEF Types, Holds
        <4> QED
          BY <4>1, <4>2 DEF Linked
      <3> QED
        BY <3>1, <3>2
    <2> QED
      BY <1>0, <2>1, <2>2
  <1> QED
    BY <1>1, <1>2, <1>3, <1>4, <1>5 DEF Linked

LEMMA LinkedDial ==
  ASSUME Types, Linked, NEW w \in Workers, Dial(w), at'[w] = "storing"
  PROVE  Linked'
  <1>0. NoConn \notin Conns /\ Conns \subseteq Workers
    BY Basics
  <1>1. PICK c \in Conns :
          /\ conn[c].local = "unused"
          /\ conn'[c].local = "open" /\ conn'[c].stream = conn[c].stream
          /\ \A d \in Conns \ {c} : conn'[d] = conn[d]
          /\ using' = [using EXCEPT ![w] = c]
          /\ Go(w, "storing")
          /\ UNCHANGED <<table, known>>
    BY DialType
  <1>2. /\ at[c] = "none" /\ \A v \in Workers : using[v] # c
        /\ at[w] # "none" /\ c # w
    BY <1>1 DEF Linked, Dial
  <1>3. /\ \A v \in Workers \ {w} : at'[v] = at[v]
        /\ using'[w] = c /\ \A v \in Workers \ {w} : using'[v] = using[v]
    BY <1>1, GoType DEF Types
  <1>4. /\ table # c
        /\ table # NoConn => table \in Conns /\ at'[table] = at[table]
                             /\ conn'[table] = conn[table]
    <2>1. table # NoConn => table \in Conns /\ table # c /\ table # w
      BY <1>2 DEF Types, Linked, Dial
    <2> QED
      BY <1>0, <1>1, <1>3, <2>1
  <1>5. \A d \in Conns : conn'[d].local = "unused" =>
          /\ conn'[d].remote = "unused" /\ conn'[d].stream = <<>>
          /\ at'[d] = "none"
          /\ \A v \in Workers : using'[v] # d
    BY <1>0, <1>1, <1>2, <1>3 DEF Linked
  <1>6. \A v \in Workers : at'[v] = "storing" =>
          at'[using'[v]] = "none" /\ conn'[using'[v]].local = "open"
    <2> SUFFICES ASSUME NEW v \in Workers, at'[v] = "storing"
                 PROVE  at'[using'[v]] = "none" /\ conn'[using'[v]].local = "open"
      OBVIOUS
    <2>1. CASE v = w
      BY <1>0, <1>1, <1>2, <1>3, <2>1
    <2>2. CASE v # w
      <3>1. at[v] = "storing" /\ using'[v] = using[v]
        BY <1>3, <2>2
      <3>2. /\ using[v] \in Conns /\ at[using[v]] = "none"
            /\ conn[using[v]].local = "open"
        BY <3>1 DEF Linked, Types, Holds
      <3> QED
        BY <1>0, <1>1, <1>2, <1>3, <3>1, <3>2
    <2> QED
      BY <2>1, <2>2
  <1>7. \A u, v \in Workers : at'[u] = "storing" /\ using'[u] = using'[v] => u = v
    BY <1>2, <1>3 DEF Linked
  <1>8. \A v \in Workers : at'[v] \in {"writing", "halfway"} => at'[using'[v]] # "none"
    <2> SUFFICES ASSUME NEW v \in Workers, at'[v] \in {"writing", "halfway"}
                 PROVE  at'[using'[v]] # "none"
      OBVIOUS
    <2>1. v # w /\ at[v] = at'[v] /\ using'[v] = using[v]
      BY <1>1, <1>3, GoType
    <2>2. using[v] \in Conns /\ at[using[v]] # "none"
      BY <2>1 DEF Linked, Types, Holds
    <2> QED
      BY <1>0, <1>1, <1>3, <2>1, <2>2, GoType
  <1> QED
    BY <1>1, <1>4, <1>5, <1>6, <1>7, <1>8 DEF Linked

LEMMA LinkedStore ==
  ASSUME Types, Linked, NEW w \in Workers, Store(w)
  PROVE  Linked'
  <1>0. /\ NoConn \notin Conns /\ Conns \subseteq Workers
        /\ at \in [Workers -> Places] /\ using \in [Workers -> Conns \cup {NoConn}]
        /\ conn' = conn /\ known' = known
    BY Basics DEF Types, Store
  <1>1. PICK c \in Conns :
          /\ c = using[w] /\ at[c] = "none" /\ c # w /\ conn[c].local = "open"
          /\ \A v \in Workers \ {w} : using[v] # c
    BY DEF Store, Types, Holds, Linked
  <1>2. /\ at'[c] = "starting" /\ at'[w] \in {"rereading", "gone"}
        /\ \A v \in Workers \ {w, c} : at'[v] = at[v]
        /\ using'[w] = NoConn /\ \A v \in Workers \ {w} : using'[v] = using[v]
        /\ table' = c /\ at[w] = "storing"
    BY <1>0, <1>1 DEF Store
  <1>3. \A d \in Conns : conn[d].local = "unused" =>
          d # c /\ d # w /\ at'[d] = at[d]
    BY <1>0, <1>1, <1>2 DEF Linked
  <1>4. \A d \in Conns : conn'[d].local = "unused" =>
          /\ conn'[d].remote = "unused" /\ conn'[d].stream = <<>>
          /\ at'[d] = "none"
          /\ \A v \in Workers : using'[v] # d
    BY <1>0, <1>2, <1>3 DEF Linked
  <1>5. \A v \in Workers : at'[v] = "storing" =>
          /\ v # w /\ at[v] = "storing" /\ using'[v] = using[v]
          /\ at'[using[v]] = "none" /\ conn'[using[v]].local = "open"
    <2> SUFFICES ASSUME NEW v \in Workers, at'[v] = "storing"
                 PROVE  /\ v # w /\ at[v] = "storing" /\ using'[v] = using[v]
                        /\ at'[using[v]] = "none" /\ conn'[using[v]].local = "open"
      OBVIOUS
    <2>1. v # w /\ v # c /\ at[v] = "storing" /\ using'[v] = using[v]
      BY <1>0, <1>2
    <2>2. /\ using[v] \in Conns /\ at[using[v]] = "none"
          /\ conn[using[v]].local = "open"
      BY <2>1 DEF Linked, Types, Holds
    <2>3. using[v] # c /\ using[v] # w
      BY <1>1, <1>2, <2>1, <2>2
    <2> QED
      BY <1>0, <1>2, <2>1, <2>2, <2>3
  <1>6. \A u, v \in Workers : at'[u] = "storing" /\ using'[u] = using'[v] => u = v
    <2> SUFFICES ASSUME NEW u \in Workers, NEW v \in Workers,
                        at'[u] = "storing", using'[u] = using'[v]
                 PROVE  u = v
      OBVIOUS
    <2>1. at[u] = "storing" /\ using'[u] = using[u] /\ using[u] \in Conns
      BY <1>5 DEF Types, Holds
    <2>2. v # w /\ using'[v] = using[v]
      BY <1>0, <1>2, <2>1
    <2> QED
      BY <2>1, <2>2 DEF Linked
  <1>7. \A v \in Workers : at'[v] \in {"writing", "halfway"} => at'[using'[v]] # "none"
    <2> SUFFICES ASSUME NEW v \in Workers, at'[v] \in {"writing", "halfway"}
                 PROVE  at'[using'[v]] # "none"
      OBVIOUS
    <2>1. v # w /\ at[v] = at'[v] /\ using'[v] = using[v]
      BY <1>0, <1>1, <1>2
    <2>2. using[v] \in Conns /\ at[using[v]] # "none"
      BY <2>1 DEF Linked, Types, Holds
    <2> QED
      BY <1>0, <1>1, <1>2, <2>1, <2>2
  <1> QED
    BY <1>0, <1>1, <1>2, <1>4, <1>5, <1>6, <1>7 DEF Linked

LEMMA LinkedStep ==
  ASSUME Types, Types', Linked, Framed, [Next]_vars
  PROVE  Linked'
  <1> DEFINE Moves ==
        /\ \A v \in Workers : \/ at'[v] = at[v]
                                \/ /\ at[v] \notin {"none", "storing"}
                                   /\ at'[v] \notin {"none", "storing"}
        /\ \A v \in Workers :
             /\ using'[v] \in {using[v], NoConn, table}
             /\ at'[v] = "storing" => using'[v] = using[v]
        /\ table' \in {table, NoConn}
        /\ \A c \in Conns :
             \/ conn'[c] = conn[c]
             \/ /\ conn[c].local # "unused" /\ conn'[c].local # "unused"
                /\ conn'[c].local # conn[c].local =>
                     at[c] # "none" /\ (table' = c => at'[c] = "removing")
        /\ table' # NoConn =>
             /\ at'[table] \in {"starting", "reading", "leaving", "removing"}
             /\ at'[table] # "starting" => table \in known'
             /\ at[table] = "removing" => at'[table] = "removing"
  <1>0. /\ NoConn \notin Conns /\ Conns \subseteq Workers
        /\ Sender \in Workers /\ Sender \notin Conns
        /\ at \in [Workers -> Places] /\ using \in [Workers -> Conns \cup {NoConn}]
        /\ table # NoConn => table \in Conns
        /\ table # NoConn => /\ at[table] \in {"starting", "reading", "leaving", "removing"}
                             /\ at[table] # "starting" => table \in known
                             /\ conn[table].local # "open" => at[table] = "removing"
        /\ \A c \in Conns : conn[c].local = "unused" => conn[c].remote = "unused"
    BY Basics DEF Types, Linked
  <1>1. ASSUME Moves PROVE Linked'
    BY <1>1, LinkedMove
  <1>2. ASSUME NEW w \in Workers, Connect(w) PROVE Linked'
    <2>1. CASE Check(w)
      <3>1. \E where : Go(w, where) /\ where \notin {"none", "storing"}
        BY <2>1 DEF Check, Connected
      <3>2. /\ UNCHANGED <<links, using, known>> /\ at[w] = "checking"
        BY <2>1 DEF Check
      <3>3. Moves
        BY <1>0, <3>1, <3>2, GoType DEF links
      <3> QED
        BY <1>1, <3>3
    <2>2. CASE Dial(w) /\ at'[w] # "storing"
      <3>1. \E where : Go(w, where) /\ where \notin {"none", "storing"}
        BY <2>2, DialFails DEF GaveUp
      <3>2. /\ UNCHANGED <<links, using, known>> /\ at[w] = "dialing"
        BY <2>2, DialFails DEF Dial
      <3>3. Moves
        BY <1>0, <3>1, <3>2, GoType DEF links
      <3> QED
        BY <1>1, <3>3
    <2>3. CASE Dial(w) /\ at'[w] = "storing"
      BY <2>3, LinkedDial
    <2> QED
      BY <1>2, <2>1, <2>2, <2>3, LinkedStore DEF Connect
  <1>3. ASSUME Send \/ Reread \/ WriteLength \/ WriteData PROVE Linked'
    <2>1. /\ at[Sender] \notin {"none", "storing"}
          /\ known' = known /\ table' \in {table, NoConn}
      BY <1>3 DEF Send, Reread, WriteLength, WriteData, Dropped, links
    <2>2. \E where : Go(Sender, where) /\ where \notin {"none", "storing"}
      BY <1>3 DEF Send, Reread, WriteLength, WriteData, Done
    <2>3. /\ at'[Sender] \notin {"none", "storing"}
          /\ \A v \in Workers \ {Sender} : at'[v] = at[v]
      BY <1>0, <2>2, GoType
    <2>4. \A v \in Workers : using'[v] = using[v] \/ (v = Sender /\ using'[v] \in {table, NoConn})
      BY <1>0, <1>3 DEF Send, Reread, WriteLength, WriteData, Done
    <2>5. \A c \in Conns :
            \/ conn'[c] = conn[c]
            \/ /\ conn[c].local # "unused" /\ conn'[c].local = conn[c].local
      <3>1. CASE conn' = conn
        BY <3>1
      <3>2. CASE conn' # conn
        <4>1. Holds(Sender) /\ next \in 1..MaxSends
          BY <1>3, <3>2, Basics DEF Send, Reread, WriteLength, WriteData, Holds, Types, links
        <4>2. PICK d \in Conns, part \in {"length", "data"} : Put(d, part) /\ Both(d)
          <5>1. using[Sender] \in Conns
            BY <1>0, <4>1 DEF Types
          <5> QED
            BY <1>3, <3>2, <5>1 DEF Send, Reread, WriteLength, WriteData, links
        <4>3. conn'[d].local = conn[d].local /\ \A c \in Conns \ {d} : conn'[c] = conn[c]
          BY <4>1, <4>2, PutType
        <4> QED
          BY <4>2, <4>3 DEF Both
      <3> QED
        BY <3>1, <3>2
    <2>6. Moves
      BY <1>0, <2>1, <2>3, <2>4, <2>5
    <2> QED
      BY <1>1, <2>6
  <1>4. ASSUME NEW c \in Conns,
               Identify(c) \/ ReadFails(c) \/ Leave(c) \/ CloseConnection(c) \/ Reconnect(c)
        PROVE  Linked'
    <2>0. at[c] \notin {"none", "storing"} /\ using' = using /\ c \in Workers
      BY <1>0, <1>4 DEF Identify, ReadFails, Leave, CloseConnection, Reconnect
    <2>1. PICK where : Go(c, where) /\ where \notin {"none", "storing"}
      BY <1>4 DEF Identify, ReadFails, Leave, CloseConnection, Reconnect
    <2>2. at'[c] = where /\ \A v \in Workers \ {c} : at'[v] = at[v]
      BY <2>0, <2>1, GoType
    <2>3. CASE Identify(c)
      <3>1. where \in {"leaving", "reading"}
        BY <2>0, <2>2, <2>3 DEF Identify, Go, Types
      <3>2. /\ UNCHANGED <<table, conn>> /\ at[c] = "starting"
            /\ known \subseteq known' /\ (table = c => c \in known')
        BY <2>3 DEF Identify, links, Own
      <3>3. Moves
        BY <1>0, <2>0, <2>2, <3>1, <3>2
      <3> QED
        BY <1>1, <3>3
    <2>4. CASE ReadFails(c)
      <3>1. /\ UNCHANGED <<table, conn, known>> /\ at[c] = "reading" /\ at'[c] = "leaving"
        BY <2>0, <2>4 DEF ReadFails, links, Go, Types
      <3>2. Moves
        BY <1>0, <2>0, <2>2, <3>1
      <3> QED
        BY <1>1, <3>2
    <2>5. CASE Leave(c)
      <3>1. /\ UNCHANGED <<table, known>> /\ at[c] = "leaving"
            /\ at'[c] = IF c \in known THEN "removing" ELSE "gone"
        BY <2>0, <2>5 DEF Leave, Go, Types
      <3>2. conn'[c].local = "closed" /\ \A d \in Conns \ {c} : conn'[d] = conn[d]
        BY <2>5, ClosedType DEF Leave
      <3>3. conn[c].local # "unused"
        BY <3>1 DEF Linked
      <3>4. Moves
        BY <1>0, <2>0, <2>2, <3>1, <3>2, <3>3
      <3> QED
        BY <1>1, <3>4
    <2>6. CASE CloseConnection(c)
      <3>1. UNCHANGED <<using, known>> /\ table' = NoConn
        BY <2>6 DEF CloseConnection
      <3>2. \A d \in Conns : \/ conn'[d] = conn[d]
                             \/ table = d /\ conn'[d].local = "closed"
        BY <1>0, <2>6, ClosedType DEF CloseConnection, Stored
      <3>3. \A d \in Conns : table = d => at[d] # "none" /\ conn[d].local # "unused"
        BY <1>0 DEF Linked
      <3>4. Moves
        BY <1>0, <2>0, <2>1, <2>2, <3>1, <3>2, <3>3
      <3> QED
        BY <1>1, <3>4
    <2>7. CASE Reconnect(c)
      <3>1. UNCHANGED <<table, conn, known>> /\ at[c] = "failing"
        BY <2>7 DEF Reconnect, links
      <3>2. Moves
        BY <1>0, <2>0, <2>1, <2>2, <3>1
      <3> QED
        BY <1>1, <3>2
    <2> QED
      BY <1>4, <2>3, <2>4, <2>5, <2>6, <2>7
  <1>5. ASSUME \/ Stop \/ PeerStarts \/ PeerCrashes
               \/ \E c \in Conns : Peer(c) \/ Reset(c)
               \/ UNCHANGED vars
        PROVE  Linked'
    <2>1. UNCHANGED <<at, using, known>>
      BY <1>5, OtherTypes
    <2>2. CASE Stop
      <3>1. table' = NoConn
        BY <2>2 DEF Stop
      <3>2. \A d \in Conns : \/ conn'[d] = conn[d]
                             \/ table = d /\ conn'[d].local = "closed"
        BY <1>0, <2>2, ClosedType DEF Stop, Stored
      <3>3. \A d \in Conns : table = d => at[d] # "none" /\ conn[d].local # "unused"
        BY <1>0 DEF Linked
      <3>4. Moves
        BY <1>0, <2>1, <3>1, <3>2, <3>3
      <3> QED
        BY <1>1, <3>4
    <2>3. CASE ~ Stop
      <3>1. table' = table
        BY <1>5, <2>3 DEF PeerStarts, PeerCrashes, Peer, Read, ReadEnd, Reset, vars, links
      <3>2. \A d \in Conns :
              conn'[d] = conn[d] \/ (conn[d].remote = "open" /\ conn'[d].local = conn[d].local)
        <4>1. ASSUME NEW C \in SUBSET Conns, Cut(C), \A d \in C : conn[d].remote = "open"
              PROVE  \A d \in Conns :
                       \/ conn'[d] = conn[d]
                       \/ conn[d].remote = "open" /\ conn'[d].local = conn[d].local
          BY <4>1, CutType
        <4>2. CASE PeerCrashes
          BY <4>1, <4>2 DEF PeerCrashes
        <4>3. CASE \E c \in Conns : Reset(c)
          <5>1. PICK c \in Conns : Cut({c}) /\ conn[c].remote = "open"
            BY <4>3 DEF Reset
          <5> QED
            BY <4>1, <5>1
        <4>4. CASE \E c \in Conns : Peer(c)
          <5>1. PICK c \in Conns : \E r, s :
                  /\ conn[c].remote = "open"
                  /\ conn' = [conn EXCEPT ![c] = [conn[c] EXCEPT !.remote = r, !.stream = s]]
            <6>1. PICK c \in Conns : Read(c) \/ ReadEnd(c)
              BY <4>4 DEF Peer
            <6>2. CASE ReadEnd(c)
              BY <6>2 DEF ReadEnd
            <6>3. CASE Read(c)
              <7>1. PICK k : k = [conn[c] EXCEPT !.stream = Tail(Tail(@))]
                OBVIOUS
              <7>2. k = [conn[c] EXCEPT !.remote = conn[c].remote, !.stream = k.stream]
                BY <7>1, ConnType DEF Conn
              <7>3. conn' = [conn EXCEPT ![c] = k] /\ conn[c].remote = "open"
                BY <6>3, <7>1 DEF Read, Types
              <7> QED
                BY <7>2, <7>3
            <6> QED
              BY <6>1, <6>2, <6>3
          <5>2. PICK r, s :
                  /\ conn[c].remote = "open"
                  /\ conn' = [conn EXCEPT ![c] = [conn[c] EXCEPT !.remote = r, !.stream = s]]
            BY <5>1
          <5>3. PICK k : k = [conn[c] EXCEPT !.remote = r, !.stream = s]
            OBVIOUS
          <5>4. k.local = conn[c].local /\ conn' = [conn EXCEPT ![c] = k]
            BY <5>2, <5>3, ConnType DEF Conn
          <5> QED
            BY <5>2, <5>4 DEF Types
        <4>5. CASE PeerStarts \/ UNCHANGED vars
          BY <4>5 DEF PeerStarts, vars, links
        <4> QED
          BY <1>5, <2>3, <4>2, <4>3, <4>4, <4>5
      <3>3. Moves
        BY <1>0, <2>1, <3>1, <3>2
      <3> QED
        BY <1>1, <3>3
    <2> QED
      BY <2>2, <2>3
  <1> QED
    BY <1>0, <1>2, <1>3, <1>4, <1>5 DEF Next, Sending, Reader

-----------------------------------------------------------------------------
(* What is on the wire. *)

\* Whole frames, the last one perhaps without its data, of sent messages.
Frames(s, S) ==
  \A i \in DOMAIN s :
    /\ i % 2 = 1 => s[i].part = "length"
    /\ i % 2 # 1 => s[i] = [part |-> "data", of |-> s[i - 1].of]
    /\ s[i].part = "data" => s[i].of \in S

LEMMA FramesDef ==
  /\ Framed => \A c \in Conns : Frames(conn[c].stream, sent)
  /\ (\A c \in Conns : Frames(conn[c].stream, sent)) =>
       /\ FramesIntact
       /\ \A c \in Conns : \A i \in DOMAIN conn[c].stream :
            conn[c].stream[i].part = "data" => conn[c].stream[i].of \in sent
  BY DEF Framed, Frames, FramesIntact

LEMMA FramesGrow ==
  ASSUME NEW s, NEW S, NEW T, S \subseteq T, Frames(s, S)
  PROVE  Frames(s, T)
  BY DEF Frames

LEMMA FramesAppend ==
  ASSUME NEW s \in Seq(Parts), NEW S, Frames(s, S), NEW p \in Parts,
         NEW t, t = Append(s, p),
         p.part = "length" => ~ Odd(s),
         p.part = "data" => Odd(s) /\ s[Len(s)].of = p.of /\ p.of \in S
  PROVE  /\ Frames(t, S)
         /\ Odd(t) <=> ~ Odd(s)
         /\ t[Len(t)].of = p.of
  <1>1. p.part \in {"length", "data"} /\ p = [part |-> p.part, of |-> p.of]
    BY DEF Parts
  <1>2. /\ Len(s) \in Nat /\ t \in Seq(Parts) /\ Len(t) = Len(s) + 1
        /\ t[Len(s) + 1] = p /\ \A i \in 1..Len(s) : t[i] = s[i]
        /\ DOMAIN t = 1..(Len(s) + 1) /\ DOMAIN s = 1..Len(s)
    BY <1>1
  <1>3. Odd(t) <=> ~ Odd(s)
    BY <1>2, Parity DEF Odd
  <1>4. ASSUME NEW i \in 1..Len(s)
        PROVE  /\ i % 2 = 1 => t[i].part = "length"
               /\ i % 2 # 1 => t[i] = [part |-> "data", of |-> t[i - 1].of]
               /\ t[i].part = "data" => t[i].of \in S
    <2>1. 1 % 2 = 1
      OBVIOUS
    <2>2. i % 2 # 1 => i - 1 \in 1..Len(s)
      BY <1>2, <2>1
    <2> QED
      BY <1>2, <2>2 DEF Frames
  <1>5. /\ (Len(s) + 1) % 2 = 1 <=> p.part = "length"
        /\ (Len(s) + 1) - 1 = Len(s)
        /\ p.part = "data" => Len(s) \in 1..Len(s)
    <2>1. (Len(s) + 1) % 2 = 1 <=> ~ Odd(s)
      BY <1>2, Parity DEF Odd
    <2>2. 0 % 2 = 0
      OBVIOUS
    <2>3. Odd(s) => Len(s) # 0
      BY <2>2 DEF Odd
    <2> QED
      BY <1>1, <1>2, <2>1, <2>3
  <1>6. p.part = "data" => p = [part |-> "data", of |-> t[(Len(s) + 1) - 1].of]
    BY <1>1, <1>2, <1>5
  <1>7. Frames(t, S)
    <2> SUFFICES ASSUME NEW i \in 1..(Len(s) + 1)
                 PROVE  /\ i % 2 = 1 => t[i].part = "length"
                        /\ i % 2 # 1 => t[i] = [part |-> "data", of |-> t[i - 1].of]
                        /\ t[i].part = "data" => t[i].of \in S
      BY <1>2 DEF Frames
    <2>1. CASE i \in 1..Len(s)
      BY <1>4, <2>1
    <2>2. CASE i = Len(s) + 1
      <3>1. CASE p.part = "length"
        BY <1>1, <1>2, <1>5, <2>2, <3>1
      <3>2. CASE p.part = "data"
        BY <1>1, <1>2, <1>5, <1>6, <2>2, <3>2
      <3> QED
        BY <1>1, <3>1, <3>2
    <2> QED
      BY <1>2, <2>1, <2>2
  <1> QED
    BY <1>2, <1>3, <1>7

LEMMA FramesShift ==
  ASSUME NEW s \in Seq(Parts), NEW S, Frames(s, S), Len(s) > 1,
         NEW t \in Seq(Parts), Len(t) = Len(s) - 2,
         \A i \in DOMAIN t : i \in 1..(Len(s) - 2) /\ t[i] = s[i + 2]
  PROVE  /\ Frames(t, S)
         /\ Odd(t) <=> Odd(s)
         /\ Odd(s) => t[Len(t)] = s[Len(s)]
  <1>1. /\ DOMAIN t = 1..Len(t) /\ DOMAIN s = 1..Len(s)
        /\ Len(s) \in Nat /\ Len(t) \in Nat
    OBVIOUS
  <1>2. Odd(t) <=> Odd(s)
    <2>1. (Len(t) + 2) % 2 = Len(t) % 2
      BY <1>1, Parity
    <2> QED
      BY <1>1, <2>1 DEF Odd
  <1>3. ASSUME NEW i \in DOMAIN t
        PROVE  /\ i % 2 = 1 => t[i].part = "length"
               /\ i % 2 # 1 => t[i] = [part |-> "data", of |-> t[i - 1].of]
               /\ t[i].part = "data" => t[i].of \in S
    <2>0. i \in Nat /\ 1 <= i /\ i <= Len(t)
      BY <1>1
    <2>1. i + 2 \in DOMAIN s /\ (i + 2) % 2 = i % 2 /\ t[i] = s[i + 2]
      <3>1. i + 2 \in 1..Len(s)
        BY <1>1, <2>0
      <3>2. t[i] = s[i + 2]
        OBVIOUS
      <3> QED
        BY <1>1, <2>0, <3>1, <3>2, Parity
    <2>2. 1 % 2 = 1
      OBVIOUS
    <2>3. i % 2 # 1 => i - 1 \in DOMAIN t /\ (i + 2) - 1 = (i - 1) + 2
      <3>1. i % 2 # 1 => i - 1 \in 1..Len(t) /\ (i + 2) - 1 = (i - 1) + 2
        BY <1>1, <2>0, <2>2
      <3> QED
        BY <1>1, <3>1
    <2>4. i % 2 # 1 => t[i - 1] = s[(i + 2) - 1]
      BY <1>1, <2>1, <2>3
    <2>5. /\ (i + 2) % 2 = 1 => s[i + 2].part = "length"
          /\ (i + 2) % 2 # 1 => s[i + 2] = [part |-> "data", of |-> s[(i + 2) - 1].of]
          /\ s[i + 2].part = "data" => s[i + 2].of \in S
      BY <2>1 DEF Frames
    <2> QED
      BY <2>1, <2>4, <2>5
  <1>4. Frames(t, S)
    BY <1>3 DEF Frames
  <1>5. Odd(s) => t[Len(t)] = s[Len(s)]
    <2>1. 0 % 2 = 0
      OBVIOUS
    <2>2. Odd(s) => Len(t) # 0
      BY <1>2, <2>1 DEF Odd
    <2> QED
      BY <1>1, <2>2
  <1> QED
    BY <1>2, <1>4, <1>5

LEMMA FramesTail ==
  ASSUME NEW s \in Seq(Parts), NEW S, Frames(s, S), Len(s) > 1,
         NEW t, t = Tail(Tail(s))
  PROVE  /\ Frames(t, S)
         /\ Odd(t) <=> Odd(s)
         /\ Odd(s) => t[Len(t)] = s[Len(s)]
  BY TailTail, FramesShift

\* Steps that put nothing on the wire and take no frame from it.
LEMMA FramedMove ==
  ASSUME Framed, sent \subseteq sent',
         \A c \in Conns :
           \/ conn'[c].stream = <<>>
           \/ conn'[c].stream = conn[c].stream /\ (Both(c)' => Both(c)),
         \A c \in Conns :
           Both(c)' /\ Fresh(c)' /\ ~ Halfway(c)' =>
             conn'[c].stream = <<>> \/ (Fresh(c) /\ ~ Halfway(c)),
         \A c \in Conns :
           Both(c)' /\ Halfway(c)' =>
             /\ Both(c) /\ Halfway(c) /\ next' = next
             /\ conn'[c].stream = conn[c].stream
  PROVE  Framed'
  <1>1. \A S : Frames(<<>>, S)
    BY DEF Frames
  <1>2. \A c \in Conns : Frames(conn'[c].stream, sent')
    BY <1>1, FramesDef, FramesGrow
  <1>3. ~ Odd(<<>>)
    BY DEF Odd
  <1>4. \A c \in Conns : Both(c)' /\ Fresh(c)' /\ ~ Halfway(c)' => ~ Odd(conn'[c].stream)
    BY <1>3 DEF Framed
  <1>5. \A c \in Conns : Both(c)' /\ Halfway(c)' =>
          Odd(conn'[c].stream) /\ conn'[c].stream[Len(conn'[c].stream)].of = next'
    BY DEF Framed
  <1>6. /\ FramesIntact'
        /\ \A c \in Conns : \A i \in DOMAIN conn'[c].stream :
             conn'[c].stream[i].part = "data" => conn'[c].stream[i].of \in sent'
    BY <1>2, FramesDef DEF Frames, FramesIntact
  <1> QED
    BY <1>4, <1>5, <1>6 DEF Framed

\* The peer takes a frame.
LEMMA ReadStep ==
  ASSUME Types, NEW c \in Conns, Read(c)
  PROVE  /\ conn'[c].local = conn[c].local /\ conn'[c].remote = conn[c].remote
         /\ conn[c].remote = "open" /\ Len(conn[c].stream) > 1
         /\ conn'[c].stream = Tail(Tail(conn[c].stream))
         /\ \A d \in Conns \ {c} : conn'[d] = conn[d]
         /\ arrived' = Append(arrived, conn[c].stream[1].of)
         /\ UNCHANGED <<table, at, using, known, stopped, up, next, sent, lost, faults>>
  <1>1. PICK k : k = [conn[c] EXCEPT !.stream = Tail(Tail(conn[c].stream))]
    OBVIOUS
  <1>2. /\ k.local = conn[c].local /\ k.remote = conn[c].remote
        /\ k.stream = Tail(Tail(conn[c].stream))
    BY <1>1, ConnType DEF Conn
  <1>3. conn' = [conn EXCEPT ![c] = k] /\ conn \in [Conns -> Conn]
    BY <1>1 DEF Read, Types
  <1>4. Head(conn[c].stream) = conn[c].stream[1]
    <2>1. PICK s \in Seq(Parts) : s = conn[c].stream /\ Len(s) > 1
      BY ConnType DEF Read
    <2>2. Head(s) = s[1]
      BY <2>1, TailTail
    <2> QED
      BY <2>1, <2>2
  <1> QED
    BY <1>2, <1>3, <1>4 DEF Read, calls, history

LEMMA FramedRead ==
  ASSUME Types, Framed, NEW c \in Conns, Read(c)
  PROVE  Framed'
  <1>1. /\ conn'[c].local = conn[c].local /\ conn'[c].remote = conn[c].remote
        /\ Len(conn[c].stream) > 1
        /\ \A d \in Conns \ {c} : conn'[d] = conn[d]
        /\ UNCHANGED <<table, at, using, next, sent>>
    BY ReadStep
  <1>2. PICK s \in Seq(Parts) : s = conn[c].stream /\ Len(s) > 1
    BY <1>1, ConnType
  <1>3. PICK t : t = Tail(Tail(s)) /\ t = conn'[c].stream
    BY <1>2, ReadStep
  <1>4. Frames(s, sent)
    BY <1>2, FramesDef
  <1>5. Frames(t, sent) /\ (Odd(t) <=> Odd(s)) /\ (Odd(s) => t[Len(t)] = s[Len(s)])
    BY <1>2, <1>3, <1>4, FramesTail
  <1>6. \A d \in Conns : /\ Both(d)' <=> Both(d)
                         /\ Fresh(d)' <=> Fresh(d)
                         /\ Halfway(d)' <=> Halfway(d)
    BY <1>1 DEF Both, Fresh, Halfway
  <1>7. \A d \in Conns : Both(d)' /\ Fresh(d)' /\ ~ Halfway(d)' => ~ Odd(conn'[d].stream)
    BY <1>1, <1>2, <1>3, <1>5, <1>6 DEF Framed
  <1>8. ASSUME NEW d \in Conns, Both(d)', Halfway(d)'
        PROVE  Odd(conn'[d].stream) /\ conn'[d].stream[Len(conn'[d].stream)].of = next'
    <2>1. /\ Odd(conn[d].stream) /\ conn[d].stream[Len(conn[d].stream)].of = next
          /\ next' = next
      BY <1>1, <1>6, <1>8 DEF Framed
    <2>2. CASE d = c
      BY <1>2, <1>3, <1>5, <2>1, <2>2
    <2>3. CASE d # c
      BY <1>1, <2>1, <2>3
    <2> QED
      BY <2>2, <2>3
  <1>9. \A d \in Conns : Frames(conn'[d].stream, sent')
    BY <1>1, <1>3, <1>5, FramesDef
  <1>10. /\ FramesIntact'
         /\ \A d \in Conns : \A i \in DOMAIN conn'[d].stream :
              conn'[d].stream[i].part = "data" => conn'[d].stream[i].of \in sent'
    BY <1>9 DEF Frames, FramesIntact
  <1> QED
    BY <1>7, <1>8, <1>10 DEF Framed

\* The sender's steps that write.
LEMMA FramedPut ==
  ASSUME Types, Framed, NEW c \in Conns, NEW part \in {"length", "data"}, Put(c, part),
         next \in 1..MaxSends, c = using[Sender], Both(c),
         part = "length" => at[Sender] = "writing",
         part = "data" => at[Sender] = "halfway" /\ next \in sent',
         sent \subseteq sent', \A d \in Conns : at'[d] = "none" => at[d] = "none",
         at[c] # "none",
         \/ /\ part = "length" /\ at'[Sender] = "halfway" /\ using' = using
            /\ UNCHANGED <<table, next>>
         \/ part = "length" /\ at'[Sender] = "idle" /\ table' = NoConn
         \/ part = "data" /\ at'[Sender] = "idle" /\ table' = table
  PROVE  Framed'
  <1>1. /\ conn'[c].stream = Append(conn[c].stream, [part |-> part, of |-> next])
        /\ \A d \in Conns \ {c} : conn'[d] = conn[d]
        /\ NoConn \notin Conns
    BY PutType, Basics
  <1>2. PICK s \in Seq(Parts) : s = conn[c].stream
    BY ConnType
  <1>3. PICK t : t = conn'[c].stream /\ t = Append(s, [part |-> part, of |-> next])
    BY <1>1, <1>2
  <1>4. /\ part = "length" => ~ Halfway(c) /\ Fresh(c)
        /\ part = "data" => Halfway(c)
        /\ \A d \in Conns \ {c} : ~ Halfway(d)
    BY DEF Halfway, Fresh
  <1>5. /\ Frames(s, sent')
        /\ part = "length" => ~ Odd(s)
        /\ part = "data" => Odd(s) /\ s[Len(s)].of = next
    BY <1>2, <1>4, FramesDef, FramesGrow DEF Framed
  <1>6. Frames(t, sent') /\ (Odd(t) <=> ~ Odd(s)) /\ t[Len(t)].of = next
    <2>1. PICK S : S = sent' /\ Frames(s, S)
      BY <1>5
    <2>2. PICK p \in Parts : p = [part |-> part, of |-> next]
      BY DEF Parts
    <2>3. /\ t = Append(s, p) /\ p.of = next /\ p \in Parts /\ s \in Seq(Parts)
          /\ Frames(s, S)
          /\ p.part = "data" => Odd(s) /\ s[Len(s)].of = p.of /\ p.of \in S
          /\ p.part = "length" => ~ Odd(s)
      BY <1>2, <1>3, <1>5, <2>1, <2>2
    <2>4. Frames(t, S) /\ (Odd(t) <=> ~ Odd(s)) /\ t[Len(t)].of = p.of
      BY <2>3, FramesAppend, Zenon
    <2> QED
      BY <2>1, <2>3, <2>4
  <1>7. \A d \in Conns : Frames(conn'[d].stream, sent')
    BY <1>1, <1>3, <1>6, FramesDef, FramesGrow
  <1>8. \A d \in Conns : Both(d)' /\ Fresh(d)' /\ ~ Halfway(d)' => ~ Odd(conn'[d].stream)
    <2> SUFFICES ASSUME NEW d \in Conns, Both(d)', Fresh(d)', ~ Halfway(d)'
                 PROVE  ~ Odd(conn'[d].stream)
      OBVIOUS
    <2>1. CASE d = c
      <3>1. part = "data"
        BY <1>1, <2>1 DEF Fresh, Halfway
      <3> QED
        BY <1>3, <1>5, <1>6, <2>1, <3>1
    <2>2. CASE d # c
      <3>1. conn'[d] = conn[d] /\ ~ Halfway(d)
        BY <1>1, <1>4, <2>2
      <3>2. at'[Sender] # "writing"
        OBVIOUS
      <3>3. Both(d) /\ Fresh(d)
        BY <1>1, <2>2, <3>1, <3>2 DEF Both, Fresh
      <3> QED
        BY <3>1, <3>3 DEF Framed
    <2> QED
      BY <2>1, <2>2
  <1>9. \A d \in Conns : Both(d)' /\ Halfway(d)' =>
          Odd(conn'[d].stream) /\ conn'[d].stream[Len(conn'[d].stream)].of = next'
    <2> SUFFICES ASSUME NEW d \in Conns, Halfway(d)'
                 PROVE  Odd(conn'[d].stream) /\ conn'[d].stream[Len(conn'[d].stream)].of = next'
      OBVIOUS
    <2>1. d = c /\ part = "length" /\ next' = next
      BY DEF Halfway
    <2> QED
      BY <1>3, <1>5, <1>6, <2>1
  <1>10. /\ FramesIntact'
         /\ \A d \in Conns : \A i \in DOMAIN conn'[d].stream :
              conn'[d].stream[i].part = "data" => conn'[d].stream[i].of \in sent'
    BY <1>7 DEF Frames, FramesIntact
  <1> QED
    BY <1>8, <1>9, <1>10 DEF Framed

\* Steps that no write begins or ends with.
LEMMA FramedQuiet ==
  ASSUME Types, Framed, UNCHANGED <<next, sent>>, table' \in {table, NoConn},
         \A v \in Workers :
           \/ at'[v] = at[v]
           \/ /\ at[v] \notin {"writing", "halfway"}
              /\ at'[v] \notin {"none", "writing", "halfway"},
         at[Sender] \in {"writing", "halfway"} => using'[Sender] = using[Sender],
         \A c \in Conns :
           \/ conn'[c].stream = conn[c].stream /\ (Both(c)' => Both(c))
           \/ conn'[c].stream = <<>> /\ (Both(c)' => using[Sender] # c)
  PROVE  Framed'
  <1>0. Sender \in Workers /\ Conns \subseteq Workers /\ NoConn \notin Conns
    BY Basics
  <1>1. \A c \in Conns : /\ Halfway(c)' <=> Halfway(c)
                         /\ Fresh(c)' => Fresh(c)
    BY <1>0 DEF Halfway, Fresh
  <1>2. \A c \in Conns : Both(c)' /\ Halfway(c)' =>
          Both(c) /\ conn'[c].stream = conn[c].stream
    BY <1>1 DEF Halfway
  <1> QED
    BY <1>1, <1>2, FramedMove

LEMMA FramedSend ==
  ASSUME Types, Linked, Framed, Send \/ Reread \/ WriteLength \/ WriteData
  PROVE  Framed'
  <1> USE DEF links, history
  <1>0. /\ Sender \in Workers /\ Sender \notin Conns /\ Conns \subseteq Workers
        /\ NoConn \notin Conns /\ at \in [Workers -> Places]
        /\ using \in [Workers -> Conns \cup {NoConn}]
        /\ at[Sender] # "idle" => next \in 1..MaxSends
    BY Basics DEF Types
  <1>1. /\ \A c \in Conns : at'[c] = at[c]
        /\ sent \subseteq sent'
    <2>1. \E where : Go(Sender, where)
      BY DEF Send, Reread, WriteLength, WriteData, Done
    <2>2. sent' = sent \/ sent' = sent \cup {next}
      BY DEF Send, Reread, WriteLength, WriteData, calls
    <2> QED
      BY <1>0, <2>1, <2>2, GoType
  <1>2. CASE Send \/ Reread
    <2>1. UNCHANGED <<table, conn, next, sent>> /\ at[Sender] \notin {"writing", "halfway"}
      BY <1>2 DEF Send, Reread, calls
    <2>2. at'[Sender] # "halfway" /\ (at'[Sender] = "writing" => using'[Sender] = table)
      BY <1>0, <1>2 DEF Send, Reread, Go
    <2>3. \A c \in Conns : ~ Halfway(c) /\ ~ Halfway(c)'
      BY <2>1, <2>2 DEF Halfway
    <2>4. \A c \in Conns : Fresh(c)' => Fresh(c)
      BY <1>1, <2>1, <2>2 DEF Fresh
    <2>5. \A c \in Conns : /\ conn'[c].stream = conn[c].stream
                           /\ Both(c)' => Both(c)
      BY <2>1 DEF Both
    <2> QED
      BY <1>1, <2>3, <2>4, <2>5, FramedMove
  <1>3. ASSUME WriteLength \/ WriteData
        PROVE  /\ using[Sender] \in Conns /\ at[using[Sender]] # "none"
               /\ next \in 1..MaxSends
               /\ Done => at'[Sender] = "idle" /\ \A d \in Conns : ~ Halfway(d)'
    <2>1. at[Sender] \in {"writing", "halfway"}
      BY <1>3 DEF WriteLength, WriteData
    <2>2. Done => at'[Sender] = "idle"
      BY <1>0, GoType DEF Done
    <2> QED
      BY <1>0, <2>1, <2>2 DEF Types, Holds, Linked, Halfway
  \* No Put, and no connection that could be written to is forgotten.
  <1>4. ASSUME WriteLength \/ WriteData, Done, UNCHANGED conn, table' \in {table, NoConn},
               at[Sender] = "writing" \/ ~ Both(using[Sender]) \/ table' = NoConn
        PROVE  Framed'
    <2>1. \A c \in Conns : /\ conn'[c].stream = conn[c].stream
                           /\ Both(c)' => Both(c)
      BY <1>4 DEF Both
    <2>2. ASSUME NEW c \in Conns, Both(c)', Fresh(c)' PROVE Fresh(c) /\ ~ Halfway(c)
      <3>1. at[c] = "none" \/ table' = c
        BY <1>1, <1>3, <1>4, <2>2 DEF Fresh
      <3>2. Fresh(c)
        BY <1>0, <1>4, <3>1 DEF Fresh
      <3>3. CASE at[Sender] = "writing"
        BY <3>2, <3>3 DEF Halfway
      <3>4. CASE ~ Both(using[Sender])
        BY <2>1, <2>2, <3>2, <3>4 DEF Halfway
      <3>5. CASE table' = NoConn
        BY <1>0, <1>3, <1>4, <3>1, <3>2, <3>5 DEF Halfway
      <3> QED
        BY <1>4, <3>3, <3>4, <3>5
    <2> QED
      BY <1>1, <1>3, <1>4, <2>1, <2>2, FramedMove
  <1>5. CASE WriteLength
    <2> DEFINE c == using[Sender]
    <2>0. at[Sender] = "writing" /\ sent' = sent
      BY <1>5 DEF WriteLength
    <2>1. CASE Both(c) /\ Put(c, "length") /\ Go(Sender, "halfway") /\ UNCHANGED <<table, using, next>>
      <3>1. at'[Sender] = "halfway"
        BY <1>0, <2>1, GoType
      <3> QED
        BY <1>1, <1>3, <1>5, <2>0, <2>1, <3>1, FramedPut
    <2>2. CASE HalfCut(c) /\ Go(Sender, "halfway") /\ UNCHANGED <<links, using, next>>
      <3>1. at'[Sender] = "halfway"
        BY <1>0, <2>2, GoType
      <3>2. \A d \in Conns : /\ conn'[d].stream = conn[d].stream
                             /\ Both(d)' => Both(d) /\ d # c
        BY <2>2 DEF Both, HalfCut
      <3>3. \A d \in Conns : /\ Both(d)' /\ Fresh(d)' => Fresh(d) /\ ~ Halfway(d)
                             /\ Both(d)' => ~ Halfway(d)'
        BY <1>1, <2>0, <2>2, <3>1, <3>2 DEF Fresh, Halfway
      <3> QED
        BY <1>1, <3>2, <3>3, FramedMove
    <2>3. CASE Both(c) /\ Put(c, "length") /\ table' = NoConn /\ Done
      BY <1>1, <1>3, <1>5, <2>0, <2>3, FramedPut
    <2>4. CASE Done /\ UNCHANGED conn /\ table' \in {table, NoConn}
      BY <1>4, <1>5, <2>0, <2>4
    <2> QED
      BY <1>5, <2>1, <2>2, <2>3, <2>4 DEF WriteLength, Dropped
  <1>6. CASE WriteData
    <2> DEFINE c == using[Sender]
    <2>0. at[Sender] = "halfway" /\ Done
      BY <1>6 DEF WriteData
    <2>1. CASE Both(c) /\ Put(c, "data") /\ sent' = sent \cup {next} /\ UNCHANGED table
      BY <1>1, <1>3, <1>6, <2>0, <2>1, FramedPut
    <2>2. CASE ~ Both(c) /\ UNCHANGED links
      BY <1>4, <1>6, <2>0, <2>2
    <2>3. CASE table' = NoConn /\ UNCHANGED conn
      BY <1>4, <1>6, <2>0, <2>3
    <2> QED
      BY <1>6, <2>1, <2>2, <2>3 DEF WriteData, Dropped, HalfCut, Both
  <1> QED
    BY <1>2, <1>5, <1>6

LEMMA FramedStep ==
  ASSUME Types, Linked, Framed, [Next]_vars
  PROVE  Framed'
  <1>0. /\ Sender \in Workers /\ Sender \notin Conns /\ Conns \subseteq Workers
        /\ NoConn \notin Conns /\ at \in [Workers -> Places]
        /\ using \in [Workers -> Conns \cup {NoConn}]
        /\ table \in Conns \cup {NoConn}
    BY Basics DEF Types
  <1>1. ASSUME NEW w \in Workers, Connect(w) PROVE Framed'
    <2>0. at[w] \notin {"writing", "halfway"} /\ UNCHANGED <<next, sent>>
      BY <1>1 DEF Connect, Check, Dial, Store, calls
    <2>1. CASE Check(w) \/ (Dial(w) /\ at'[w] # "storing")
      <3>1. UNCHANGED <<links, using>>
        BY <2>1, DialFails DEF Check
      <3>2. \E where : Go(w, where) /\ where \notin {"none", "writing", "halfway"}
        BY <2>1, DialFails DEF Check, Connected, GaveUp
      <3>3. /\ at'[w] \notin {"none", "writing", "halfway"}
            /\ \A v \in Workers \ {w} : at'[v] = at[v]
        BY <3>2, GoType
      <3>4. \A c \in Conns : /\ conn'[c].stream = conn[c].stream
                             /\ Both(c)' => Both(c)
        BY <3>1 DEF links, Both
      <3> QED
        BY <2>0, <3>1, <3>3, <3>4, FramedQuiet DEF links
    <2>2. CASE Dial(w) /\ at'[w] = "storing"
      <3>1. PICK c \in Conns :
              /\ conn[c].local = "unused"
              /\ conn'[c].stream = conn[c].stream
              /\ \A d \in Conns \ {c} : conn'[d] = conn[d]
              /\ using' = [using EXCEPT ![w] = c]
              /\ Go(w, "storing") /\ UNCHANGED table
        BY <2>2, DialType
      <3>2. at'[w] = "storing" /\ \A v \in Workers \ {w} : at'[v] = at[v]
        BY <3>1, GoType
      <3>3. conn'[c].stream = <<>> /\ using[Sender] # c
        BY <1>0, <3>1 DEF Linked
      <3>4. \A d \in Conns \ {c} : /\ conn'[d].stream = conn[d].stream
                                   /\ Both(d)' => Both(d)
        BY <3>1 DEF Both
      <3>5. at[Sender] \in {"writing", "halfway"} => using'[Sender] = using[Sender]
        BY <1>0, <2>0, <3>1
      <3> QED
        BY <2>0, <3>1, <3>2, <3>3, <3>4, <3>5, FramedQuiet
    <2>3. CASE Store(w)
      <3>1. PICK c \in Conns : c = using[w] /\ at[c] = "none" /\ c # w
        BY <2>3 DEF Store, Types, Holds, Linked
      <3>2. /\ at'[c] = "starting" /\ at'[w] \in {"rereading", "gone"}
            /\ \A v \in Workers \ {w, c} : at'[v] = at[v]
            /\ using'[w] = NoConn /\ \A v \in Workers \ {w} : using'[v] = using[v]
            /\ table' = c /\ at[w] = "storing" /\ conn' = conn
        BY <1>0, <2>3, <3>1 DEF Store
      <3>3. \A d \in Conns : Halfway(d)' <=> Halfway(d)
        BY <1>0, <3>1, <3>2 DEF Halfway
      <3>4. \A d \in Conns : Fresh(d)' => Fresh(d)
        BY <1>0, <3>1, <3>2 DEF Fresh
      <3>5. \A d \in Conns : /\ conn'[d].stream = conn[d].stream
                             /\ Both(d)' => Both(d)
        BY <3>2 DEF Both
      <3> QED
        BY <2>0, <3>3, <3>4, <3>5, FramedMove
    <2> QED
      BY <1>1, <2>1, <2>2, <2>3 DEF Connect
  <1>2. ASSUME NEW c \in Conns,
               Identify(c) \/ ReadFails(c) \/ Leave(c) \/ CloseConnection(c) \/ Reconnect(c)
        PROVE  Framed'
    <2>1. PICK where : Go(c, where) /\ where \notin {"none", "writing", "halfway"}
      BY <1>2 DEF Identify, ReadFails, Leave, CloseConnection, Reconnect
    <2>2. /\ at'[c] = where /\ \A v \in Workers \ {c} : at'[v] = at[v]
          /\ at[c] \notin {"writing", "halfway"}
          /\ UNCHANGED <<using, next, sent>> /\ table' \in {table, NoConn}
      BY <1>0, <1>2, <2>1, GoType
         DEF Identify, ReadFails, Leave, CloseConnection, Reconnect, links, calls
    <2>3. \A d \in Conns : /\ conn'[d].stream = conn[d].stream
                           /\ Both(d)' => Both(d)
      <3>1. conn' = conn \/ \E e \in Conns : conn' = Closed(e)
        BY <1>0, <1>2
           DEF Identify, ReadFails, Leave, CloseConnection, Reconnect, links, Stored
      <3>2. CASE \E e \in Conns : conn' = Closed(e)
        BY <3>2, ClosedType DEF Both
      <3> QED
        BY <3>1, <3>2 DEF Both
    <2> QED
      BY <1>0, <2>1, <2>2, <2>3, FramedQuiet
  <1>3. ASSUME \/ Stop \/ PeerStarts \/ PeerCrashes
               \/ \E c \in Conns : ReadEnd(c) \/ Reset(c)
               \/ UNCHANGED vars
        PROVE  Framed'
    <2>1. UNCHANGED <<at, using, next, sent>> /\ table' \in {table, NoConn}
      BY <1>3 DEF Stop, PeerStarts, PeerCrashes, ReadEnd, Reset, vars, links, calls
    <2>2. \A d \in Conns :
            \/ conn'[d].stream = conn[d].stream /\ (Both(d)' => Both(d))
            \/ conn'[d].stream = <<>> /\ ~ Both(d)'
      <3>1. CASE PeerStarts \/ UNCHANGED vars \/ (Stop /\ ~ Stored)
        BY <3>1 DEF PeerStarts, Stop, vars, links, Both
      <3>2. CASE Stop /\ Stored
        BY <1>0, <3>2, ClosedType DEF Stop, Stored, Both
      <3>3. ASSUME NEW C \in SUBSET Conns, Cut(C)
            PROVE  \A d \in Conns :
                     \/ conn'[d].stream = conn[d].stream /\ (Both(d)' => Both(d))
                     \/ conn'[d].stream = <<>> /\ ~ Both(d)'
        BY <3>3, CutType DEF Both
      <3>4. CASE PeerCrashes
        BY <3>3, <3>4 DEF PeerCrashes
      <3>5. CASE \E c \in Conns : Reset(c)
        BY <3>3, <3>5 DEF Reset
      <3>6. ASSUME NEW c \in Conns, ReadEnd(c)
            PROVE  \A d \in Conns :
                     \/ conn'[d].stream = conn[d].stream /\ (Both(d)' => Both(d))
                     \/ conn'[d].stream = <<>> /\ ~ Both(d)'
        <4>1. PICK k : k = [conn[c] EXCEPT !.remote = "closed", !.stream = <<>>]
          OBVIOUS
        <4>2. k.remote = "closed" /\ k.stream = <<>>
          BY <4>1, ConnType DEF Conn
        <4>3. conn' = [conn EXCEPT ![c] = k] /\ conn \in [Conns -> Conn]
          BY <3>6, <4>1 DEF ReadEnd, Types
        <4> QED
          BY <4>2, <4>3 DEF Both
      <3> QED
        BY <1>3, <3>1, <3>2, <3>4, <3>5, <3>6
    <2> QED
      BY <2>1, <2>2, FramedQuiet
  <1> QED
    BY <1>0, <1>1, <1>2, <1>3, FramedSend, FramedRead DEF Next, Sending, Reader, Peer

-----------------------------------------------------------------------------
(* Until something fails. *)

LEMMA FaultsGrow ==
  ASSUME Types, [Next]_vars
  PROVE  /\ faults' \in {faults, faults + 1}
         /\ stopped => stopped'
         /\ faults' = 0 => faults = 0
  <1>1. /\ faults' \in {faults, faults + 1}
        /\ stopped => stopped'
    <2>1. ASSUME NEW w \in Workers, Connect(w)
          PROVE  faults' \in {faults, faults + 1} /\ stopped' = stopped
      BY <2>1 DEF Connect, Check, Dial, Store, Fault, history
    <2>2. CASE Send \/ Reread \/ WriteLength \/ WriteData
      BY <2>2 DEF Send, Reread, WriteLength, WriteData, Fault, history
    <2>3. ASSUME NEW c \in Conns,
                 \/ Identify(c) \/ ReadFails(c) \/ Leave(c) \/ CloseConnection(c)
                 \/ Reconnect(c) \/ Peer(c) \/ Reset(c)
          PROVE  faults' \in {faults, faults + 1} /\ stopped' = stopped
      BY <2>3 DEF Identify, ReadFails, Leave, CloseConnection, Reconnect, Peer, Read,
                  ReadEnd, Reset, Fault, history
    <2>4. CASE Stop \/ PeerStarts \/ PeerCrashes \/ UNCHANGED vars
      BY <2>4 DEF Stop, PeerStarts, PeerCrashes, vars, Fault, history
    <2> QED
      BY <2>1, <2>2, <2>3, <2>4, Basics DEF Next, Sending, Reader
  <1> QED
    BY <1>1 DEF Types

\* What is left of the steps then.
LEMMA QuietCases ==
  ASSUME Types, Linked, Quiet, faults = 0, ~ stopped, [Next]_vars, faults' = 0, ~ stopped'
  PROVE  \/ Send \/ Connect(Sender) \/ Reread \/ WriteLength \/ WriteData
         \/ \E c \in Conns : Identify(c) /\ Go(c, "reading")
         \/ \E c \in Conns : Read(c)
         \/ PeerStarts \/ UNCHANGED vars
  <1>1. ASSUME NEW c \in Conns, Reader(c) PROVE Identify(c) /\ Go(c, "reading")
    <2>0. /\ at[c] \in {"none", "starting", "reading"}
          /\ conn[c].local # "closed"
          /\ conn[c].local = "open" => conn[c].remote = "open"
          /\ conn[c].local = "unused" => at[c] = "none"
          /\ conn[c].local \in Ends
      BY ConnType DEF Quiet, Linked
    <2>1. ~ Connect(c) /\ ~ Leave(c) /\ ~ CloseConnection(c) /\ ~ Reconnect(c)
      BY <2>0 DEF Connect, Check, Dial, Store, Leave, CloseConnection, Reconnect
    <2>2. ~ ReadFails(c)
      BY <2>0 DEF ReadFails, Ended, Ends
    <2> QED
      BY <1>1, <2>1, <2>2 DEF Reader, Identify
  <1>2. \A c \in Conns : ~ ReadEnd(c) /\ ~ Reset(c)
    BY DEF Quiet, ReadEnd, Reset, Fault
  <1>3. ~ Stop /\ ~ PeerCrashes
    BY DEF Stop, PeerCrashes, Fault
  <1> QED
    BY <1>1, <1>2, <1>3 DEF Next, Sending, Peer

LEMMA QuietTable ==
  ASSUME Types, Linked, Quiet, table # NoConn
  PROVE  table \in Conns /\ conn[table].local = "open" /\ Both(table)
  <1>1. table \in Conns /\ conn[table].local \in Ends
    BY ConnType DEF Types
  <1> QED
    BY <1>1 DEF Linked, Quiet, Both, Ends

LEMMA QuietStep ==
  ASSUME Types, Linked, Quiet, faults = 0, ~ stopped, [Next]_vars, faults' = 0, ~ stopped'
  PROVE  Quiet'
  <1>0. /\ Sender \in Workers /\ Sender \notin Conns /\ Conns \subseteq Workers
        /\ NoConn \notin Conns /\ at \in [Workers -> Places]
        /\ using \in [Workers -> Conns \cup {NoConn}]
        /\ table \in Conns \cup {NoConn}
    BY Basics DEF Types
  <1>1. CASE Check(Sender)
    <2>1. /\ at'[Sender] = IF Stored THEN "rereading" ELSE "dialing"
          /\ \A c \in Conns : at'[c] = at[c]
          /\ UNCHANGED <<table, conn, using>> /\ at[Sender] = "checking"
      BY <1>0, <1>1 DEF Check, Connected, Go, links
    <2> QED
      BY <2>1 DEF Quiet, Stored
  <1>2. CASE Dial(Sender) /\ at'[Sender] # "storing"
    <2>1. /\ at'[Sender] = "idle" /\ \A c \in Conns : at'[c] = at[c]
          /\ UNCHANGED <<table, conn, using>> /\ at[Sender] = "dialing"
      BY <1>0, <1>2, DialFails DEF Dial, GaveUp, Go, links
    <2> QED
      BY <2>1 DEF Quiet
  <1>3. CASE Dial(Sender) /\ at'[Sender] = "storing"
    <2>1. PICK c \in Conns :
            /\ conn'[c].local = "open" /\ conn'[c].remote = "open"
            /\ \A d \in Conns \ {c} : conn'[d] = conn[d]
            /\ using' = [using EXCEPT ![Sender] = c]
            /\ Go(Sender, "storing") /\ UNCHANGED table
      BY <1>0, <1>3, DialType
    <2>2. /\ \A d \in Conns : at'[d] = at[d]
          /\ using'[Sender] = c /\ at[Sender] = "dialing"
      BY <1>0, <1>3, <2>1, GoType DEF Dial
    <2> QED
      BY <1>0, <1>3, <2>1, <2>2 DEF Quiet
  <1>4. CASE Store(Sender)
    <2>1. PICK c \in Conns : c = using[Sender] /\ at[Sender] = "storing"
      BY <1>0, <1>4 DEF Store, Types, Holds
    <2>2. /\ at'[c] = "starting" /\ at'[Sender] = "rereading"
          /\ \A d \in Conns \ {c} : at'[d] = at[d]
          /\ table' = c /\ conn' = conn
      BY <1>0, <1>4, <2>1 DEF Store
    <2> QED
      BY <1>0, <2>1, <2>2 DEF Quiet
  <1>5. CASE Send
    <2>1. /\ at'[Sender] = IF Stored THEN "writing" ELSE "checking"
          /\ Stored => using'[Sender] = table
          /\ \A c \in Conns : at'[c] = at[c]
          /\ UNCHANGED <<table, conn>> /\ at[Sender] = "idle"
      BY <1>0, <1>5 DEF Send, Go, links
    <2> QED
      BY <2>1 DEF Quiet, Stored
  <1>6. CASE Reread
    <2>1. /\ at[Sender] = "rereading" /\ Stored
          /\ at'[Sender] = "writing" /\ using'[Sender] = table
          /\ \A c \in Conns : at'[c] = at[c]
          /\ UNCHANGED <<table, conn>>
      BY <1>0, <1>6 DEF Reread, Go, links, Quiet, Stored
    <2> QED
      BY <2>1 DEF Quiet, Stored
  <1>7. CASE WriteLength \/ WriteData
    <2>1. /\ table # NoConn /\ using[Sender] = table /\ at[Sender] \in {"writing", "halfway"}
          /\ table \in Conns /\ Both(table) /\ conn[table].local = "open"
      BY <1>7, QuietTable DEF Quiet, WriteLength, WriteData
    <2>2. /\ UNCHANGED table
          /\ \/ Go(Sender, "halfway") /\ UNCHANGED using
             \/ Go(Sender, "idle")
          /\ \E part \in {"length", "data"} : Put(table, part)
      BY <1>7, <2>1 DEF WriteLength, WriteData, Done, HalfCut, Both, Fault
    <2>3. next \in 1..MaxSends
      BY <2>1, Basics DEF Types
    <2>4. \A c \in Conns : /\ conn'[c].local = conn[c].local
                           /\ conn'[c].remote = conn[c].remote
      BY <2>1, <2>2, <2>3, PutType
    <2>5. /\ (at'[Sender] = "halfway" /\ using' = using) \/ at'[Sender] = "idle"
          /\ \A c \in Conns : at'[c] = at[c]
      BY <1>0, <2>2, GoType
    <2> QED
      BY <1>0, <2>1, <2>2, <2>4, <2>5 DEF Quiet
  <1>8. ASSUME NEW c \in Conns, Identify(c), Go(c, "reading") PROVE Quiet'
    <2>1. /\ at'[c] = "reading" /\ \A v \in Workers \ {c} : at'[v] = at[v]
          /\ UNCHANGED <<table, conn, using>>
      BY <1>0, <1>8, GoType DEF Identify, links
    <2> QED
      BY <1>0, <2>1 DEF Quiet
  <1>9. ASSUME NEW c \in Conns, Read(c) PROVE Quiet'
    <2>1. /\ \A d \in Conns : /\ conn'[d].local = conn[d].local
                              /\ conn'[d].remote = conn[d].remote
          /\ UNCHANGED <<table, at, using>>
      BY <1>9, ReadStep
    <2> QED
      BY <2>1 DEF Quiet
  <1>10. CASE PeerStarts \/ UNCHANGED vars
    <2>1. UNCHANGED <<table, conn, at, using>>
      BY <1>10 DEF PeerStarts, vars, links
    <2> QED
      BY <2>1 DEF Quiet
  <1> QED
    BY <1>1, <1>2, <1>3, <1>4, <1>5, <1>6, <1>7, <1>8, <1>9, <1>10, QuietCases DEF Connect

LEMMA PartNumbers ==
  ASSUME NEW s \in Seq(Parts)
  PROVE  \A i \in DOMAIN s : s[i].of \in Nat
  <1>1. \A i \in DOMAIN s : s[i] \in Parts
    OBVIOUS
  <1>2. \A p \in Parts : p.of \in Nat
    BY Basics DEF Parts
  <1> QED
    BY <1>1, <1>2

LEMMA ArrivedNumbers ==
  ASSUME Types
  PROVE  \A k \in DOMAIN arrived : arrived[k] \in Nat /\ arrived[k] \in sent
  <1>1. arrived \in Seq(sent)
    BY DEF Types
  <1>2. \A m \in sent : m \in Nat
    BY Basics DEF Types
  <1>3. \A k \in DOMAIN arrived : arrived[k] \in sent
    BY <1>1
  <1> QED
    BY <1>2, <1>3

LEMMA RisingAppend ==
  ASSUME NEW s \in Seq(Parts), Rising(s), NEW p \in Parts, NEW t \in Seq(Parts),
         DOMAIN s = 1..Len(s), DOMAIN t = 1..(Len(s) + 1), t[Len(s) + 1] = p,
         \A i \in DOMAIN s : t[i] = s[i],
         \A i \in DOMAIN s : s[i].of <= p.of /\ (p.part = "length" => s[i].of < p.of)
  PROVE  Rising(t)
  <1>1. Len(s) \in Nat
    OBVIOUS
  <1>2. SUFFICES ASSUME NEW i \in DOMAIN t, NEW j \in DOMAIN t, i < j
                 PROVE  t[i].of <= t[j].of /\ (t[j].part = "length" => t[i].of < t[j].of)
    BY DEF Rising
  <1>3. i \in 1..Len(s) /\ (j \in 1..Len(s) \/ j = Len(s) + 1)
    BY <1>1, <1>2
  <1> QED
    BY <1>2, <1>3 DEF Rising

\* What follows the first frame of a stream comes after it.
LEMMA RisingTail ==
  ASSUME NEW s \in Seq(Parts), NEW S, Frames(s, S), Rising(s), Len(s) > 1,
         NEW t \in Seq(Parts), Len(t) = Len(s) - 2,
         \A i \in DOMAIN t : i \in 1..(Len(s) - 2) /\ t[i] = s[i + 2]
  PROVE  /\ Rising(t)
         /\ \A i \in DOMAIN t : s[1].of < t[i].of
  <1>1. /\ DOMAIN t = 1..Len(t) /\ DOMAIN s = 1..Len(s)
        /\ Len(s) \in Nat /\ Len(t) \in Nat
        /\ \A i \in DOMAIN s : s[i].of \in Nat
    BY PartNumbers
  <1>2. \A i \in DOMAIN t : i \in Nat /\ 1 <= i /\ i + 2 \in DOMAIN s /\ t[i] = s[i + 2]
    <2> TAKE i \in DOMAIN t
    <2>1. i \in Nat /\ 1 <= i /\ i <= Len(t)
      BY <1>1
    <2>2. i + 2 \in 1..Len(s)
      BY <1>1, <2>1
    <2> QED
      BY <1>1, <2>1, <2>2
  <1>3. Rising(t)
    <2> SUFFICES ASSUME NEW i \in DOMAIN t, NEW j \in DOMAIN t, i < j
                 PROVE  t[i].of <= t[j].of /\ (t[j].part = "length" => t[i].of < t[j].of)
      BY DEF Rising
    <2>1. /\ i + 2 \in DOMAIN s /\ j + 2 \in DOMAIN s /\ i + 2 < j + 2
          /\ t[i] = s[i + 2] /\ t[j] = s[j + 2]
      BY <1>2
    <2> QED
      BY <2>1 DEF Rising
  <1>4. ASSUME NEW i \in DOMAIN t PROVE s[1].of < t[i].of
    <2>1. /\ i \in Nat /\ 1 <= i /\ i + 2 \in DOMAIN s /\ t[i] = s[i + 2]
          /\ 1 \in DOMAIN s
      BY <1>1, <1>2
    <2>2. \A j \in DOMAIN s : 1 < j /\ s[j].part = "length" => s[1].of < s[j].of
      BY <2>1 DEF Rising
    <2>3. CASE (i + 2) % 2 = 1
      <3>1. s[i + 2].part = "length" /\ 1 < i + 2
        BY <2>1, <2>3 DEF Frames
      <3> QED
        BY <2>1, <2>2, <3>1
    <2>4. CASE (i + 2) % 2 # 1
      <3>1. s[i + 2] = [part |-> "data", of |-> s[(i + 2) - 1].of]
        BY <2>1, <2>4 DEF Frames
      <3>2. (i + 2) - 1 = i + 1 /\ i + 1 \in DOMAIN s /\ 1 < i + 1
        <4>1. i + 2 \in 1..Len(s)
          BY <1>1, <2>1
        <4>2. i + 1 \in 1..Len(s) /\ (i + 2) - 1 = i + 1 /\ 1 < i + 1
          BY <1>1, <2>1, <4>1
        <4> QED
          BY <1>1, <4>2
      <3>3. (i + 1) % 2 = 1
        BY <2>1, <2>4, Parity
      <3>4. s[i + 1].part = "length"
        BY <3>2, <3>3 DEF Frames
      <3> QED
        BY <2>1, <2>2, <3>1, <3>2, <3>4
    <2> QED
      BY <2>3, <2>4
  <1> QED
    BY <1>3, <1>4

LEMMA OrderedFrame ==
  ASSUME Ordered, UNCHANGED <<next, arrived>>,
         \A c \in Conns : conn'[c].stream = conn[c].stream,
         at[Sender] = "halfway" => at'[Sender] = "halfway"
  PROVE  Ordered'
  <1>1. \A c \in Conns :
          /\ Rising(conn'[c].stream)
          /\ \A j \in DOMAIN conn'[c].stream :
               /\ conn'[c].stream[j].of <= next'
               /\ at'[Sender] # "halfway" => conn'[c].stream[j].of < next'
               /\ \A k \in DOMAIN arrived' : arrived'[k] < conn'[c].stream[j].of
    BY DEF Ordered
  <1>2. /\ \A k \in DOMAIN arrived' : arrived'[k] < next'
        /\ \A i, j \in DOMAIN arrived' : i < j => arrived'[i] < arrived'[j]
    BY DEF Ordered
  <1> QED
    BY <1>1, <1>2 DEF Ordered, Rising

LEMMA OrderedPut ==
  ASSUME Types, Ordered, NEW c \in Conns, NEW part \in {"length", "data"}, Put(c, part),
         next \in 1..MaxSends, arrived' = arrived,
         \/ /\ part = "length" /\ at[Sender] = "writing" /\ at'[Sender] = "halfway"
            /\ next' = next
         \/ part = "data" /\ next' = next + 1
  PROVE  Ordered'
  <1>1. PICK p \in Parts : p = [part |-> part, of |-> next]
    BY DEF Parts
  <1>2. /\ conn'[c].stream = Append(conn[c].stream, p)
        /\ \A d \in Conns \ {c} : conn'[d] = conn[d]
        /\ p.part = part /\ p.of = next
    BY <1>1, PutType
  <1>3. PICK s \in Seq(Parts) : s = conn[c].stream
    BY ConnType
  <1>4. PICK t \in Seq(Parts) : /\ t = conn'[c].stream
                                /\ DOMAIN s = 1..Len(s) /\ DOMAIN t = 1..(Len(s) + 1)
                                /\ t[Len(s) + 1] = p /\ \A i \in 1..Len(s) : t[i] = s[i]
                                /\ Len(s) \in Nat
    <2>1. /\ Append(s, p) \in Seq(Parts)
          /\ DOMAIN s = 1..Len(s) /\ DOMAIN Append(s, p) = 1..(Len(s) + 1)
          /\ Append(s, p)[Len(s) + 1] = p /\ \A i \in 1..Len(s) : Append(s, p)[i] = s[i]
          /\ Len(s) \in Nat
      BY <1>1
    <2> QED
      BY <1>2, <1>3, <2>1
  <1>5. \A i \in DOMAIN s : s[i].of <= next /\ (part = "length" => s[i].of < next)
    BY <1>3 DEF Ordered
  <1>6. Rising(t)
    <2>1. Rising(s)
      BY <1>3 DEF Ordered
    <2> QED
      BY <1>1, <1>2, <1>3, <1>4, <1>5, <2>1, RisingAppend
  <1>7. \A k \in DOMAIN arrived : arrived[k] \in Nat /\ arrived[k] < next
    BY ArrivedNumbers DEF Ordered
  <1>8. \A i \in DOMAIN s : s[i].of \in Nat
    BY <1>3, PartNumbers
  <1>9. ASSUME NEW j \in DOMAIN t
        PROVE  /\ t[j].of <= next' /\ (at'[Sender] # "halfway" => t[j].of < next')
               /\ \A k \in DOMAIN arrived : arrived[k] < t[j].of
    <2>1. CASE j = Len(s) + 1
      BY <1>2, <1>4, <1>7, <2>1
    <2>2. CASE j \in 1..Len(s)
      <3>1. t[j] = s[j] /\ s[j].of <= next /\ s[j].of \in Nat
        BY <1>4, <1>5, <1>8, <2>2
      <3>2. at'[Sender] # "halfway" => next' = next + 1
        OBVIOUS
      <3>3. \A k \in DOMAIN arrived : arrived[k] < s[j].of
        BY <1>3, <1>4, <2>2 DEF Ordered
      <3> QED
        BY <3>1, <3>2, <3>3
    <2> QED
      BY <1>4, <2>1, <2>2
  <1>10. ASSUME NEW d \in Conns \ {c}, NEW j \in DOMAIN conn[d].stream
         PROVE  /\ conn[d].stream[j].of <= next'
                /\ at'[Sender] # "halfway" => conn[d].stream[j].of < next'
    <2>1. conn[d].stream[j].of \in Nat
      <3>1. conn[d].stream \in Seq(Parts)
        BY ConnType
      <3> QED
        BY <3>1, PartNumbers
    <2>3. conn[d].stream[j].of <= next
      BY DEF Ordered
    <2>2. at'[Sender] # "halfway" => next' = next + 1
      OBVIOUS
    <2> QED
      BY <2>1, <2>2, <2>3
  <1>11. \A k \in DOMAIN arrived : arrived[k] < next'
    BY <1>7
  <1>12. ASSUME NEW d \in Conns
         PROVE  /\ Rising(conn'[d].stream)
                /\ \A j \in DOMAIN conn'[d].stream :
                     /\ conn'[d].stream[j].of <= next'
                     /\ at'[Sender] # "halfway" => conn'[d].stream[j].of < next'
                     /\ \A k \in DOMAIN arrived' : arrived'[k] < conn'[d].stream[j].of
    <2>1. CASE d = c
      BY <1>4, <1>6, <1>9, <2>1
    <2>2. CASE d # c
      BY <1>2, <1>10, <2>2 DEF Ordered
    <2> QED
      BY <2>1, <2>2
  <1> QED
    BY <1>11, <1>12 DEF Ordered, Rising

LEMMA OrderedRead ==
  ASSUME Types, Linked, Framed, Quiet, Ordered, NEW c \in Conns, Read(c)
  PROVE  Ordered'
  <1>1. /\ \A d \in Conns \ {c} : conn'[d] = conn[d]
        /\ UNCHANGED <<at, next>> /\ Len(conn[c].stream) > 1 /\ NoConn \notin Conns
    BY ReadStep, Basics
  <1>2. PICK s \in Seq(Parts) : s = conn[c].stream /\ Len(s) > 1
    BY <1>1, ConnType
  <1>3. arrived' = Append(arrived, s[1].of)
    BY <1>2, ReadStep
  <1>4. PICK t \in Seq(Parts) :
          /\ t = conn'[c].stream /\ Len(t) = Len(s) - 2
          /\ \A i \in DOMAIN t : i \in 1..(Len(s) - 2) /\ t[i] = s[i + 2]
    <2>1. /\ Tail(Tail(s)) \in Seq(Parts) /\ Len(Tail(Tail(s))) = Len(s) - 2
          /\ \A i \in DOMAIN Tail(Tail(s)) :
               i \in 1..(Len(s) - 2) /\ Tail(Tail(s))[i] = s[i + 2]
      BY <1>2, TailTail
    <2>2. PICK t \in Seq(Parts) : t = Tail(Tail(s))
      BY <2>1
    <2>3. /\ t \in Seq(Parts) /\ Len(t) = Len(s) - 2
          /\ \A i \in DOMAIN t : i \in 1..(Len(s) - 2) /\ t[i] = s[i + 2]
      BY <2>1, <2>2
    <2>4. t = conn'[c].stream
      BY <1>2, <2>2, ReadStep
    <2> QED
      BY <2>3, <2>4
  <1>5. Frames(s, sent) /\ Rising(s)
    BY <1>2, FramesDef DEF Ordered
  <1>6. /\ Len(s) \in Nat /\ DOMAIN s = 1..Len(s) /\ DOMAIN t = 1..Len(t)
        /\ \A i \in DOMAIN s : s[i].of \in Nat
        /\ 1 \in DOMAIN s /\ Len(s) \in DOMAIN s
        /\ \A i \in DOMAIN t : i + 2 \in DOMAIN s
    <2>1. Len(s) \in Nat /\ DOMAIN s = 1..Len(s) /\ DOMAIN t = 1..Len(t)
      OBVIOUS
    <2>2. 1 \in 1..Len(s) /\ Len(s) \in 1..Len(s)
      BY <1>2, <2>1
    <2>3. \A i \in 1..(Len(s) - 2) : i + 2 \in 1..Len(s)
      BY <2>1
    <2> QED
      BY <1>4, <2>1, <2>2, <2>3, PartNumbers
  <1>7. Rising(t) /\ \A i \in DOMAIN t : s[1].of < t[i].of
    BY <1>2, <1>4, <1>5, RisingTail
  \* The only connection with anything in it is this one.
  <1>8. conn[c].local = "open"
    <2>1. conn[c].local # "unused"
      <3>1. Len(<<>>) = 0
        OBVIOUS
      <3> QED
        BY <1>1, <3>1 DEF Linked
    <2> QED
      BY <2>1, ConnType DEF Quiet, Ends
  <1>9. \A d \in Conns \ {c} : conn[d].stream = <<>>
    <2> SUFFICES ASSUME NEW d \in Conns \ {c}, conn[d].local # "unused" PROVE FALSE
      BY DEF Linked
    <2>1. conn[d].local = "open"
      BY ConnType DEF Quiet, Ends
    <2>2. /\ table = c \/ (at[Sender] = "storing" /\ using[Sender] = c)
          /\ table = d \/ (at[Sender] = "storing" /\ using[Sender] = d)
          /\ at[Sender] = "storing" => table = NoConn
      BY <1>8, <2>1 DEF Quiet
    <2> QED
      BY <1>1, <2>2
  <1>10. s[1].of < next
    <2>1. CASE at[Sender] # "halfway"
      BY <1>2, <1>6, <2>1 DEF Ordered
    <2>2. CASE at[Sender] = "halfway"
      <3>1. Both(c) /\ Halfway(c)
        BY <1>8, <2>2 DEF Quiet, Both, Halfway
      <3>2. s[Len(s)].part = "length" /\ s[Len(s)].of <= next
        <4>1. Len(s) % 2 = 1
          BY <1>2, <3>1 DEF Framed, Odd
        <4> QED
          BY <1>2, <1>5, <1>6, <4>1 DEF Frames, Ordered
      <3>3. s[1].of < s[Len(s)].of
        BY <1>2, <1>5, <1>6, <3>2 DEF Rising
      <3> QED
        BY <1>6, <3>2, <3>3 DEF Types
    <2> QED
      BY <2>1, <2>2
  <1>11. PICK m : m = s[1].of
    OBVIOUS
  <1>12. /\ arrived \in Seq(sent) /\ m \in Nat
         /\ \A k \in DOMAIN arrived : /\ arrived[k] \in Nat /\ arrived[k] < next
                                      /\ arrived[k] < m
    BY <1>2, <1>6, <1>11, ArrivedNumbers DEF Ordered, Types
  <1>13. /\ Len(arrived) \in Nat
         /\ DOMAIN arrived' = 1..(Len(arrived) + 1) /\ DOMAIN arrived = 1..Len(arrived)
         /\ arrived'[Len(arrived) + 1] = m
         /\ \A k \in DOMAIN arrived : arrived'[k] = arrived[k]
    BY <1>3, <1>11, <1>12
  <1>14. \A k \in DOMAIN arrived' : k \in DOMAIN arrived \/ k = Len(arrived) + 1
    BY <1>13
  <1>15. \A k \in DOMAIN arrived' : arrived'[k] < next' /\ arrived'[k] \in Nat /\ arrived'[k] <= m
    BY <1>1, <1>10, <1>11, <1>12, <1>13, <1>14
  <1>16. \A i, j \in DOMAIN arrived' : i < j => arrived'[i] < arrived'[j]
    <2> SUFFICES ASSUME NEW i \in DOMAIN arrived', NEW j \in DOMAIN arrived', i < j
                 PROVE  arrived'[i] < arrived'[j]
      OBVIOUS
    <2>1. i \in DOMAIN arrived
      BY <1>13
    <2>2. CASE j \in DOMAIN arrived
      BY <1>13, <2>1, <2>2 DEF Ordered
    <2>3. CASE j = Len(arrived) + 1
      BY <1>12, <1>13, <2>1, <2>3
    <2> QED
      BY <1>14, <2>2, <2>3
  <1>17. \A j \in DOMAIN t :
           /\ t[j].of <= next' /\ (at'[Sender] # "halfway" => t[j].of < next')
           /\ \A k \in DOMAIN arrived' : arrived'[k] < t[j].of
    <2> TAKE j \in DOMAIN t
    <2>1. t[j] = s[j + 2] /\ j + 2 \in DOMAIN s /\ s[j + 2].of \in Nat /\ m < t[j].of
      BY <1>4, <1>6, <1>7, <1>11
    <2>2. t[j].of <= next' /\ (at'[Sender] # "halfway" => t[j].of < next')
      BY <1>1, <1>2, <2>1 DEF Ordered
    <2> QED
      BY <1>12, <1>15, <2>1, <2>2
  <1>18. ASSUME NEW d \in Conns
         PROVE  /\ Rising(conn'[d].stream)
                /\ \A j \in DOMAIN conn'[d].stream :
                     /\ conn'[d].stream[j].of <= next'
                     /\ at'[Sender] # "halfway" => conn'[d].stream[j].of < next'
                     /\ \A k \in DOMAIN arrived' : arrived'[k] < conn'[d].stream[j].of
    <2>1. CASE d = c
      BY <1>4, <1>7, <1>17, <2>1
    <2>2. CASE d # c
      <3>1. conn'[d].stream = <<>> /\ DOMAIN <<>> = {}
        BY <1>1, <1>9, <2>2
      <3> QED
        BY <3>1 DEF Rising
    <2> QED
      BY <2>1, <2>2
  <1> QED
    BY <1>15, <1>16, <1>18 DEF Ordered, Rising

LEMMA OrderedStep ==
  ASSUME Types, Linked, Framed, Quiet, Ordered, faults = 0, ~ stopped, [Next]_vars,
         faults' = 0, ~ stopped'
  PROVE  Ordered'
  <1>0. /\ Sender \in Workers /\ Sender \notin Conns /\ Conns \subseteq Workers
        /\ at \in [Workers -> Places]
    BY Basics DEF Types
  <1>1. CASE Send \/ Reread \/ Connect(Sender)
    <2>1. at[Sender] # "halfway" /\ UNCHANGED <<next, arrived>>
      BY <1>1 DEF Send, Reread, Connect, Check, Dial, Store, peer, calls
    <2>2. \A c \in Conns : conn'[c].stream = conn[c].stream
      <3>1. CASE Dial(Sender) /\ at'[Sender] = "storing"
        BY <1>0, <3>1, DialType
      <3>2. CASE Dial(Sender) /\ at'[Sender] # "storing"
        BY <1>0, <3>2, DialFails DEF links
      <3>3. CASE ~ Dial(Sender)
        BY <1>1, <3>3 DEF Send, Reread, Connect, Check, Store, links
      <3> QED
        BY <3>1, <3>2, <3>3
    <2> QED
      BY <2>1, <2>2, OrderedFrame
  <1>2. CASE WriteLength \/ WriteData
    <2>1. /\ table # NoConn /\ using[Sender] = table /\ at[Sender] \in {"writing", "halfway"}
          /\ table \in Conns /\ Both(table) /\ conn[table].local = "open"
      BY <1>2, QuietTable DEF Quiet, WriteLength, WriteData
    <2>2. next \in 1..MaxSends
      BY <2>1, Basics DEF Types
    <2>3. CASE WriteLength
      <3>1. /\ Put(table, "length") /\ Go(Sender, "halfway") /\ next' = next
            /\ arrived' = arrived /\ at[Sender] = "writing"
        BY <2>1, <2>3 DEF WriteLength, HalfCut, Both, Fault, peer
      <3>2. at'[Sender] = "halfway"
        BY <1>0, <3>1, GoType
      <3> QED
        BY <2>1, <2>2, <3>1, <3>2, OrderedPut
    <2>4. CASE WriteData
      <3>1. Put(table, "data") /\ next' = next + 1 /\ arrived' = arrived
        BY <2>1, <2>4 DEF WriteData, Done, HalfCut, Both, Fault, peer
      <3> QED
        BY <2>1, <2>2, <3>1, OrderedPut
    <2> QED
      BY <1>2, <2>3, <2>4
  <1>3. ASSUME NEW c \in Conns, Identify(c) PROVE Ordered'
    <2>1. UNCHANGED <<next, arrived, conn>>
      BY <1>3 DEF Identify, links, peer, calls
    <2>2. at'[Sender] = at[Sender]
      BY <1>0, <1>3, GoType DEF Identify
    <2> QED
      BY <2>1, <2>2, OrderedFrame
  <1>4. CASE PeerStarts \/ UNCHANGED vars
    <2>1. UNCHANGED <<next, arrived, conn, at>>
      BY <1>4 DEF PeerStarts, vars, links, peer, calls
    <2> QED
      BY <2>1, OrderedFrame
  <1> QED
    BY <1>1, <1>2, <1>3, <1>4, OrderedRead, QuietCases

-----------------------------------------------------------------------------
(* The invariant. *)

LEMMA InitSafe ==
  ASSUME Init
  PROVE  IInv
  <1>0. /\ Sender \in Workers /\ Sender \notin Conns /\ Conns \subseteq Workers
        /\ NoConn \notin Conns /\ MaxSends \in Nat /\ MaxFaults \in Nat
    BY Basics
  <1>1. PICK k : k = [local |-> "unused", remote |-> "unused", stream |-> <<>>]
    OBVIOUS
  <1>2. k \in Conn /\ k.local = "unused" /\ k.remote = "unused" /\ k.stream = <<>>
    <2>1. <<>> \in Seq(Parts)
      OBVIOUS
    <2> QED
      BY <1>1, <2>1 DEF Conn, Ends
  <1>3. conn \in [Conns -> Conn] /\ \A c \in Conns : conn[c] = k
    BY <1>1, <1>2 DEF Init
  <1>4. /\ at \in [Workers -> Places] /\ at[Sender] = "idle"
        /\ \A c \in Conns : at[c] = "none"
        /\ \A w \in Workers : at[w] \in {"idle", "none"}
    BY <1>0 DEF Init, Places
  <1>5. /\ using \in [Workers -> Conns \cup {NoConn}]
        /\ \A w \in Workers : using[w] = NoConn
    BY DEF Init
  <1>6. Types
    <2>1. /\ table \in Conns \cup {NoConn} /\ known \subseteq Conns
          /\ stopped \in BOOLEAN /\ up \in BOOLEAN
          /\ next \in Nat /\ 1 <= next /\ next <= MaxSends + 1
          /\ sent \subseteq 1..MaxSends
          /\ arrived \in Seq(sent) /\ lost \subseteq sent
          /\ faults \in 0..MaxFaults
      <3>1. /\ table = NoConn /\ known = {} /\ stopped = FALSE /\ up = FALSE
            /\ next = 1 /\ sent = {} /\ arrived = <<>> /\ lost = {}
            /\ faults = 0
        BY DEF Init
      <3>2. <<>> \in Seq(sent)
        OBVIOUS
      <3>3. next \in Nat /\ 1 <= next /\ next <= MaxSends + 1
        BY <1>0, <3>1
      <3>4. faults \in 0..MaxFaults
        BY <1>0, <3>1
      <3>5. stopped \in BOOLEAN /\ up \in BOOLEAN
        BY <3>1
      <3>6. /\ table \in Conns \cup {NoConn} /\ known \subseteq Conns
            /\ sent \subseteq 1..MaxSends /\ lost \subseteq sent
        BY <3>1
      <3> QED
        BY <3>1, <3>2, <3>3, <3>4, <3>5, <3>6
    <2>2. \A w \in Workers : Holds(w) <=> using[w] # NoConn
      BY <1>4, <1>5 DEF Holds
    <2> QED
      BY <1>3, <1>4, <1>5, <2>1, <2>2 DEF Types
  <1>7. Linked
    BY <1>0, <1>2, <1>3, <1>4, <1>5 DEF Linked, Init
  <1>8. Framed
    <2>1. \A c \in Conns : conn[c].stream = <<>> /\ ~ Both(c)
      BY <1>2, <1>3 DEF Both
    <2>2. DOMAIN <<>> = {}
      OBVIOUS
    <2> QED
      BY <2>1, <2>2 DEF Framed, FramesIntact
  <1>9. Calm
    <2>1. Quiet
      BY <1>0, <1>2, <1>3, <1>4 DEF Quiet
    <2>2. /\ \A c \in Conns : conn[c].stream = <<>>
          /\ arrived = <<>> /\ DOMAIN <<>> = {}
      BY <1>2, <1>3 DEF Init
    <2>3. Ordered
      BY <2>2 DEF Ordered, Rising
    <2> QED
      BY <2>1, <2>3 DEF Calm
  <1> QED
    BY <1>6, <1>7, <1>8, <1>9 DEF IInv

LEMMA StepSafe ==
  ASSUME IInv, [Next]_vars
  PROVE  IInv'
  <1>0. Types /\ Linked /\ Framed /\ Calm
    BY DEF IInv
  <1>1. Types'
    <2>1. CASE \/ Stop \/ PeerStarts \/ PeerCrashes
               \/ \E c \in Conns : Peer(c) \/ Reset(c)
               \/ UNCHANGED vars
      BY <1>0, <2>1, OtherTypes
    <2> QED
      BY <1>0, <2>1, Basics, ConnectTypes, SendTypes, ReaderTypes
         DEF Next, Sending, Reader
  <1>2. Linked' /\ Framed'
    BY <1>0, <1>1, LinkedStep, FramedStep
  <1>3. Calm'
    <2> SUFFICES ASSUME faults' = 0, ~ stopped' PROVE Quiet' /\ Ordered'
      BY DEF Calm
    <2>1. faults = 0 /\ ~ stopped
      BY <1>0, FaultsGrow
    <2> QED
      BY <1>0, <2>1, QuietStep, OrderedStep DEF Calm
  <1> QED
    BY <1>1, <1>2, <1>3 DEF IInv

\* p2p.go:110-384: what Send, the readers and the peer keep together, in any
\* interleaving and with any faults.
THEOREM Invariance == Spec => []IInv
  BY InitSafe, StepSafe, PTL DEF Spec

\* The types of the variables; a message that arrives, or is lost, was sent.
THEOREM TypeCorrect == Spec => []TypeOK
  <1>1. IInv => TypeOK
    <2> SUFFICES ASSUME IInv PROVE TypeOK
      OBVIOUS
    <2>1. next \in 1..MaxSends + 1
      BY Basics DEF IInv, Types
    <2> QED
      BY <2>1 DEF IInv, Types, TypeOK, Conn, Holds
  <1> QED
    BY <1>1, Invariance, PTL

\* p2p.go:152-166: no connection ever carries anything but whole frames and,
\* at its end, a length without its data.
THEOREM WholeFrames == Spec => []FramesIntact
  <1>1. IInv => FramesIntact
    BY DEF IInv, Framed
  <1> QED
    BY <1>1, Invariance, PTL

\* p2p.go:211-215: a connection that this end closed, and that is still in the
\* table, has a reader about to take it out.
THEOREM DeadEntriesAreRemoved == Spec => []DeadEntryIsRemoved
  <1>1. IInv => DeadEntryIsRemoved
    BY Basics DEF IInv, Linked, DeadEntryIsRemoved, IsOpen
  <1> QED
    BY <1>1, Invariance, PTL

\* p2p.go:118-131, 271-300: what Pbft assumes of its links holds until the
\* first fault: one connection, no panic of Send, and messages in order.
THEOREM LinkIsUndisturbed == Spec => []UndisturbedLink
  <1>1. IInv => UndisturbedLink
    <2> SUFFICES ASSUME IInv, faults = 0, ~ stopped
                 PROVE  /\ Cardinality({c \in Conns : IsOpen(c)}) <= 1
                        /\ at[Sender] # "panicked"
                        /\ \A i, j \in DOMAIN arrived : i < j => arrived[i] < arrived[j]
      BY DEF UndisturbedLink
    <2>1. Quiet /\ Ordered
      BY DEF IInv, Calm
    <2>2. at[Sender] # "panicked"
      BY <2>1 DEF Quiet
    <2>3. \A i, j \in DOMAIN arrived : i < j => arrived[i] < arrived[j]
      BY <2>1 DEF Ordered
    <2>4. Cardinality({c \in Conns : IsOpen(c)}) <= 1
      <3>1. PICK open : open = {c \in Conns : IsOpen(c)}
        OBVIOUS
      <3>2. \A c, d \in open : c = d
        BY <2>1, <3>1, Basics DEF Quiet, IsOpen
      <3>3. CASE open = {}
        BY <3>1, <3>3, FS_EmptySet
      <3>4. CASE open # {}
        <4>1. PICK c \in open : TRUE
          BY <3>4
        <4>2. open = {c}
          BY <3>2, <4>1
        <4>3. Cardinality(open) = 1
          BY <4>2, FS_Singleton
        <4> QED
          BY <3>1, <4>3
      <3> QED
        BY <3>3, <3>4
    <2> QED
      BY <2>2, <2>3, <2>4
  <1> QED
    BY <1>1, Invariance, PTL
=============================================================================
