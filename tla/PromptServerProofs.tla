-------------------------- MODULE PromptServerProofs --------------------------
(***************************************************************************)
(* Proofs about PromptServer, for any number of prompts and nodes, any     *)
(* channel capacity, quorum and configurations.                            *)
(*                                                                         *)
(* IInv is inductive. Numbered is what the request counter gives as long   *)
(* as no two handlers are between its read and the naming at once: one     *)
(* handler in there, and a number of its own for every one that left.      *)
(* Tabled ties the leader's table to the numbers: an entry stands under    *)
(* the number of the prompt that made it, a handler that found an entry    *)
(* has the number of its maker, and a stored CID is in the entry that is   *)
(* there. Wrapping is the same for the callback of a node.                 *)
(***************************************************************************)
EXTENDS PromptServer, FiniteSetTheorems, TLAPS

Places ==
  {"new", "counting", "naming", "getting", "setting", "submitting", "asking role",
   "looking", "waiting", "checking", "finding", "answering", "answered"}

\* Where a handler has no number yet, and where it has one but no answer.
Early == {"new", "counting", "naming"}
Busy  == Places \ (Early \cup {"answered"})

Handler ==
  [at : Places, node : Nodes, read : IDs \cup Prompts \cup {Heard, None},
   orig : Seq(Prompts), id : IDs, answer : Prompts \cup Answers]

Receiver ==
  [at : {"idle", "calling", "processing"}, prompt : Prompts \cup {None},
   rest : Seq(Prompts)]

Run == [at : {"idle", "delivering", "storing"}, prompt : Prompts \cup {None}]

Types ==
  /\ config \in Configs
  /\ handler \in [Prompts -> Handler]
  /\ \A p \in Prompts : handler[p].node <= config.nodes
  /\ counter \in Nat
  /\ callback \in [Nodes -> Seq(Prompts)]
  /\ chan \in [Prompts -> 0..ChanCap]
  /\ collector \in [Prompts -> {"none", "reading", "done"}]
  /\ entry \in [IDs -> Prompts \cup {Heard, None}]
  /\ cid \in [Prompts -> {"none", "half", "stored"}]
  /\ proposed \subseteq Prompts
  /\ receiver \in [Nodes -> Receiver]
  /\ engine \in [Nodes -> Run]
  /\ \A n \in Nodes : engine[n].at # "idle" => engine[n].prompt \in Prompts
  /\ raced \subseteq {"counter", "callback"}

\* Handlers that wrote the counter; it never exceeds their number.
Counted == {p \in Prompts : handler[p].at \notin {"new", "counting"}}

Bounded ==
  /\ counter <= Cardinality(Counted)
  /\ \A p \in Prompts : handler[p].at = "counting" =>
       handler[p].read \in Nat /\ handler[p].read <= Cardinality(Counted)

Alone ==
  /\ \A p, q \in Prompts :
       {handler[p].at, handler[q].at} \subseteq {"counting", "naming"} => p = q
  /\ \A p \in Prompts :
       /\ handler[p].at = "counting" => handler[p].read = counter
       /\ handler[p].at = "naming" => \A q \in Prompts : handler[q].id < counter
       /\ handler[p].id <= counter
  /\ \A p, q \in Prompts : handler[p].id = handler[q].id /\ handler[p].id # 0 => p = q

Numbered ==
  /\ \A p \in Prompts :
       /\ handler[p].at = "naming" => counter # 0
       /\ handler[p].at \in Busy => handler[p].id # 0
  /\ "counter" \notin raced => Alone

\* The call of prompt e makes entries under the number i.
Made(h, e, i) == h[e].id = i /\ i # 0 /\ h[e].at \notin Early

Tabled ==
  /\ \A i \in IDs : entry[i] \in Prompts => Made(handler, entry[i], i)
  /\ \A p \in Prompts :
       /\ handler[p].answer # "none" => handler[p].at = "answered"
       /\ handler[p].at = "answering" /\ handler[p].read \in Prompts =>
            Made(handler, handler[p].read, handler[p].id)
       /\ handler[p].answer \in Prompts => Made(handler, handler[p].answer, handler[p].id)
  /\ \A n \in Nodes : engine[n].at = "storing" => cid[engine[n].prompt] # "none"
  /\ "counter" \notin raced =>
       \A p \in Prompts : cid[p] # "none" => entry[handler[p].id] = p

Wrapping ==
  /\ \A p \in Prompts : handler[p].at \in Early => handler[p].node = 1
  /\ "callback" \notin raced =>
       /\ \A p \in Prompts :
            handler[p].at = "setting" => handler[p].orig = callback[handler[p].node]
       /\ \A p, q \in Prompts :
            /\ handler[p].at = "setting" /\ handler[q].at = "setting"
            /\ handler[p].node = handler[q].node
            => p = q
  /\ WrapsStay

IInv == Types /\ Bounded /\ Numbered /\ Tabled /\ Wrapping

-----------------------------------------------------------------------------
(* The steps. *)

LEMMA IDsFacts ==
  /\ Cardinality(Prompts) \in Nat
  /\ IDs \subseteq Nat /\ 0 \in IDs
  /\ \A i \in Nat : i \in IDs <=> i <= Cardinality(Prompts)
  BY FS_CardinalityType, ServerAssumption DEF IDs

LEMMA CountedFinite ==
  /\ IsFiniteSet(Counted) /\ Cardinality(Counted) \in Nat
  /\ Cardinality(Counted) <= Cardinality(Prompts)
  <1>1. Counted \subseteq Prompts /\ IsFiniteSet(Prompts)
    BY ServerAssumption DEF Counted
  <1> QED
    BY <1>1, FS_Subset, FS_CardinalityType

\* Steps of a handler that has its number.
Late(p) ==
  \/ GetCallback(p) \/ SetCallback(p) \/ Submit(p) \/ AskRole(p) \/ Look(p)
  \/ AwaitCollector(p) \/ Check(p) \/ FindEntry(p) \/ SendAnswer(p)

\* The end of the body of a loop over the nodes.
LEMMA NextNodeType ==
  ASSUME Types, NEW h \in Handler, h.node <= config.nodes,
         NEW again \in Places, NEW after \in Places,
         NEW g, g = NextNode(h, again, after)
  PROVE  /\ g \in Handler /\ g.node <= config.nodes /\ g.id = h.id
         /\ g.at \in {again, after} /\ g.answer = h.answer
         /\ g.read = h.read /\ g.orig = h.orig
         /\ h.node # config.nodes => g.at = again /\ g.node = h.node + 1
         /\ h.node = config.nodes => g.at = after
  <1>1. config.nodes \in 1..N /\ N \in Nat /\ h.node \in 1..N
    BY ServerAssumption DEF Types, Handler, Nodes
  <1>2. CASE h.node = config.nodes
    <2>1. g = [h EXCEPT !.node = 1, !.at = after]
      BY <1>2 DEF NextNode
    <2>2. 1 \in Nodes /\ 1 <= config.nodes
      BY <1>1 DEF Nodes
    <2> QED
      BY <1>2, <2>1, <2>2 DEF Handler
  <1>3. CASE h.node # config.nodes
    <2>1. h.node + 1 \in Nodes /\ h.node + 1 <= config.nodes
      BY <1>1, <1>3 DEF Nodes
    <2>2. g = [h EXCEPT !.node = h.node + 1, !.at = again]
      BY <1>3 DEF NextNode, Handler
    <2> QED
      BY <1>3, <2>1, <2>2 DEF Handler
  <1> QED
    BY <1>2, <1>3

\* A late step changes one handler, and not its number.
LEMMA LateStep ==
  ASSUME Types, NEW p \in Prompts, Late(p)
  PROVE  /\ handler' \in [Prompts -> Handler]
         /\ \A q \in Prompts \ {p} : handler'[q] = handler[q]
         /\ handler'[p].id = handler[p].id
         /\ handler'[p].node <= config.nodes
         /\ handler[p].at \in Busy
         /\ handler'[p].at \in Busy \cup {"answered"}
  <1> DEFINE Good(h) ==
        /\ h \in Handler /\ h.id = handler[p].id /\ h.node <= config.nodes
        /\ h.at \in Busy \cup {"answered"}
  <1>0. /\ handler[p] \in Handler /\ handler[p].node <= config.nodes
        /\ handler \in [Prompts -> Handler]
    BY DEF Types
  <1>1. handler[p].at \in Busy
    BY DEF Late, GetCallback, SetCallback, Submit, AskRole, Look, AwaitCollector,
           Check, FindEntry, SendAnswer, At, Busy, Places, Early
  <1>2. \A where \in Busy : Good([handler[p] EXCEPT !.at = where])
    BY <1>0 DEF Handler, Busy, Places
  <1>3. \A a \in Prompts \cup Answers :
          Good([handler[p] EXCEPT !.at = "answered", !.answer = a])
    BY <1>0 DEF Handler, Places
  <1>4. \A again, after \in Busy : Good(NextNode(handler[p], again, after))
    <2> TAKE again, after \in Busy
    <2> DEFINE h == handler[p]
    <2>1. again \in Places /\ after \in Places
      BY DEF Busy
    <2>2. h \in Handler /\ h.node <= config.nodes
      BY <1>0
    <2> HIDE DEF h
    <2>3. PICK g : g = NextNode(h, again, after)
      OBVIOUS
    <2>4. /\ g \in Handler /\ g.node <= config.nodes /\ g.id = h.id
          /\ g.at \in {again, after}
      BY <2>1, <2>2, <2>3, NextNodeType
    <2> QED
      BY <2>3, <2>4 DEF h
  <1>5. \E h : Good(h) /\ handler' = [handler EXCEPT ![p] = h]
    <2>1. CASE GetCallback(p)
      <3>1. callback[handler[p].node] \in Seq(Prompts)
        BY <1>0 DEF Types, Handler
      <3>2. Good([handler[p] EXCEPT !.at = "setting",
                                    !.orig = callback[handler[p].node]])
        BY <1>0, <3>1 DEF Handler, Busy, Places, Early
      <3> QED
        BY <2>1, <3>2 DEF GetCallback
    <2>2. CASE SetCallback(p)
      <3>1. PICK f : f = [handler[p] EXCEPT !.orig = <<>>]
        OBVIOUS
      <3>2. <<>> \in Seq(Prompts)
        OBVIOUS
      <3>3. f \in Handler /\ f.node <= config.nodes /\ f.id = handler[p].id
        BY <1>0, <3>1, <3>2 DEF Handler
      <3>4. "getting" \in Busy /\ "submitting" \in Busy /\ Busy \subseteq Places
        BY DEF Busy, Places, Early
      <3>5. PICK g : g = NextNode(f, "getting", "submitting")
        OBVIOUS
      <3>6. /\ g \in Handler /\ g.node <= config.nodes /\ g.id = f.id
            /\ g.at \in {"getting", "submitting"}
        BY <3>3, <3>4, <3>5, NextNodeType
      <3>7. handler' = [handler EXCEPT ![p] = g]
        BY <2>2, <3>1, <3>5 DEF SetCallback
      <3> QED
        BY <3>3, <3>4, <3>6, <3>7
    <2>3. CASE Submit(p)
      <3>1. Go(p, "asking role") \/ Answer(p, "failed")
        BY <2>3 DEF Submit
      <3>2. "asking role" \in Busy /\ "failed" \in Prompts \cup Answers
        BY DEF Busy, Places, Early, Answers
      <3> HIDE DEF Good
      <3>3. CASE Go(p, "asking role")
        BY <1>2, <3>2, <3>3 DEF Go
      <3>4. CASE Answer(p, "failed")
        BY <1>3, <3>2, <3>4 DEF Answer
      <3> QED
        BY <3>1, <3>3, <3>4
    <2>4. CASE AskRole(p)
      <3>1. Go(p, "looking") \/ Answer(p, "failed")
        BY <2>4 DEF AskRole
      <3>2. "looking" \in Busy /\ "failed" \in Prompts \cup Answers
        BY DEF Busy, Places, Early, Answers
      <3> HIDE DEF Good
      <3>3. CASE Go(p, "looking")
        BY <1>2, <3>2, <3>3 DEF Go
      <3>4. CASE Answer(p, "failed")
        BY <1>3, <3>2, <3>4 DEF Answer
      <3> QED
        BY <3>1, <3>3, <3>4
    <2>5. CASE Look(p)
      BY <1>4, <2>5 DEF Look, Busy, Places, Early
    <2>6. CASE AwaitCollector(p)
      BY <1>2, <2>6 DEF AwaitCollector, Go, Busy, Places, Early
    <2>7. CASE Check(p)
      BY <1>4, <2>7 DEF Check, Busy, Places, Early
    <2>8. CASE FindEntry(p)
      <3>1. entry[handler[p].id] \in Prompts \cup {Heard, None}
        BY <1>0 DEF Types, Handler
      <3>2. PICK h : h = [handler[p] EXCEPT !.at = "answering",
                                            !.read = entry[handler[p].id]]
        OBVIOUS
      <3>3. Good(h)
        BY <1>0, <3>1, <3>2 DEF Handler, Busy, Places, Early
      <3>4. handler' = [handler EXCEPT ![p] = h]
        BY <1>0, <2>8, <3>2 DEF FindEntry
      <3> HIDE DEF Good
      <3> QED
        BY <3>3, <3>4
    <2>9. CASE SendAnswer(p)
      <3>1. PICK a \in Prompts \cup Answers : Answer(p, a)
        BY <2>9 DEF SendAnswer, Answers
      <3>2. PICK h : h = [handler[p] EXCEPT !.at = "answered", !.answer = a]
        OBVIOUS
      <3>3. Good(h)
        BY <1>3, <3>2
      <3>4. handler' = [handler EXCEPT ![p] = h]
        BY <1>0, <3>1, <3>2 DEF Answer
      <3> HIDE DEF Good
      <3> QED
        BY <3>3, <3>4
    <2> QED
      BY <2>1, <2>2, <2>3, <2>4, <2>5, <2>6, <2>7, <2>8, <2>9 DEF Late
  <1> HIDE DEF Good
  <1>6. PICK h : Good(h) /\ handler' = [handler EXCEPT ![p] = h]
    BY <1>5
  <1>7. /\ handler' \in [Prompts -> Handler] /\ handler'[p] = h
        /\ \A q \in Prompts \ {p} : handler'[q] = handler[q]
    BY <1>0, <1>6 DEF Good
  <1> QED
    BY <1>1, <1>6, <1>7 DEF Good

LEMMA LoopType ==
  ASSUME Types, NEW h \in Handler, h.node <= config.nodes,
         NEW g, NEW again, NEW after, g = NextNode(h, again, after),
         \/ again = "getting" /\ after = "submitting"
         \/ again = "submitting" /\ after = "waiting"
         \/ again = "checking" /\ after = "finding"
  PROVE  /\ g.at \in {again, after} /\ g.answer = h.answer
         /\ g.at \notin {"answering", "answered"}
  <1>1. again \in Places /\ after \in Places
    BY DEF Places
  <1>2. g.at \in {again, after} /\ g.answer = h.answer
    BY <1>1, NextNodeType
  <1> QED
    BY <1>2

\* What the two ways out of ProcessPrompt do to a handler.
LEMMA MoveOrFail ==
  ASSUME Types, NEW p \in Prompts, NEW where, Go(p, where) \/ Answer(p, "failed")
  PROVE  \/ handler'[p].at = where /\ handler'[p].answer = handler[p].answer
         \/ handler'[p].at = "answered" /\ handler'[p].answer = "failed"
  <1>1. handler \in [Prompts -> Handler] /\ handler[p] \in Handler
    BY DEF Types
  <1>2. CASE Go(p, where)
    BY <1>1, <1>2 DEF Go, Handler
  <1>3. CASE Answer(p, "failed")
    BY <1>1, <1>3 DEF Answer, Handler
  <1> QED
    BY <1>2, <1>3

LEMMA RangeAppend ==
  ASSUME NEW q \in Seq(Prompts), NEW p \in Prompts
  PROVE  /\ Append(q, p) \in Seq(Prompts)
         /\ p \in Range(Append(q, p))
         /\ Range(q) \subseteq Range(Append(q, p))
  <1>1. /\ Append(q, p) \in Seq(Prompts)
        /\ Len(q) + 1 \in DOMAIN Append(q, p) /\ Append(q, p)[Len(q) + 1] = p
        /\ \A k \in DOMAIN q : k \in DOMAIN Append(q, p) /\ Append(q, p)[k] = q[k]
    OBVIOUS
  <1> QED
    BY <1>1 DEF Range

\* Entries stay with the prompt that made them, as long as a handler that has
\* its number keeps it.
LEMMA MadeStays ==
  ASSUME NEW p \in Prompts, \A q \in Prompts \ {p} : handler'[q] = handler[q],
         \/ handler[p].at \in Early
         \/ handler'[p].id = handler[p].id /\ handler'[p].at \notin Early,
         NEW e \in Prompts, NEW i, Made(handler, e, i)
  PROVE  Made(handler', e, i)
  <1>1. CASE e = p
    BY <1>1 DEF Made
  <1>2. CASE e # p
    BY <1>2 DEF Made
  <1> QED
    BY <1>1, <1>2

-----------------------------------------------------------------------------
(* Late steps. *)

LEMMA LateFrame ==
  ASSUME NEW p \in Prompts, Late(p)
  PROVE  /\ UNCHANGED <<counter, chan, cid, nodes>>
         /\ "counter" \in raced' <=> "counter" \in raced
         /\ "callback" \in raced => "callback" \in raced'
         /\ GetCallback(p) \/ raced' = raced
         /\ SetCallback(p) \/ UNCHANGED <<callback, collector>>
         /\ Submit(p) \/ entry' = entry
  BY DEF Late, GetCallback, SetCallback, Submit, AskRole, Look, AwaitCollector, Check,
         FindEntry, SendAnswer, Race, nodes, channels, table

LEMMA LateTypes ==
  ASSUME IInv, NEW p \in Prompts, Late(p)
  PROVE  Types'
  <1>1. /\ handler' \in [Prompts -> Handler]
        /\ \A q \in Prompts \ {p} : handler'[q] = handler[q]
        /\ handler'[p].node <= config.nodes
    BY LateStep DEF IInv
  <1>2. /\ Types /\ UNCHANGED <<counter, chan, cid, nodes>>
        /\ handler[p] \in Handler /\ handler \in [Prompts -> Handler]
    BY LateFrame DEF IInv, Types
  <1>3. raced' \subseteq {"counter", "callback"}
    <2>1. raced' = raced \/ raced' = raced \cup {"callback"}
      <3>1. CASE GetCallback(p)
        BY <3>1 DEF GetCallback, Race
      <3> QED
        BY <3>1, LateFrame
    <2> QED
      BY <1>2, <2>1 DEF Types
  <1>4. callback' \in [Nodes -> Seq(Prompts)]
    <2>1. CASE SetCallback(p)
      <3>1. handler[p].orig \in Seq(Prompts) /\ callback \in [Nodes -> Seq(Prompts)]
        BY <1>2 DEF Types, Handler
      <3>2. Wrapped(p) \in Seq(Prompts)
        BY <3>1, RangeAppend DEF Wrapped
      <3> QED
        BY <2>1, <3>1, <3>2 DEF SetCallback
    <2>2. CASE ~ SetCallback(p)
      BY <1>2, <2>2, LateFrame DEF Types
    <2> QED
      BY <2>1, <2>2
  <1>5. collector' \in [Prompts -> {"none", "reading", "done"}]
    BY <1>2, LateFrame DEF Types, SetCallback
  <1>6. entry' \in [IDs -> Prompts \cup {Heard, None}]
    BY <1>2, LateFrame DEF Types, Submit
  <1>7. proposed' \subseteq Prompts
    BY <1>2 DEF Types, Late, GetCallback, SetCallback, Submit, AskRole, Look,
                AwaitCollector, Check, FindEntry, SendAnswer
  <1> QED
    BY <1>1, <1>2, <1>3, <1>4, <1>5, <1>6, <1>7 DEF Types, nodes

LEMMA LateNumbers ==
  ASSUME IInv, NEW p \in Prompts, Late(p)
  PROVE  Bounded' /\ Numbered'
  <1>1. /\ \A q \in Prompts \ {p} : handler'[q] = handler[q]
        /\ handler'[p].id = handler[p].id
        /\ handler[p].at \in Busy /\ handler'[p].at \in Busy \cup {"answered"}
    BY LateStep DEF IInv
  <1>2. /\ counter' = counter
        /\ "counter" \in raced' <=> "counter" \in raced
    BY LateFrame
  <1>3. /\ handler[p].at \notin {"new", "counting", "naming"}
        /\ handler'[p].at \notin {"new", "counting", "naming"}
    BY <1>1 DEF Busy, Early, Places
  <1>4. Counted' = Counted
    BY <1>1, <1>3 DEF Counted
  <1>5. Bounded'
    BY <1>1, <1>2, <1>3, <1>4 DEF IInv, Bounded
  <1>6. \A q \in Prompts : handler'[q].id = handler[q].id
    BY <1>1
  <1>7. Alone => Alone'
    <2> SUFFICES ASSUME Alone PROVE Alone'
      OBVIOUS
    <2>1. \A q, r \in Prompts :
            {handler'[q].at, handler'[r].at} \subseteq {"counting", "naming"} => q = r
      BY <1>1, <1>3 DEF Alone
    <2>2. \A q \in Prompts :
            /\ handler'[q].at = "counting" => handler'[q].read = counter
            /\ handler'[q].at = "naming" => \A r \in Prompts : handler[r].id < counter
            /\ handler'[q].id <= counter
      BY <1>1, <1>3 DEF Alone
    <2>3. \A q, r \in Prompts :
            handler'[q].id = handler'[r].id /\ handler'[q].id # 0 => q = r
      BY <1>6 DEF Alone
    <2> QED
      BY <1>2, <1>6, <2>1, <2>2, <2>3 DEF Alone
  <1>8. Numbered'
    BY <1>1, <1>2, <1>3, <1>7 DEF IInv, Numbered
  <1> QED
    BY <1>5, <1>8

LEMMA LateTable ==
  ASSUME IInv, NEW p \in Prompts, Late(p)
  PROVE  Tabled'
  <1>1. /\ \A q \in Prompts \ {p} : handler'[q] = handler[q]
        /\ handler'[p].id = handler[p].id
        /\ handler[p].at \in Busy /\ handler'[p].at \in Busy \cup {"answered"}
        /\ handler[p] \in Handler /\ handler[p].id \in IDs
    BY LateStep DEF IInv, Types, Handler
  <1>2. /\ UNCHANGED <<cid, engine>> /\ entry \in [IDs -> Prompts \cup {Heard, None}]
        /\ "counter" \in raced' <=> "counter" \in raced
    BY LateFrame DEF nodes, IInv, Types
  <1>3. /\ handler'[p].at \notin Early /\ handler[p].at # "answered"
        /\ handler[p].id # 0
    BY <1>1 DEF Busy, Early, Places, IInv, Numbered
  <1>4. \A e \in Prompts : \A i : Made(handler, e, i) => Made(handler', e, i)
    BY <1>1, <1>3, MadeStays
  <1>5. /\ \A q \in Prompts : handler'[q].id = handler[q].id
        /\ entry' = entry \/ entry' = [entry EXCEPT ![handler[p].id] = p]
    BY <1>1, LateFrame DEF Submit
  <1>6. Made(handler', p, handler[p].id)
    BY <1>1, <1>3 DEF Made
  <1>7. \A i \in IDs : entry'[i] \in Prompts => Made(handler', entry'[i], i)
    <2> SUFFICES ASSUME NEW i \in IDs, entry'[i] \in Prompts
                 PROVE  Made(handler', entry'[i], i)
      OBVIOUS
    <2>1. CASE entry'[i] = entry[i]
      BY <1>4, <2>1 DEF IInv, Tabled
    <2>2. CASE entry'[i] # entry[i]
      <3>1. i = handler[p].id /\ entry'[i] = p
        BY <1>2, <1>5, <2>2
      <3> QED
        BY <1>6, <3>1
    <2> QED
      BY <2>1, <2>2
  <1>8. ASSUME NEW q \in Prompts
        PROVE  (/\ handler[q].answer # "none" => handler[q].at = "answered"
                /\ handler[q].at = "answering" /\ handler[q].read \in Prompts =>
                     Made(handler, handler[q].read, handler[q].id)
                /\ handler[q].answer \in Prompts => Made(handler, handler[q].answer, handler[q].id))'
    <2>1. /\ handler[q].answer # "none" => handler[q].at = "answered"
          /\ handler[q].at = "answering" /\ handler[q].read \in Prompts =>
               Made(handler, handler[q].read, handler[q].id)
          /\ handler[q].answer \in Prompts => Made(handler, handler[q].answer, handler[q].id)
      BY DEF IInv, Tabled
    <2>2. CASE q # p
      BY <1>1, <1>4, <2>1, <2>2
    <2>3. handler \in [Prompts -> Handler] /\ Answers \cap Prompts = {}
      BY ServerAssumption DEF IInv, Types
    <2>4. CASE q = p /\ FindEntry(p)
      <3>1. /\ handler'[p].at = "answering" /\ handler'[p].answer = handler[p].answer
            /\ handler'[p].read = entry[handler[p].id]
        BY <2>3, <2>4 DEF FindEntry, Handler
      <3>2. handler'[p].read \in Prompts => Made(handler', handler'[p].read, handler[p].id)
        BY <1>1, <1>4, <3>1 DEF IInv, Tabled
      <3>3. handler'[p].answer = "none" /\ "none" \notin Prompts
        BY <1>3, <2>1, <2>3, <2>4, <3>1 DEF Answers
      <3> QED
        BY <1>5, <2>4, <3>2, <3>3
    <2>5. CASE q = p /\ SendAnswer(p)
      <3>1. handler[p].at = "answering"
        BY <2>5 DEF SendAnswer, At
      <3>2. PICK a \in ({handler[p].read} \cap Prompts) \cup Answers : Answer(p, a)
        BY <2>5 DEF SendAnswer, Answers
      <3>3. handler'[p].at = "answered" /\ handler'[p].answer = a
        BY <2>3, <3>2 DEF Answer, Handler
      <3>4. a \in Prompts => Made(handler', a, handler[p].id)
        BY <1>4, <2>1, <2>3, <2>5, <3>1, <3>2
      <3> QED
        BY <1>5, <2>5, <3>3, <3>4
    <2>6. CASE q = p /\ ~ FindEntry(p) /\ ~ SendAnswer(p)
      <3>1. /\ handler'[p].at # "answering"
            /\ \/ handler'[p].answer = handler[p].answer
               \/ handler'[p].at = "answered" /\ handler'[p].answer = "failed"
        <4>0. handler[p].node <= config.nodes /\ Types
          BY DEF IInv, Types
        <4>1. CASE GetCallback(p)
          BY <2>3, <4>1 DEF GetCallback, Handler
        <4>2. CASE SetCallback(p)
          <5>1. PICK f : f = [handler[p] EXCEPT !.orig = <<>>]
            OBVIOUS
          <5>2. <<>> \in Seq(Prompts)
            OBVIOUS
          <5>3. f \in Handler /\ f.node <= config.nodes /\ f.answer = handler[p].answer
            BY <1>1, <4>0, <5>1, <5>2 DEF Handler
          <5>4. PICK g : g = NextNode(f, "getting", "submitting")
            OBVIOUS
          <5>5. g.at # "answering" /\ g.answer = f.answer
            BY <4>0, <5>3, <5>4, LoopType
          <5>6. handler' = [handler EXCEPT ![p] = g]
            BY <4>2, <5>1, <5>4 DEF SetCallback
          <5> QED
            BY <2>3, <5>3, <5>5, <5>6
        <4>3. CASE Submit(p)
          <5>1. Go(p, "asking role") \/ Answer(p, "failed")
            BY <4>3 DEF Submit
          <5>2. \/ handler'[p].at = "asking role" /\ handler'[p].answer = handler[p].answer
                \/ handler'[p].at = "answered" /\ handler'[p].answer = "failed"
            BY <4>0, <5>1, MoveOrFail
          <5> QED
            BY <5>2
        <4>4. CASE AskRole(p)
          <5>1. Go(p, "looking") \/ Answer(p, "failed")
            BY <4>4 DEF AskRole
          <5>2. \/ handler'[p].at = "looking" /\ handler'[p].answer = handler[p].answer
                \/ handler'[p].at = "answered" /\ handler'[p].answer = "failed"
            BY <4>0, <5>1, MoveOrFail
          <5> QED
            BY <5>2
        <4>5. CASE Look(p)
          <5>1. PICK h \in Handler : h = handler[p] /\ h.node <= config.nodes
            BY <1>1, <4>0
          <5>2. PICK g : g = NextNode(h, "submitting", "waiting")
            OBVIOUS
          <5>3. g.at # "answering" /\ g.answer = h.answer
            BY <4>0, <5>1, <5>2, LoopType
          <5>4. handler' = [handler EXCEPT ![p] = g]
            BY <4>5, <5>1, <5>2 DEF Look
          <5> QED
            BY <2>3, <5>1, <5>3, <5>4
        <4>6. CASE AwaitCollector(p)
          BY <2>3, <4>6 DEF AwaitCollector, Go, Handler
        <4>7. CASE Check(p)
          <5>1. PICK h \in Handler : h = handler[p] /\ h.node <= config.nodes
            BY <1>1, <4>0
          <5>2. PICK g : g = NextNode(h, "checking", "finding")
            OBVIOUS
          <5>3. g.at # "answering" /\ g.answer = h.answer
            BY <4>0, <5>1, <5>2, LoopType
          <5>4. handler' = [handler EXCEPT ![p] = g]
            BY <4>7, <5>1, <5>2 DEF Check
          <5> QED
            BY <2>3, <5>1, <5>3, <5>4
        <4> QED
          BY <2>6, <4>1, <4>2, <4>3, <4>4, <4>5, <4>6, <4>7 DEF Late
      <3>2. handler[p].answer = "none" /\ {"none", "failed"} \cap Prompts = {}
        BY <1>3, <2>1, <2>3, <2>6 DEF Answers
      <3> QED
        BY <2>6, <3>1, <3>2
    <2> QED
      BY <2>2, <2>4, <2>5, <2>6
  <1>9. \A n \in Nodes : engine'[n].at = "storing" => cid'[engine'[n].prompt] # "none"
    BY <1>2 DEF IInv, Tabled
  <1>10. ASSUME "counter" \notin raced', NEW q \in Prompts, cid'[q] # "none"
         PROVE  entry'[handler'[q].id] = q
    <2>1. entry[handler[q].id] = q /\ handler[q].id \in IDs
      BY <1>2, <1>10 DEF IInv, Tabled, Types, Handler
    <2>2. handler[q].id = handler[p].id => q = p
      BY <1>2, <1>3, <1>10 DEF IInv, Numbered, Alone
    <2> QED
      BY <1>2, <1>5, <2>1, <2>2
  <1> QED
    BY <1>7, <1>8, <1>9, <1>10 DEF Tabled

\* Steps after the wrapping.
LEMMA PastWrapping ==
  ASSUME IInv, NEW p \in Prompts, Late(p), ~ GetCallback(p), ~ SetCallback(p)
  PROVE  /\ handler[p].at \notin {"getting", "setting"}
         /\ handler'[p].at \notin {"getting", "setting"}
         /\ handler'[p].answer # "refused"
  <1>0. /\ Types /\ handler \in [Prompts -> Handler]
        /\ handler[p] \in Handler /\ handler[p].node <= config.nodes
        /\ handler[p].answer # "none" => handler[p].at = "answered"
        /\ Answers \cap Prompts = {}
    BY ServerAssumption DEF IInv, Types, Tabled
  <1>1. CASE Submit(p)
    <2>1. Go(p, "asking role") \/ Answer(p, "failed")
      BY <1>1 DEF Submit
    <2>2. \/ handler'[p].at = "asking role" /\ handler'[p].answer = handler[p].answer
          \/ handler'[p].at = "answered" /\ handler'[p].answer = "failed"
      BY <1>0, <2>1, MoveOrFail
    <2> QED
      BY <1>0, <1>1, <2>2 DEF Submit, At
  <1>2. CASE AskRole(p)
    <2>1. Go(p, "looking") \/ Answer(p, "failed")
      BY <1>2 DEF AskRole
    <2>2. \/ handler'[p].at = "looking" /\ handler'[p].answer = handler[p].answer
          \/ handler'[p].at = "answered" /\ handler'[p].answer = "failed"
      BY <1>0, <2>1, MoveOrFail
    <2> QED
      BY <1>0, <1>2, <2>2 DEF AskRole, At
  <1>3. CASE Look(p)
    <2>1. PICK h \in Handler : h = handler[p] /\ h.node <= config.nodes
      BY <1>0
    <2>2. PICK g : g = NextNode(h, "submitting", "waiting")
      OBVIOUS
    <2>3. g.at \in {"submitting", "waiting"} /\ g.answer = h.answer
      BY <1>0, <2>1, <2>2, LoopType
    <2>4. handler' = [handler EXCEPT ![p] = g] /\ handler[p].at = "looking"
      BY <1>3, <2>1, <2>2 DEF Look, At
    <2> QED
      BY <1>0, <2>1, <2>3, <2>4
  <1>4. CASE AwaitCollector(p)
    BY <1>0, <1>4 DEF AwaitCollector, Go, At, Handler
  <1>5. CASE Check(p)
    <2>1. PICK h \in Handler : h = handler[p] /\ h.node <= config.nodes
      BY <1>0
    <2>2. PICK g : g = NextNode(h, "checking", "finding")
      OBVIOUS
    <2>3. g.at \in {"checking", "finding"} /\ g.answer = h.answer
      BY <1>0, <2>1, <2>2, LoopType
    <2>4. handler' = [handler EXCEPT ![p] = g] /\ handler[p].at = "checking"
      BY <1>5, <2>1, <2>2 DEF Check, At
    <2> QED
      BY <1>0, <2>1, <2>3, <2>4
  <1>6. CASE FindEntry(p)
    BY <1>0, <1>6 DEF FindEntry, At, Handler
  <1>7. CASE SendAnswer(p)
    <2>1. handler[p].at = "answering"
      BY <1>7 DEF SendAnswer, At
    <2>2. PICK a \in Prompts \cup {"torn", "empty"} : Answer(p, a)
      BY <1>7 DEF SendAnswer
    <2>3. handler'[p].at = "answered" /\ handler'[p].answer = a
      BY <1>0, <2>2 DEF Answer, Handler
    <2> QED
      BY <1>0, <2>1, <2>3 DEF Answers
  <1> QED
    BY <1>1, <1>2, <1>3, <1>4, <1>5, <1>6, <1>7 DEF Late

\* What WrapsStay says of one handler and one node.
Stays(n, p) ==
  \/ handler[p].at \in Early
  \/ handler[p].at \in {"getting", "setting"} /\ handler[p].node <= n
  \/ handler[p].answer = "refused"
  \/ p \in Range(callback[n])

LEMMA LateWraps ==
  ASSUME IInv, NEW p \in Prompts, Late(p)
  PROVE  Wrapping'
  <1>0. /\ handler' \in [Prompts -> Handler]
        /\ \A q \in Prompts \ {p} : handler'[q] = handler[q]
        /\ handler[p].at \in Busy /\ handler'[p].at \in Busy \cup {"answered"}
    BY LateStep DEF IInv
  <1>1. /\ config' = config
        /\ "callback" \in raced => "callback" \in raced'
    BY LateFrame DEF nodes
  <1>2. /\ Types /\ handler \in [Prompts -> Handler] /\ handler[p] \in Handler
        /\ handler[p].node \in Nat /\ handler[p].node <= config.nodes
        /\ handler[p].node \in 1..config.nodes
        /\ config.nodes \in 1..N /\ N \in Nat /\ config.nodes \in Nat
        /\ callback \in [Nodes -> Seq(Prompts)]
    <2>1. /\ Types /\ handler \in [Prompts -> Handler] /\ handler[p] \in Handler
          /\ handler[p].node <= config.nodes
          /\ callback \in [Nodes -> Seq(Prompts)]
      BY DEF IInv, Types
    <2>2. handler[p].node \in 1..N /\ N \in Nat /\ config.nodes \in 1..N
      BY <2>1, ServerAssumption DEF Types, Handler, Nodes
    <2> QED
      BY <2>1, <2>2
  <1>3. /\ handler[p].at \notin Early /\ handler'[p].at \notin Early
        /\ handler[p].answer = "none"
    BY <1>0 DEF Busy, Early, Places, IInv, Tabled
  <1>4. \A q \in Prompts : handler'[q].at \in Early => handler'[q].node = 1
    BY <1>0, <1>3 DEF IInv, Wrapping
  <1>5. ASSUME "callback" \notin raced'
        PROVE  /\ \A q \in Prompts : handler'[q].at = "setting" =>
                    handler'[q].orig = callback'[handler'[q].node]
               /\ \A q, r \in Prompts :
                    /\ handler'[q].at = "setting" /\ handler'[r].at = "setting"
                    /\ handler'[q].node = handler'[r].node
                    => q = r
               /\ \A n \in 1..config.nodes, q \in Prompts : Stays(n, q)'
    <2>1. /\ \A q \in Prompts :
               handler[q].at = "setting" => handler[q].orig = callback[handler[q].node]
          /\ \A q, r \in Prompts :
               /\ handler[q].at = "setting" /\ handler[r].at = "setting"
               /\ handler[q].node = handler[r].node
               => q = r
          /\ \A n \in 1..config.nodes, q \in Prompts : Stays(n, q)
      BY <1>1, <1>5 DEF IInv, Wrapping, WrapsStay, Stays, Early
    <2>2. CASE GetCallback(p)
      <3>1. /\ handler'[p].at = "setting" /\ handler'[p].node = handler[p].node
            /\ handler'[p].orig = callback[handler[p].node]
            /\ handler[p].at = "getting"
        BY <1>2, <2>2 DEF GetCallback, Handler, At
      <3>2. callback' = callback
        BY <2>2 DEF GetCallback, channels
      <3>3. \A q \in Prompts : handler[q].at = "setting" => handler[q].node # handler[p].node
        BY <1>5, <2>2 DEF GetCallback, Race, AtNode
      <3>4. ASSUME NEW n \in 1..config.nodes, NEW q \in Prompts PROVE Stays(n, q)'
        <4>1. CASE q = p
          <5>1. Stays(n, p)
            BY <2>1
          <5> QED
            BY <1>3, <3>1, <3>2, <4>1, <5>1 DEF Stays
        <4>2. CASE q # p
          <5>1. Stays(n, q)
            BY <2>1
          <5> QED
            BY <1>0, <3>2, <4>2, <5>1 DEF Stays
        <4> QED
          BY <4>1, <4>2
      <3>5. \A q \in Prompts : handler'[q].at = "setting" =>
              handler'[q].orig = callback'[handler'[q].node]
        BY <1>0, <2>1, <3>1, <3>2
      <3>6. \A q, r \in Prompts :
              /\ handler'[q].at = "setting" /\ handler'[r].at = "setting"
              /\ handler'[q].node = handler'[r].node
              => q = r
        BY <1>0, <2>1, <3>1, <3>3
      <3> QED
        BY <3>4, <3>5, <3>6
    <2>3. CASE SetCallback(p)
      <3> DEFINE n0 == handler[p].node
      <3>0. handler[p].at = "setting" /\ n0 \in Nodes
        BY <1>2, <2>3 DEF SetCallback, At, Handler
      <3>1. PICK f \in Handler : /\ f = [handler[p] EXCEPT !.orig = <<>>]
                                 /\ f.node = n0 /\ f.node <= config.nodes
        <4>1. <<>> \in Seq(Prompts)
          OBVIOUS
        <4>2. PICK f : f = [handler[p] EXCEPT !.orig = <<>>]
          OBVIOUS
        <4>3. f \in Handler /\ f.node = n0
          BY <1>2, <4>1, <4>2 DEF Handler
        <4> QED
          BY <1>2, <4>2, <4>3
      <3>2. PICK g : g = NextNode(f, "getting", "submitting")
        OBVIOUS
      <3>3. "getting" \in Places /\ "submitting" \in Places
        BY DEF Places
      <3>4. /\ g.at \in {"getting", "submitting"}
            /\ n0 # config.nodes => g.at = "getting" /\ g.node = n0 + 1
            /\ n0 = config.nodes => g.at = "submitting"
        <4>1. Types /\ f.node <= config.nodes /\ f.node = n0
          BY <1>2, <3>1
        <4> HIDE DEF n0
        <4>2. /\ g.at \in {"getting", "submitting"}
              /\ f.node # config.nodes => g.at = "getting" /\ g.node = f.node + 1
              /\ f.node = config.nodes => g.at = "submitting"
          BY <3>2, <3>3, <4>1, NextNodeType
        <4> QED
          BY <4>1, <4>2
      <3>5. handler'[p] = g
        BY <1>2, <2>3, <3>1, <3>2 DEF SetCallback
      <3>6. callback' = [callback EXCEPT ![n0] = Append(callback[n0], p)]
        BY <2>1, <2>3, <3>0 DEF SetCallback, Wrapped
      <3>7. callback[n0] \in Seq(Prompts)
        BY <1>2, <3>0
      <3>8. \A n \in Nodes : /\ Range(callback[n]) \subseteq Range(callback'[n])
                             /\ n # n0 => callback'[n] = callback[n]
                             /\ n = n0 => p \in Range(callback'[n])
        BY <1>2, <3>0, <3>6, <3>7, RangeAppend
      <3>9. 1..config.nodes \subseteq Nodes
        BY <1>2 DEF Nodes
      <3> HIDE DEF n0
      <3>10. ASSUME NEW n \in 1..config.nodes, NEW q \in Prompts PROVE Stays(n, q)'
        <4>0. Stays(n, q) /\ n \in Nodes /\ n \in Nat
          <5>1. Stays(n, q)
            BY <2>1
          <5> QED
            BY <1>2, <3>9, <5>1
        <4>1. CASE q # p
          BY <1>0, <3>8, <4>0, <4>1 DEF Stays
        <4>2. CASE q = p /\ n <= n0
          <5>1. CASE n = n0
            BY <3>8, <4>0, <4>2, <5>1 DEF Stays
          <5>2. CASE n # n0
            <6>1. ~ (n0 <= n) /\ handler[p].node = n0
              BY <1>2, <4>0, <4>2, <5>2 DEF n0
            <6> QED
              BY <1>3, <3>0, <3>8, <4>0, <4>2, <6>1 DEF Stays
          <5> QED
            BY <5>1, <5>2
        <4>3. CASE q = p /\ ~ (n <= n0)
          <5>1. n0 # config.nodes /\ n0 + 1 <= n
            BY <1>2, <4>0, <4>3 DEF n0
          <5> QED
            BY <3>4, <3>5, <4>3, <5>1 DEF Stays
        <4> QED
          BY <4>1, <4>2, <4>3
      <3>11. \A q \in Prompts : handler'[q].at = "setting" => q # p /\ handler[q].at = "setting"
        BY <1>0, <3>4, <3>5
      <3>12. \A q \in Prompts : handler'[q].at = "setting" =>
               handler'[q].orig = callback'[handler'[q].node]
        <4> SUFFICES ASSUME NEW q \in Prompts, handler'[q].at = "setting"
                     PROVE  handler'[q].orig = callback'[handler'[q].node]
          OBVIOUS
        <4>1. q # p /\ handler[q].at = "setting" /\ handler'[q] = handler[q]
          BY <1>0, <3>11
        <4>2. handler[q].node \in Nodes /\ handler[q].node # n0
          BY <1>2, <2>1, <3>0, <4>1 DEF Handler, n0
        <4> QED
          BY <2>1, <3>8, <4>1, <4>2
      <3>13. \A q, r \in Prompts :
               /\ handler'[q].at = "setting" /\ handler'[r].at = "setting"
               /\ handler'[q].node = handler'[r].node
               => q = r
        BY <1>0, <2>1, <3>11
      <3> QED
        BY <3>10, <3>12, <3>13
    <2>4. CASE ~ GetCallback(p) /\ ~ SetCallback(p)
      <3>1. /\ handler[p].at \notin {"getting", "setting"}
            /\ handler'[p].at \notin {"getting", "setting"}
            /\ handler'[p].answer # "refused"
        BY <2>4, PastWrapping
      <3>2. callback' = callback
        BY <2>4, LateFrame
      <3>3. ASSUME NEW n \in 1..config.nodes, NEW q \in Prompts PROVE Stays(n, q)'
        <4>1. Stays(n, q)
          BY <2>1
        <4>2. CASE q # p
          BY <1>0, <3>2, <4>1, <4>2 DEF Stays
        <4>3. CASE q = p
          <5>1. p \in Range(callback[n])
            BY <1>3, <3>1, <4>1, <4>3 DEF Stays
          <5> QED
            BY <3>2, <4>3, <5>1 DEF Stays
        <4> QED
          BY <4>2, <4>3
      <3> QED
        BY <1>0, <2>1, <3>1, <3>2, <3>3
    <2> QED
      BY <2>2, <2>3, <2>4
  <1> QED
    BY <1>1, <1>4, <1>5 DEF Wrapping, WrapsStay, Stays, Early

-----------------------------------------------------------------------------
(* Early steps. *)

LEMMA RefuseSafe ==
  ASSUME IInv, NEW p \in Prompts, Refuse(p)
  PROVE  IInv'
  <1>0. /\ Types /\ handler \in [Prompts -> Handler] /\ handler[p] \in Handler
        /\ handler[p].at = "new"
        /\ UNCHANGED <<counter, channels, table, proposed, nodes, raced>>
    BY DEF IInv, Types, Refuse, At
  <1> USE DEF channels, table, nodes
  <1>1. PICK h : h = [handler[p] EXCEPT !.at = "answered", !.answer = "refused"]
    OBVIOUS
  <1>2. /\ h \in Handler /\ h.at = "answered" /\ h.answer = "refused"
        /\ h.id = handler[p].id /\ h.node = handler[p].node
    BY <1>0, <1>1 DEF Handler, Places, Answers
  <1>3. /\ handler' \in [Prompts -> Handler] /\ handler'[p] = h
        /\ \A q \in Prompts \ {p} : handler'[q] = handler[q]
    BY <1>0, <1>1, <1>2 DEF Refuse, Answer
  <1>4. Types'
    BY <1>0, <1>2, <1>3 DEF Types
  <1>5. Bounded'
    <2>1. Counted \subseteq Counted'
      BY <1>0, <1>3 DEF Counted
    <2>2. Cardinality(Counted) <= Cardinality(Counted') /\ Cardinality(Counted) \in Nat
          /\ Cardinality(Counted') \in Nat
      <3>1. Counted' \subseteq Prompts /\ IsFiniteSet(Prompts)
        BY ServerAssumption DEF Counted
      <3>2. IsFiniteSet(Counted')
        BY <3>1, FS_Subset
      <3> QED
        BY <2>1, <3>2, FS_Subset, FS_CardinalityType, CountedFinite
    <2>3. counter \in Nat
      BY <1>0 DEF Types
    <2> QED
      BY <1>0, <1>2, <1>3, <2>2, <2>3 DEF IInv, Bounded
  <1>6. \A q \in Prompts : /\ handler'[q].id = handler[q].id
                           /\ handler'[q].at \in {"counting", "naming"} \cup Busy =>
                                handler'[q] = handler[q]
    BY <1>2, <1>3 DEF Busy
  <1>7. Numbered'
    <2>1. Alone => Alone'
      BY <1>0, <1>6 DEF Alone
    <2>2. \A q \in Prompts : /\ handler'[q].at = "naming" => counter' # 0
                             /\ handler'[q].at \in Busy => handler'[q].id # 0
      BY <1>0, <1>6 DEF IInv, Numbered
    <2> QED
      BY <1>0, <2>1, <2>2 DEF IInv, Numbered
  <1>8. Tabled'
    <2>1. \A e \in Prompts : \A i : Made(handler, e, i) => Made(handler', e, i)
      BY <1>0, <1>3, MadeStays DEF Early
    <2>2. "refused" \notin Prompts
      BY ServerAssumption DEF Answers
    <2> QED
      BY <1>0, <1>2, <1>3, <1>6, <2>1, <2>2 DEF IInv, Tabled
  <1>9. Wrapping'
    BY <1>0, <1>2, <1>3 DEF IInv, Wrapping, WrapsStay, Early
  <1> QED
    BY <1>4, <1>5, <1>7, <1>8, <1>9 DEF IInv

\* Numbering a request, up to the first wrap, leaves the table and the
\* callbacks alone: nothing was made by this prompt yet.
LEMMA EarlyFrame ==
  ASSUME IInv, NEW p \in Prompts, handler[p].at \in Early,
         NEW h \in Handler, handler' = [handler EXCEPT ![p] = h],
         h.at \in Early \cup {"getting"},
         h.node = handler[p].node, h.answer = handler[p].answer,
         h.at \in Early => h.id = handler[p].id,
         UNCHANGED <<channels, table, proposed, nodes>>,
         counter' \in Nat, raced' \in SUBSET {"counter", "callback"},
         "counter" \in raced => "counter" \in raced',
         "callback" \in raced' <=> "callback" \in raced
  PROVE  /\ Types' /\ Tabled' /\ Wrapping'
         /\ handler'[p] = h /\ \A q \in Prompts \ {p} : handler'[q] = handler[q]
  <1> USE DEF channels, table, nodes
  <1>0. Types /\ handler \in [Prompts -> Handler] /\ handler[p] \in Handler
    BY DEF IInv, Types
  <1>1. /\ handler' \in [Prompts -> Handler] /\ handler'[p] = h
        /\ \A q \in Prompts \ {p} : handler'[q] = handler[q]
    BY <1>0
  <1>2. Types'
    BY <1>0, <1>1 DEF Types
  <1>3. handler[p].answer = "none" /\ "none" \notin Prompts
    BY <1>0, ServerAssumption DEF IInv, Tabled, Early, Answers
  <1>4. Tabled'
    <2>1. \A e \in Prompts : \A i : Made(handler, e, i) => e # p /\ Made(handler', e, i)
      BY <1>1 DEF Made
    <2>2. \A i \in IDs : entry'[i] \in Prompts => Made(handler', entry'[i], i)
      BY <2>1 DEF IInv, Tabled
    <2>3. ASSUME NEW q \in Prompts
          PROVE  /\ handler'[q].answer # "none" => handler'[q].at = "answered"
                 /\ handler'[q].at = "answering" /\ handler'[q].read \in Prompts =>
                      Made(handler', handler'[q].read, handler'[q].id)
                 /\ handler'[q].answer \in Prompts =>
                      Made(handler', handler'[q].answer, handler'[q].id)
      <3>1. CASE q = p
        BY <1>1, <1>3, <3>1 DEF Early
      <3>2. CASE q # p
        <4>1. handler'[q] = handler[q]
          BY <1>1, <3>2
        <4>2. /\ handler[q].answer # "none" => handler[q].at = "answered"
              /\ handler[q].at = "answering" /\ handler[q].read \in Prompts =>
                   Made(handler, handler[q].read, handler[q].id)
              /\ handler[q].answer \in Prompts =>
                   Made(handler, handler[q].answer, handler[q].id)
          BY DEF IInv, Tabled
        <4> QED
          BY <2>1, <4>1, <4>2
      <3> QED
        BY <3>1, <3>2
    <2>4. ASSUME "counter" \notin raced', NEW q \in Prompts, cid'[q] # "none"
          PROVE  entry'[handler'[q].id] = q
      <3>1. entry[handler[q].id] = q /\ handler[q].id \in IDs
        BY <1>0, <2>4 DEF IInv, Tabled, Types, Handler
      <3>2. q # p
        BY <2>1, <3>1 DEF IInv, Tabled
      <3> QED
        BY <1>1, <3>1, <3>2
    <2>5. \A n \in Nodes : engine'[n].at = "storing" => cid'[engine'[n].prompt] # "none"
      BY DEF IInv, Tabled
    <2> QED
      BY <2>2, <2>3, <2>4, <2>5 DEF Tabled
  <1>5. Wrapping'
    <2>1. h.node = 1
      BY DEF IInv, Wrapping
    <2>2. ASSUME "callback" \notin raced', NEW n \in 1..config.nodes, NEW q \in Prompts
          PROVE  Stays(n, q)'
      <3>1. CASE q = p
        <4>1. 1 <= n /\ handler'[p].node = 1 /\ handler'[p].at \in Early \cup {"getting"}
          BY <1>0, <1>1, <2>1, ServerAssumption DEF Types
        <4> QED
          BY <3>1, <4>1 DEF Stays
      <3>2. CASE q # p
        <4>1. Stays(n, q)
          BY <2>2 DEF IInv, Wrapping, WrapsStay, Stays, Early
        <4> QED
          BY <1>1, <3>2, <4>1 DEF Stays
      <3> QED
        BY <3>1, <3>2
    <2>3. WrapsStay'
      BY <2>2 DEF WrapsStay, Stays, Early
    <2>4. h.at # "setting"
      BY DEF Early
    <2> QED
      BY <1>1, <2>1, <2>3, <2>4 DEF IInv, Wrapping
  <1> QED
    BY <1>1, <1>2, <1>4, <1>5

LEMMA ReadCounterSafe ==
  ASSUME IInv, NEW p \in Prompts, ReadCounter(p)
  PROVE  IInv'
  <1>0. /\ Types /\ handler \in [Prompts -> Handler] /\ handler[p] \in Handler
        /\ handler[p].at = "new" /\ counter \in Nat
        /\ UNCHANGED <<counter, channels, table, proposed, nodes>>
    BY DEF IInv, Types, ReadCounter, At
  <1>1. counter \in IDs /\ counter <= Cardinality(Counted)
    BY <1>0, IDsFacts, CountedFinite DEF IInv, Bounded
  <1>2. PICK h : h = [handler[p] EXCEPT !.at = "counting", !.read = counter]
    OBVIOUS
  <1>3. /\ h \in Handler /\ h.at = "counting" /\ h.read = counter
        /\ h.id = handler[p].id /\ h.node = handler[p].node
        /\ h.answer = handler[p].answer
    BY <1>0, <1>1, <1>2 DEF Handler, Places
  <1>4. handler' = [handler EXCEPT ![p] = h]
    BY <1>0, <1>2 DEF ReadCounter
  <1>5. /\ raced' \in SUBSET {"counter", "callback"}
        /\ "counter" \in raced => "counter" \in raced'
        /\ "callback" \in raced' <=> "callback" \in raced
        /\ "counter" \notin raced' =>
             \A q \in Prompts : handler[q].at \notin {"counting", "naming"}
    BY <1>0 DEF Types, ReadCounter, Race
  <1>6. /\ Types' /\ Tabled' /\ Wrapping'
        /\ handler'[p] = h /\ \A q \in Prompts \ {p} : handler'[q] = handler[q]
    BY <1>0, <1>3, <1>4, <1>5, EarlyFrame DEF Early
  <1>7. Bounded'
    <2>1. Counted' = Counted
      BY <1>0, <1>3, <1>6 DEF Counted
    <2> QED
      BY <1>0, <1>1, <1>3, <1>6, <2>1 DEF IInv, Bounded
  <1>8. Numbered'
    <2>1. ASSUME "counter" \notin raced' PROVE Alone'
      <3>1. Alone /\ \A q \in Prompts : handler[q].at \notin {"counting", "naming"}
        BY <1>5, <2>1 DEF IInv, Numbered
      <3>2. \A q \in Prompts : handler'[q].at \in {"counting", "naming"} => q = p
        BY <1>6, <3>1
      <3>3. \A q \in Prompts : handler'[q].id = handler[q].id
        BY <1>3, <1>6
      <3> QED
        BY <1>0, <1>3, <1>6, <3>1, <3>2, <3>3 DEF Alone
    <2> QED
      BY <1>0, <1>3, <1>6, <2>1 DEF IInv, Numbered, Busy, Early
  <1> QED
    BY <1>6, <1>7, <1>8 DEF IInv

LEMMA WriteCounterSafe ==
  ASSUME IInv, NEW p \in Prompts, WriteCounter(p)
  PROVE  IInv'
  <1>0. /\ Types /\ handler \in [Prompts -> Handler] /\ handler[p] \in Handler
        /\ handler[p].at = "counting" /\ counter \in Nat
        /\ UNCHANGED <<channels, table, proposed, nodes, raced>>
        /\ handler[p].read \in Nat /\ handler[p].read <= Cardinality(Counted)
        /\ counter' = handler[p].read + 1
    BY DEF IInv, Types, Bounded, WriteCounter, At, Incremented
  <1>2. PICK h : h = [handler[p] EXCEPT !.at = "naming"]
    OBVIOUS
  <1>3. /\ h \in Handler /\ h.at = "naming"
        /\ h.id = handler[p].id /\ h.node = handler[p].node
        /\ h.answer = handler[p].answer
    BY <1>0, <1>2 DEF Handler, Places
  <1>4. handler' = [handler EXCEPT ![p] = h]
    BY <1>0, <1>2 DEF WriteCounter, Go
  <1>5. raced' \in SUBSET {"counter", "callback"} /\ counter' \in Nat
    BY <1>0 DEF Types
  <1>6. /\ Types' /\ Tabled' /\ Wrapping'
        /\ handler'[p] = h /\ \A q \in Prompts \ {p} : handler'[q] = handler[q]
    BY <1>0, <1>3, <1>4, <1>5, EarlyFrame DEF Early
  <1>7. Bounded'
    <2>1. Counted' = Counted \cup {p} /\ p \notin Counted
      BY <1>0, <1>3, <1>6 DEF Counted
    <2>2. Cardinality(Counted') = Cardinality(Counted) + 1 /\ Cardinality(Counted) \in Nat
      BY <2>1, CountedFinite, FS_AddElement
    <2>3. \A q \in Prompts : handler'[q].at = "counting" =>
            handler'[q].read \in Nat /\ handler'[q].read <= Cardinality(Counted)
      BY <1>3, <1>6 DEF IInv, Bounded
    <2> QED
      BY <1>0, <2>2, <2>3 DEF Bounded
  <1>8. Numbered'
    <2>1. ASSUME "counter" \notin raced' PROVE Alone'
      <3>1. Alone
        BY <1>0, <2>1 DEF IInv, Numbered
      <3>2. \A q \in Prompts : handler'[q].at \in {"counting", "naming"} => q = p
        BY <1>0, <1>6, <3>1 DEF Alone
      <3>3. \A q \in Prompts : /\ handler'[q].id = handler[q].id
                               /\ handler'[q].id \in Nat /\ handler'[q].id < counter'
        <4>1. \A q \in Prompts : handler[q].id <= counter /\ handler[p].read = counter
          BY <1>0, <3>1 DEF Alone
        <4>2. \A q \in Prompts : handler[q].id \in Nat
          BY <1>0, IDsFacts DEF Handler
        <4> QED
          BY <1>0, <1>3, <1>6, <4>1, <4>2
      <3> QED
        BY <1>3, <1>5, <1>6, <3>1, <3>2, <3>3 DEF Alone
    <2> QED
      BY <1>0, <1>3, <1>6, <2>1 DEF IInv, Numbered, Busy, Early
  <1> QED
    BY <1>6, <1>7, <1>8 DEF IInv

LEMMA NameRequestSafe ==
  ASSUME IInv, NEW p \in Prompts, NameRequest(p)
  PROVE  IInv'
  <1>0. /\ Types /\ handler \in [Prompts -> Handler] /\ handler[p] \in Handler
        /\ handler[p].at = "naming" /\ counter \in Nat /\ counter # 0
        /\ UNCHANGED <<counter, channels, table, proposed, nodes, raced>>
    BY DEF IInv, Types, Numbered, NameRequest, At
  <1>1. counter \in IDs
    BY <1>0, IDsFacts, CountedFinite DEF IInv, Bounded
  <1>2. PICK h : h = [handler[p] EXCEPT !.at = "getting", !.id = counter]
    OBVIOUS
  <1>3. /\ h \in Handler /\ h.at = "getting" /\ h.id = counter
        /\ h.node = handler[p].node /\ h.answer = handler[p].answer
    BY <1>0, <1>1, <1>2 DEF Handler, Places
  <1>4. handler' = [handler EXCEPT ![p] = h]
    BY <1>0, <1>2 DEF NameRequest
  <1>5. raced' \in SUBSET {"counter", "callback"} /\ counter' \in Nat
    BY <1>0 DEF Types
  <1>6. /\ Types' /\ Tabled' /\ Wrapping'
        /\ handler'[p] = h /\ \A q \in Prompts \ {p} : handler'[q] = handler[q]
    BY <1>0, <1>3, <1>4, <1>5, EarlyFrame DEF Early
  <1>7. Bounded'
    <2>1. Counted' = Counted
      BY <1>0, <1>3, <1>6 DEF Counted
    <2> QED
      BY <1>0, <1>3, <1>6, <2>1 DEF IInv, Bounded
  <1>8. Numbered'
    <2>1. ASSUME "counter" \notin raced' PROVE Alone'
      <3>1. Alone
        BY <1>0, <2>1 DEF IInv, Numbered
      <3>2. \A q \in Prompts : handler'[q].at \notin {"counting", "naming"}
        BY <1>0, <1>3, <1>6, <3>1 DEF Alone
      <3>3. \A q \in Prompts \ {p} : handler'[q].id \in Nat /\ handler'[q].id < counter
        BY <1>0, <1>6, <3>1, IDsFacts DEF Alone, Handler
      <3> QED
        BY <1>0, <1>3, <1>6, <3>1, <3>2, <3>3 DEF Alone
    <2> QED
      BY <1>0, <1>3, <1>6, <2>1 DEF IInv, Numbered
  <1> QED
    BY <1>6, <1>7, <1>8 DEF IInv

-----------------------------------------------------------------------------
(* Steps of collectors, receivers and engines. *)

\* They leave the handlers, the counter and the callbacks alone.
LEMMA OtherFrame ==
  ASSUME IInv, UNCHANGED <<handler, counter, callback, raced, config>>
  PROVE  Bounded' /\ Numbered' /\ Wrapping'
  <1>1. Counted' = Counted
    BY DEF Counted
  <1>2. Bounded'
    BY <1>1 DEF IInv, Bounded
  <1>3. Numbered'
    BY DEF IInv, Numbered, Alone
  <1>4. Wrapping'
    BY DEF IInv, Wrapping, WrapsStay
  <1> QED
    BY <1>2, <1>3, <1>4

LEMMA TableFrame ==
  ASSUME IInv, UNCHANGED <<handler, table, raced>>,
         \A n \in Nodes : engine'[n].at = "storing" => engine'[n] = engine[n]
  PROVE  Tabled'
  BY DEF IInv, Tabled, table

LEMMA CollectorSafe ==
  ASSUME IInv, NEW p \in Prompts, Collector(p)
  PROVE  IInv'
  <1>0. /\ Types /\ chan \in [Prompts -> 0..ChanCap] /\ ChanCap \in Nat
        /\ collector \in [Prompts -> {"none", "reading", "done"}]
    BY ServerAssumption DEF IInv, Types
  <1>1. UNCHANGED <<handler, counter, callback, raced, config, table, engine, receiver,
                    proposed>>
    BY DEF Collector, Collect, TimeOut, nodes
  <1>2. chan' \in [Prompts -> 0..ChanCap]
        /\ collector' \in [Prompts -> {"none", "reading", "done"}]
    BY <1>0 DEF Collector, Collect, TimeOut
  <1>3. Types'
    BY <1>0, <1>1, <1>2 DEF Types, table
  <1> QED
    BY <1>1, <1>3, OtherFrame, TableFrame DEF IInv

LEMMA ReceiveSafe ==
  ASSUME IInv, NEW n \in Nodes, NEW p \in Prompts, Receive(n, p)
  PROVE  IInv'
  <1>0. /\ Types /\ callback \in [Nodes -> Seq(Prompts)]
        /\ receiver \in [Nodes -> Receiver]
    BY DEF IInv, Types
  <1>1. UNCHANGED <<handler, counter, callback, raced, config, table, engine, chan,
                    collector, proposed>>
    BY DEF Receive, channels
  <1>2. PICK r : r = [at |-> "calling", prompt |-> p, rest |-> callback[n]]
    OBVIOUS
  <1>3. r \in Receiver
    BY <1>0, <1>2 DEF Receiver
  <1>4. receiver' \in [Nodes -> Receiver]
    BY <1>0, <1>2, <1>3 DEF Receive, Step
  <1>5. Types'
    BY <1>0, <1>1, <1>4 DEF Types, table
  <1> QED
    BY <1>1, <1>5, OtherFrame, TableFrame DEF IInv

LEMMA CallBackSafe ==
  ASSUME IInv, NEW n \in Nodes, CallBack(n)
  PROVE  IInv'
  <1>0. /\ Types /\ chan \in [Prompts -> 0..ChanCap] /\ ChanCap \in Nat
        /\ receiver \in [Nodes -> Receiver] /\ receiver[n] \in Receiver
        /\ receiver[n].rest \in Seq(Prompts)
    BY ServerAssumption DEF IInv, Types, Receiver
  <1>1. UNCHANGED <<handler, counter, callback, raced, config, table, engine,
                    collector, proposed>>
    BY DEF CallBack
  <1>2. /\ chan' \in [Prompts -> 0..ChanCap]
        /\ receiver' \in [Nodes -> Receiver]
    <2>1. CASE receiver[n].rest = <<>>
      <3>1. PICK r : r = [receiver[n] EXCEPT !.at = "processing"]
        OBVIOUS
      <3>2. r \in Receiver
        BY <1>0, <3>1 DEF Receiver
      <3>3. receiver' = [receiver EXCEPT ![n] = r] /\ chan' = chan
        BY <2>1, <3>1 DEF CallBack, Step
      <3> QED
        BY <1>0, <3>2, <3>3
    <2>2. CASE receiver[n].rest # <<>>
      <3>1. PICK q \in Prompts : q = Head(receiver[n].rest)
        BY <1>0, <2>2
      <3>2. Tail(receiver[n].rest) \in Seq(Prompts)
        BY <1>0, <2>2
      <3>3. PICK r : r = [receiver[n] EXCEPT !.rest = Tail(@)]
        OBVIOUS
      <3>4. r \in Receiver
        BY <1>0, <3>2, <3>3 DEF Receiver
      <3>5. receiver' = [receiver EXCEPT ![n] = r]
        BY <2>2, <3>3 DEF CallBack, Step
      <3>6. chan' = [chan EXCEPT ![q] = chan[q] + 1] /\ chan[q] < ChanCap
        BY <1>0, <2>2, <3>1 DEF CallBack, HasRoom
      <3> QED
        BY <1>0, <3>4, <3>5, <3>6
    <2> QED
      BY <2>1, <2>2
  <1>3. Types'
    BY <1>0, <1>1, <1>2 DEF Types, table
  <1> QED
    BY <1>1, <1>3, OtherFrame, TableFrame DEF IInv

LEMMA ProcessSafe ==
  ASSUME IInv, NEW n \in Nodes, Process(n)
  PROVE  IInv'
  <1>0. /\ Types /\ receiver \in [Nodes -> Receiver]
        /\ entry \in [IDs -> Prompts \cup {Heard, None}]
        /\ handler \in [Prompts -> Handler]
    BY DEF IInv, Types
  <1>1. UNCHANGED <<handler, counter, callback, raced, config, cid, engine, chan,
                    collector, proposed>>
    BY DEF Process, channels
  <1>2. receiver' \in [Nodes -> Receiver]
    <2>1. <<>> \in Seq(Prompts)
      OBVIOUS
    <2>2. Idle \in Receiver
      BY <2>1 DEF Idle, Receiver
    <2> QED
      BY <1>0, <2>2 DEF Process, Step
  <1>3. /\ entry' \in [IDs -> Prompts \cup {Heard, None}]
        /\ \A i \in IDs : entry[i] \in Prompts => entry'[i] = entry[i]
        /\ \A i \in IDs : entry'[i] \in Prompts => entry'[i] = entry[i]
    <2>1. PICK j : \/ entry' = entry
                   \/ entry[j] = None /\ entry' = [entry EXCEPT ![j] = Heard]
      BY DEF Process, Known
    <2>2. None \notin Prompts /\ Heard \notin Prompts
      BY ServerAssumption
    <2> QED
      BY <1>0, <2>1, <2>2
  <1>4. Types'
    BY <1>0, <1>1, <1>2, <1>3 DEF Types
  <1>5. Tabled'
    <2>1. \A q \in Prompts : handler[q].id \in IDs
      BY <1>0 DEF Handler
    <2>2. \A i \in IDs : entry'[i] \in Prompts => Made(handler', entry'[i], i)
      BY <1>1, <1>3 DEF IInv, Tabled
    <2>3. "counter" \notin raced' =>
            \A q \in Prompts : cid'[q] # "none" => entry'[handler'[q].id] = q
      <3> SUFFICES ASSUME "counter" \notin raced, NEW q \in Prompts, cid[q] # "none"
                   PROVE  entry'[handler[q].id] = q
        BY <1>1
      <3>1. entry[handler[q].id] = q
        BY DEF IInv, Tabled
      <3> QED
        BY <1>3, <2>1, <3>1
    <2> QED
      BY <1>1, <2>2, <2>3 DEF IInv, Tabled
  <1> QED
    BY <1>1, <1>4, <1>5, OtherFrame DEF IInv

LEMMA HandleSafe ==
  ASSUME IInv, NEW n \in Nodes, NEW p \in Prompts, Handle(n, p)
  PROVE  IInv'
  <1>0. Types /\ engine \in [Nodes -> Run]
    BY DEF IInv, Types
  <1>1. UNCHANGED <<handler, counter, callback, raced, config, table, receiver, chan,
                    collector, proposed>>
    BY DEF Handle, channels
  <1>2. PICK r : r = [at |-> "delivering", prompt |-> p]
    OBVIOUS
  <1>3. engine' = engine \/ engine' = [engine EXCEPT ![n] = r]
    BY <1>2 DEF Handle
  <1>4. /\ engine' \in [Nodes -> Run]
        /\ \A m \in Nodes : engine'[m] = engine[m] \/ engine'[m] = r
        /\ r.at = "delivering" /\ r.prompt \in Prompts
    BY <1>0, <1>2, <1>3 DEF Run
  <1>5. Types'
    BY <1>0, <1>1, <1>4 DEF Types, table
  <1> QED
    BY <1>1, <1>4, <1>5, OtherFrame, TableFrame DEF IInv

LEMMA DeliverSafe ==
  ASSUME IInv, NEW n \in Nodes, Deliver(n)
  PROVE  IInv'
  <1>0. /\ Types /\ engine \in [Nodes -> Run] /\ handler \in [Prompts -> Handler]
        /\ cid \in [Prompts -> {"none", "half", "stored"}]
        /\ engine[n].at = "delivering" /\ engine[n].prompt \in Prompts
    BY DEF IInv, Types, Deliver
  <1>1. UNCHANGED <<handler, counter, callback, raced, config, entry, receiver, chan,
                    collector, proposed>>
    BY DEF Deliver, channels
  <1>2. PICK i \in IDs : i = handler[engine[n].prompt].id
    BY <1>0 DEF Handler
  <1>3. CASE Unlock(n) /\ UNCHANGED cid
    <2>1. PICK r : r = [at |-> "idle", prompt |-> None]
      OBVIOUS
    <2>2. /\ engine' \in [Nodes -> Run]
          /\ \A m \in Nodes : engine'[m] = engine[m] \/ engine'[m] = r
          /\ r.at = "idle"
      BY <1>0, <1>3, <2>1 DEF Unlock, Run
    <2>3. Types'
      BY <1>0, <1>1, <1>3, <2>2 DEF Types
    <2> QED
      BY <1>1, <1>3, <2>2, <2>3, OtherFrame, TableFrame DEF IInv, table
  <1>4. CASE /\ entry[i] \in Prompts
             /\ engine' = [engine EXCEPT ![n] = [at |-> "storing", prompt |-> entry[i]]]
             /\ cid' = IF cid[entry[i]] = "none"
                         THEN [cid EXCEPT ![entry[i]] = "half"] ELSE cid
    <2>1. PICK e \in Prompts : e = entry[i]
      BY <1>4
    <2>2. PICK r : r = [at |-> "storing", prompt |-> e]
      OBVIOUS
    <2>3. /\ engine' \in [Nodes -> Run]
          /\ \A m \in Nodes : engine'[m] = engine[m] \/ engine'[m] = r
          /\ r.at = "storing" /\ r.prompt = e
      BY <1>0, <1>4, <2>1, <2>2 DEF Run
    <2>4. /\ cid' \in [Prompts -> {"none", "half", "stored"}] /\ cid'[e] # "none"
          /\ \A q \in Prompts \ {e} : cid'[q] = cid[q]
          /\ \A q \in Prompts : cid[q] # "none" => cid'[q] # "none"
      BY <1>0, <1>4, <2>1
    <2>5. Types'
      BY <1>0, <1>1, <2>3, <2>4 DEF Types
    <2>6. \A m \in Nodes : engine'[m].at = "storing" => cid'[engine'[m].prompt] # "none"
      <3> TAKE m \in Nodes
      <3>1. engine[m].at = "storing" => engine[m].prompt \in Prompts
        BY <1>0 DEF Types
      <3>2. engine[m].at = "storing" => cid[engine[m].prompt] # "none"
        BY DEF IInv, Tabled
      <3> QED
        BY <2>3, <2>4, <3>1, <3>2
    <2>7. entry[handler[e].id] = e
      BY <1>2, <2>1 DEF IInv, Tabled, Made
    <2>8. Tabled'
      BY <1>1, <2>4, <2>6, <2>7 DEF IInv, Tabled
    <2> QED
      BY <1>1, <2>5, <2>8, OtherFrame DEF IInv
  <1> QED
    BY <1>2, <1>3, <1>4 DEF Deliver

LEMMA StoreSafe ==
  ASSUME IInv, NEW n \in Nodes, Store(n)
  PROVE  IInv'
  <1>0. /\ Types /\ engine \in [Nodes -> Run]
        /\ cid \in [Prompts -> {"none", "half", "stored"}]
        /\ engine[n].at = "storing"
    BY DEF IInv, Types, Store
  <1>1. UNCHANGED <<handler, counter, callback, raced, config, entry, receiver, chan,
                    collector, proposed>>
    BY DEF Store, channels
  <1>2. PICK e \in Prompts : e = engine[n].prompt /\ cid[e] # "none"
    BY <1>0 DEF IInv, Types, Tabled
  <1>3. PICK r : r = [at |-> "idle", prompt |-> None]
    OBVIOUS
  <1>4. /\ engine' \in [Nodes -> Run]
        /\ \A m \in Nodes : engine'[m] = engine[m] \/ engine'[m] = r
        /\ r.at = "idle"
    BY <1>0, <1>3 DEF Store, Unlock, Run
  <1>5. /\ cid' \in [Prompts -> {"none", "half", "stored"}]
        /\ \A q \in Prompts : cid'[q] # "none" <=> cid[q] # "none"
    BY <1>0, <1>2 DEF Store
  <1>6. Types'
    BY <1>0, <1>1, <1>4, <1>5 DEF Types
  <1>7. Tabled'
    <2>1. \A m \in Nodes : engine'[m].at = "storing" => cid'[engine'[m].prompt] # "none"
      <3> TAKE m \in Nodes
      <3>1. engine[m].at = "storing" => engine[m].prompt \in Prompts
        BY <1>0 DEF Types
      <3>2. engine[m].at = "storing" => cid[engine[m].prompt] # "none"
        BY DEF IInv, Tabled
      <3> QED
        BY <1>4, <1>5, <3>1, <3>2
    <2> QED
      BY <1>1, <1>5, <2>1 DEF IInv, Tabled
  <1> QED
    BY <1>1, <1>6, <1>7, OtherFrame DEF IInv

-----------------------------------------------------------------------------
(* The invariant. *)

LEMMA InitSafe ==
  ASSUME Init
  PROVE  IInv
  <1>0. /\ N \in Nat /\ 1 \in Nodes /\ 0 \in IDs /\ <<>> \in Seq(Prompts)
        /\ None \notin Prompts /\ "none" \notin Prompts
        /\ config \in Configs /\ 1 <= config.nodes /\ ChanCap \in Nat
    BY ServerAssumption, IDsFacts DEF Init, Nodes, Answers
  <1>1. PICK h : h = [at |-> "new", node |-> 1, read |-> 0, orig |-> <<>>, id |-> 0,
                      answer |-> "none"]
    OBVIOUS
  <1>2. h \in Handler
    BY <1>0, <1>1 DEF Handler, Places, Answers
  <1>3. handler = [p \in Prompts |-> h]
    BY <1>1 DEF Init
  <1>4. /\ handler \in [Prompts -> Handler]
        /\ \A p \in Prompts : /\ handler[p].at = "new" /\ handler[p].node = 1
                              /\ handler[p].id = 0 /\ handler[p].answer = "none"
    BY <1>1, <1>2, <1>3
  <1>5. Types
    <2>1. receiver \in [Nodes -> Receiver]
      BY <1>0 DEF Init, Idle, Receiver
    <2>2. engine \in [Nodes -> Run] /\ \A n \in Nodes : engine[n].at = "idle"
      BY DEF Init, Run
    <2>3. /\ \A p \in Prompts : handler[p].node <= config.nodes
          /\ callback \in [Nodes -> Seq(Prompts)]
          /\ entry \in [IDs -> Prompts \cup {Heard, None}]
      BY <1>0, <1>4 DEF Init
    <2>4. /\ counter \in Nat
          /\ chan \in [Prompts -> 0..ChanCap]
          /\ collector \in [Prompts -> {"none", "reading", "done"}]
          /\ cid \in [Prompts -> {"none", "half", "stored"}]
          /\ proposed \subseteq Prompts
          /\ raced \subseteq {"counter", "callback"}
      BY <1>0 DEF Init
    <2> QED
      BY <1>0, <1>4, <2>1, <2>2, <2>3, <2>4 DEF Types
  <1>6. Bounded
    BY <1>4, CountedFinite DEF Bounded, Init
  <1>7. Numbered
    BY <1>4 DEF Numbered, Alone, Busy, Early, Init
  <1>8. Tabled
    BY <1>0, <1>4 DEF Tabled, Init
  <1>9. Wrapping
    BY <1>4 DEF Wrapping, WrapsStay, Early
  <1> QED
    BY <1>5, <1>6, <1>7, <1>8, <1>9 DEF IInv

LEMMA StutterSafe ==
  ASSUME IInv, UNCHANGED vars
  PROVE  IInv'
  <1>1. UNCHANGED <<handler, counter, callback, chan, collector, entry, cid, proposed,
                    receiver, engine, config, raced>>
    BY DEF vars, channels, table, nodes
  <1>2. Types'
    BY <1>1 DEF IInv, Types
  <1> QED
    BY <1>1, <1>2, OtherFrame, TableFrame DEF IInv, table

LEMMA StepSafe ==
  ASSUME IInv, Next
  PROVE  IInv'
  <1>1. ASSUME NEW p \in Prompts, Late(p) PROVE IInv'
    BY <1>1, LateTypes, LateNumbers, LateTable, LateWraps DEF IInv
  <1>2. ASSUME NEW p \in Prompts, HandlePrompt(p) PROVE IInv'
    BY <1>1, <1>2, WriteCounterSafe, NameRequestSafe DEF HandlePrompt, Late
  <1>3. ASSUME NEW n \in Nodes, HandleMessages(n) \/ Engine(n) PROVE IInv'
    BY <1>3, CallBackSafe, ProcessSafe, HandleSafe, DeliverSafe, StoreSafe
       DEF HandleMessages, Engine
  <1> QED
    BY <1>2, <1>3, RefuseSafe, ReadCounterSafe, CollectorSafe, ReceiveSafe DEF Next

\* main.go:181-509: what the handlers, the collectors, the receivers and the
\* engines keep together, in any interleaving and for any number of them.
THEOREM Invariance == Spec => []IInv
  <1>1. IInv /\ [Next]_vars => IInv'
    BY StepSafe, StutterSafe
  <1> QED
    BY <1>1, InitSafe, PTL DEF Spec

\* The types and the bounds of the variables; the counter never runs past the
\* number of requests, though its increments may be lost.
THEOREM TypeCorrect == Spec => []TypeOK
  <1>1. IInv => TypeOK
    <2> SUFFICES ASSUME IInv PROVE TypeOK
      OBVIOUS
    <2>1. counter \in IDs
      BY IDsFacts, CountedFinite DEF IInv, Types, Bounded
    <2>2. \A n \in Nodes : receiver[n] \in Receiver /\ engine[n] \in Run
      BY DEF IInv, Types
    <2> QED
      BY <2>1, <2>2 DEF IInv, Types, TypeOK, Handler, Places, Receiver, Run
  <1> QED
    BY <1>1, Invariance, PTL

\* main.go:193-194 and 495-500: unless two handlers were at the counter at
\* once, a client gets the CID of its own prompt's record and of no other's.
THEOREM OwnAnswers == Spec => []OwnAnswer
  <1>1. IInv => OwnAnswer
    <2> SUFFICES ASSUME IInv, "counter" \notin raced,
                        NEW p \in Prompts, handler[p].answer \in Prompts
                 PROVE  handler[p].answer = p
      BY DEF OwnAnswer
    <2>1. Made(handler, handler[p].answer, handler[p].id)
      BY DEF IInv, Tabled
    <2> QED
      BY <2>1 DEF IInv, Numbered, Alone, Made
  <1> QED
    BY <1>1, Invariance, PTL

\* main.go:374 and 497: under the same proviso, a record that was stored is
\* in the entry its handler looks at.
THEOREM StoredAreFound == Spec => []StoredIsFound
  <1>1. IInv => StoredIsFound
    BY DEF IInv, Tabled, StoredIsFound
  <1> QED
    BY <1>1, Invariance, PTL

\* main.go:207-222: unless two handlers wrapped one callback at once, a
\* handler that wrapped a node's callback is still fed by it.
THEOREM WrapsStaying == Spec => []WrapsStay
  <1>1. IInv => WrapsStay
    BY DEF IInv, Wrapping
  <1> QED
    BY <1>1, Invariance, PTL
=============================================================================
