---------------------------- MODULE Routing_proofs -----------------------------
(***************************************************************************)
(* What holds of routing on every network, however many packets, requests, *)
(* losses and restarts there are.                                          *)
(***************************************************************************)
EXTENDS Routing, FiniteSetTheorems, SequenceTheorems, TLAPS

(* Paths. *)

\* A path ends where its last node is; every beginning of a path is one.
LEMMA PathExtend ==
  ASSUME NEW s \in Seq(Node), s # <<>>, NEW m \in Node
  PROVE  Path(s \o <<m>>) <=> Path(s) /\ <<s[Len(s)], m>> \in Link
<1>1. <<m>> \in Seq(Node) /\ Len(<<m>>) = 1 /\ <<m>>[1] = m
  OBVIOUS
<1>2. Len(s) \in Nat /\ Len(s) >= 1
  BY EmptySeq, LenProperties
<1>3. Len(s \o <<m>>) = Len(s) + 1
  BY <1>1, ConcatProperties
<1>4. \A i \in 1 .. Len(s) : (s \o <<m>>)[i] = s[i]
  BY <1>1, <1>2, ConcatProperties
<1>5. (s \o <<m>>)[Len(s) + 1] = m
  BY <1>1, <1>2, ConcatProperties
<1> DEFINE t == s \o <<m>>
           n == Len(s)
<1>6. Path(t) <=> \A i \in 1 .. n : <<t[i], t[i + 1]>> \in Link
  BY <1>2, <1>3 DEF Path
<1>7. /\ \A i \in 1 .. n - 1 : t[i] = s[i] /\ t[i + 1] = s[i + 1]
      /\ t[n] = s[n] /\ t[n + 1] = m
  BY <1>2, <1>4, <1>5
<1>8. Path(s) <=> \A i \in 1 .. n - 1 : <<s[i], s[i + 1]>> \in Link
  BY DEF Path
<1> HIDE DEF t, n
<1>9. n \in Nat /\ n >= 1
  BY <1>2 DEF n
<1>10. (\A i \in 1 .. n : <<t[i], t[i + 1]>> \in Link)
         <=> (\A i \in 1 .. n - 1 : <<s[i], s[i + 1]>> \in Link) /\ <<s[n], m>> \in Link
  BY <1>7, <1>9
<1> QED
  BY <1>6, <1>8, <1>10, Zenon DEF t, n

\* The list behind the originator, and its last node.
LEMMA Listed ==
  ASSUME NEW d \in Node, NEW l \in Seq(Node)
  PROVE  /\ <<d>> \o l \in Seq(Node) /\ <<d>> \o l # <<>>
         /\ Len(<<d>> \o l) = Len(l) + 1
         /\ (<<d>> \o l)[Len(l) + 1] = IF l = <<>> THEN d ELSE l[Len(l)]
         /\ (<<d>> \o l)[Len(l) + 1] \in Node
<1>1. <<d>> \in Seq(Node) /\ Len(<<d>>) = 1 /\ <<d>>[1] = d
  OBVIOUS
<1>2. <<d>> \o l \in Seq(Node) /\ Len(<<d>> \o l) = Len(l) + 1 /\ Len(l) \in Nat
  BY <1>1, ConcatProperties, LenProperties
<1>3. <<d>> \o l # <<>>
  BY <1>2, EmptySeq
<1>4. CASE l = <<>>
  <2>1. Len(l) = 0
    BY <1>4, EmptySeq
  <2>2. (<<d>> \o l)[1] = d
    BY <1>1, <1>2, <2>1, ConcatProperties
  <2> QED
    BY <1>2, <1>3, <1>4, <2>1, <2>2
<1>5. CASE l # <<>>
  <2>1. Len(l) >= 1
    BY <1>5, EmptySeq
  <2>2. (<<d>> \o l)[Len(l) + 1] = l[Len(l)]
    BY <1>1, <1>2, <2>1, ConcatProperties
  <2>3. l[Len(l)] \in Node
    BY <1>2, <2>1, ElementOfSeq
  <2> QED
    BY <1>2, <1>3, <1>5, <2>2, <2>3
<1> QED
  BY <1>4, <1>5

LEMMA PathAlone == ASSUME NEW d \in Node PROVE Path(<<d>> \o <<>>)
<1>1. Len(<<d>> \o <<>>) = 1
  BY Listed, EmptySeq
<1> QED
  BY <1>1 DEF Path

LEMMA ListGrows ==
  ASSUME NEW d \in Node, NEW l \in Seq(Node), NEW m \in Node
  PROVE  /\ Append(l, m) \in Seq(Node) /\ Len(Append(l, m)) = Len(l) + 1
         /\ <<d>> \o Append(l, m) = (<<d>> \o l) \o <<m>>
<1>1. <<d>> \in Seq(Node) /\ <<m>> \in Seq(Node)
  OBVIOUS
<1>2. Append(l, m) = l \o <<m>>
  BY AppendIsConcat
<1> QED
  BY <1>1, <1>2, ConcatAssociative, AppendProperties

\* The list without its last node.
ButLast(l) == SubSeq(l, 1, Len(l) - 1)

LEMMA ListShrinks ==
  ASSUME NEW l \in Seq(Node)
  PROVE  /\ ButLast(l) \in Seq(Node)
         /\ l = <<>> => ButLast(l) = <<>>
         /\ l # <<>> => /\ Len(ButLast(l)) = Len(l) - 1
                        /\ l[Len(l)] \in Node
                        /\ l = Append(ButLast(l), l[Len(l)])
                        /\ Len(l) >= 2 => ButLast(l)[Len(l) - 1] = l[Len(l) - 1]
<1>1. Len(l) \in Nat
  BY LenProperties
<1>2. CASE l = <<>>
  <2>1. Len(l) = 0
    BY <1>2, EmptySeq
  <2> QED
    BY <1>2, <2>1, SubSeqEmpty, EmptySeq DEF ButLast
<1>3. CASE l # <<>>
  <2>1. Len(l) >= 1
    BY <1>1, <1>3, EmptySeq
  <2>2. PICK s \in Seq(Node), e \in Node : l = Append(s, e)
    BY <1>3, SequenceEmptyOrAppend
  <2>3. Len(l) = Len(s) + 1 /\ l[Len(l)] = e /\ Len(s) \in Nat
    BY <2>2, AppendProperties, LenProperties
  <2>4. ButLast(l) = s
    <3>1. l = s \o <<e>> /\ <<e>> \in Seq(Node)
      BY <2>2, AppendIsConcat
    <3>2. CASE s = <<>>
      BY <2>3, <3>2, SubSeqEmpty, EmptySeq DEF ButLast
    <3>3. CASE s # <<>>
      <4>1. 1 \in 1 .. Len(s) /\ Len(s) \in 1 .. Len(s)
        BY <2>3, <3>3, EmptySeq
      <4>2. SubSeq(s \o <<e>>, 1, Len(s)) = SubSeq(s, 1, Len(s))
        BY <3>1, <4>1, SubSeqOfConcat1, Zenon
      <4>3. Len(l) - 1 = Len(s)
        BY <2>3
      <4> QED
        BY <3>1, <4>2, <4>3, SubSeqFull, Zenon DEF ButLast
    <3> QED
      BY <3>2, <3>3
  <2>5. Len(l) >= 2 => s[Len(l) - 1] = l[Len(l) - 1]
    BY <2>2, <2>3, AppendProperties
  <2> QED
    BY <1>3, <2>2, <2>3, <2>4, <2>5
<1> QED
  BY <1>2, <1>3
-----------------------------------------------------------------------------
(* The invariant. *)

\* Packets when k of them have been queued: content is one of them, and the id of
\* a request is one that can be drawn.
Carried(k) == {p \in Packet :
                 /\ p.type = "CONTENT" => <<p.source, p.dest>> \in Traffic /\ p.id \in 1 .. k
                 /\ p.type = "RRQ" => p.id \in RrqId}
Content(k)    == {p \in Carried(k) : p.type = "CONTENT"}
ContentFor(k, n) == {p \in Content(k) : p.dest = n}

\* A request that m holds, sent by l, and a reply that m holds.
Tracks(p, l, m) == /\ p.hopcount = Len(p.nodes)
                   /\ Path(<<p.source>> \o p.nodes \o <<m>>)
                   /\ l = (<<p.source>> \o p.nodes)[Len(p.nodes) + 1]
Stacked(p, m) == /\ p.hopcount = Len(p.nodes)
                 /\ IF p.nodes = <<>> THEN p.dest = m ELSE p.nodes[Len(p.nodes)] = m
                 /\ Path(<<p.dest>> \o p.nodes)

\* The frames that m can hold.
Sound(k, m) == {q \in Frame : /\ <<q.sender, m>> \in Link
                              /\ q.packet \in Carried(k)
                              /\ q.packet.type = "RRQ" => Tracks(q.packet, q.sender, m)
                              /\ q.packet.type = "RUP" => Stacked(q.packet, m)}

\* The calls of forward that n can make: its next hop may hold the frame.
Call == [entry : Address, nextHop : Address, packet : Packet \cup {NoPacket},
         retries : 0 .. MAX_ACK_FAILURES, back : {"main", "receive"}, failTo : Address]
Callable(k, n) ==
  {c \in Call : /\ c.packet \in Carried(k)
                /\ c.retries < MAX_ACK_FAILURES
                /\ c.nextHop \in Neighbours(n) =>
                     [sender |-> n, target |-> c.nextHop, packet |-> c.packet] \in Sound(k, c.nextHop)}

Idle    == {"main", "receive"}
Blocked == {"send", "wait"}

Entry == [nextHop : Address, failures : 0 .. MAX_ACK_FAILURES]

\* An entry has no failures or has used them up, but for the one forward is using,
\* which has as many as there were retries.
SettledEntry(e, d, x, c) == IF x \in Blocked /\ d = c.entry
                            THEN e.failures = c.retries
                            ELSE e.failures \in {0, MAX_ACK_FAILURES}

Tables   == /\ routingTable \in [Node -> [Node -> Entry]]
            /\ \A n, d \in Node : SettledEntry(routingTable[n][d], d, pc[n], fwd[n])
Requests == /\ rrqProgress \in [Node -> [dest : Address, active : BOOLEAN, resolved : BOOLEAN]]
            /\ recentRRQ \in [Node -> Seq(RrqId)]
Queues   == /\ sendFifo \in [Node -> Seq(Content(count.packets))]
            /\ receiveFifo \in [Node -> Seq(Packet)]
            /\ \A n \in Node : receiveFifo[n] \in Seq(ContentFor(count.packets, n))
            /\ delivered \in [Node -> SUBSET Packet]
            /\ \A n \in Node : delivered[n] \subseteq ContentFor(count.packets, n)
Air      == /\ RXFIFO \in [Node -> Seq(Frame)]
            /\ \A n \in Node : RXFIFO[n] \in Seq(Sound(count.packets, n))
            /\ ackFrom \in [Node -> Address]
Calls    == /\ pc \in [Node -> {"main", "receive", "send", "wait"}]
            /\ fwd \in [Node -> Call]
            /\ \A n \in Node : pc[n] \in Blocked => fwd[n] \in Callable(count.packets, n)
Counts   == count \in [packets : Nat, requests : Nat, lost : Nat, early : Nat, restarts : Nat]

IInv == Tables /\ Requests /\ Queues /\ Air /\ Calls /\ Counts

-----------------------------------------------------------------------------
(* The operators. *)

\* What is right of the packets queued so far is right of more.
LEMMA MoreQueued ==
  ASSUME NEW k \in Nat, NEW l \in Nat, k <= l, NEW n \in Node
  PROVE  /\ Carried(k) \subseteq Carried(l) /\ Content(k) \subseteq Content(l)
         /\ ContentFor(k, n) \subseteq ContentFor(l, n) /\ Sound(k, n) \subseteq Sound(l, n)
         /\ Callable(k, n) \subseteq Callable(l, n)
<1>1. Carried(k) \subseteq Carried(l)
  BY DEF Carried
<1>2. \A m : Sound(k, m) \subseteq Sound(l, m)
  BY <1>1 DEF Sound
<1> QED
  BY <1>1, <1>2 DEF Content, ContentFor, Callable

\* A fifo that is written holds what it held, and what was written.
LEMMA OverwriteInSeq ==
  ASSUME NEW T, NEW q \in Seq(T), NEW x \in T
  PROVE  Overwrite(q, x) \in Seq(T)
<1>1. Len(q) \in Nat /\ \A i \in 1 .. Len(q) : q[i] \in T
  BY LenProperties, ElementOfSeq
<1>2. FIFO_SLOTS \in Nat /\ FIFO_SLOTS > 0 /\ 0 % FIFO_SLOTS = 0
  BY BoundAssumption
<1>3. \A i \in 1 .. Len(q) + 1 :
        (IF (Len(q) + 1 - i) % FIFO_SLOTS = 0 THEN x ELSE q[i]) \in T
  <2> SUFFICES ASSUME NEW i \in 1 .. Len(q) + 1, (Len(q) + 1 - i) % FIFO_SLOTS # 0
               PROVE  q[i] \in T
    OBVIOUS
  <2>1. i # Len(q) + 1
    BY <1>1, <1>2
  <2> QED
    BY <1>1, <2>1
<1>4. Overwrite(q, x) \in [1 .. Len(q) + 1 -> T]
  BY <1>3, Zenon DEF Overwrite
<1>5. Len(q) + 1 \in Nat
  BY <1>1
<1>6. \A m \in Nat : [1 .. m -> T] \subseteq Seq(T)
  BY SeqDef
<1> QED
  BY <1>4, <1>5, <1>6, Zenon

LEMMA HeardIsSound ==
  ASSUME NEW k, NEW rx \in [Node -> Seq(Frame)], \A m \in Node : rx[m] \in Seq(Sound(k, m)),
         NEW r, NEW q \in Frame, \A m \in r : m \in Node => q \in Sound(k, m)
  PROVE  /\ Heard(rx, r, q) \in [Node -> Seq(Frame)]
         /\ \A m \in Node : Heard(rx, r, q)[m] \in Seq(Sound(k, m))
<1>1. \A m \in Node : rx[m] \in Seq(Frame) /\ (m \in r => Overwrite(rx[m], q) \in Seq(Frame))
  BY OverwriteInSeq
<1>2. \A m \in Node : m \in r => Overwrite(rx[m], q) \in Seq(Sound(k, m))
  BY OverwriteInSeq
<1> QED
  BY <1>1, <1>2, Zenon DEF Heard

LEMMA Received ==
  ASSUME IInv, NEW n \in Node, NEW type, Receiving(n, type)
  PROVE  /\ frame(n) \in Sound(count.packets, n) /\ frame(n) \in Frame
         /\ frame(n).packet.type = type
         /\ pc[n] \in Idle
         /\ Rest(n) \in [Node -> Seq(Frame)]
         /\ \A m \in Node : Rest(n)[m] \in Seq(Sound(count.packets, m))
<1>1. RXFIFO[n] # <<>> /\ pc[n] \in Idle /\ frame(n).packet.type = type
  BY DEF Receiving, Idle
<1>2. RXFIFO \in [Node -> Seq(Frame)] /\ \A m \in Node : RXFIFO[m] \in Seq(Sound(count.packets, m))
  BY DEF IInv, Air
<1>3. frame(n) \in Sound(count.packets, n) /\ Tail(RXFIFO[n]) \in Seq(Sound(count.packets, n))
  BY <1>1, <1>2, HeadTailProperties DEF frame
<1>4. Tail(RXFIFO[n]) \in Seq(Frame)
  BY <1>1, <1>2, HeadTailProperties
<1>5. frame(n) \in Frame
  BY <1>3 DEF Sound
<1> QED
  BY <1>1, <1>2, <1>3, <1>4, <1>5, Zenon DEF Rest

LEMMA AckSent ==
  ASSUME IInv, NEW n \in Node, frame(n).sender \in Node, SendAck(n)
  PROVE  ackFrom' \in [Node -> Address] /\ Counts' /\ count'.packets = count.packets
<1>1. ackFrom \in [Node -> Address] /\ n \in Address
  BY DEF IInv, Air, Address
<1>2. ackFrom' \in [Node -> Address]
  BY <1>1 DEF SendAck, senderNodeId, frame
<1>3. Counts' /\ count'.packets = count.packets
  BY DEF SendAck, Lose, IInv, Counts
<1> QED
  BY <1>2, <1>3

\* The rows of the table outside forward.
Row == [Node -> Entry]
SettledRow(t) == \A d \in Node : t[d].failures \in {0, MAX_ACK_FAILURES}

LEMMA RowIsSettled ==
  ASSUME IInv, NEW n \in Node, pc[n] \in Idle
  PROVE  routingTable[n] \in Row /\ SettledRow(routingTable[n])
BY DEF IInv, Tables, SettledEntry, Row, SettledRow, Idle, Blocked

LEMMA GetNextHop ==
  ASSUME NEW t \in Row, SettledRow(t), NEW d \in Node
  PROVE  /\ getNextHop(t, d) \in Row /\ SettledRow(getNextHop(t, d))
         /\ entryIsValid(t[d]) => /\ getNextHop(t, d) = t
                                  /\ t[d].failures = 0 /\ t[d].nextHop \in Node
<1>1. NoEntry \in Entry /\ NoEntry.failures = 0
  BY BoundAssumption DEF NoEntry, Entry, Address
<1>2. entryIsValid(t[d]) => t[d].failures = 0 /\ t[d].nextHop \in Node
  BY DEF entryIsValid, SettledRow, Row, Entry, Address
<1> QED
  BY <1>1, <1>2 DEF getNextHop, invalidateEntry, Row, SettledRow

-----------------------------------------------------------------------------
(* One node takes a step: what its place in the code, its calls and its tables *)
(* may become.                                                                *)

Alone(n) == \A m \in Node \ {n} : /\ pc'[m] = pc[m] /\ fwd'[m] = fwd[m]
                                  /\ routingTable'[m] = routingTable[m]

LEMMA TablesStep ==
  ASSUME IInv, NEW n \in Node, Alone(n), routingTable' \in [Node -> Row],
         \A d \in Node : SettledEntry(routingTable'[n][d], d, pc'[n], fwd'[n])
  PROVE  Tables'
<1>1. \A m, d \in Node : SettledEntry(routingTable'[m][d], d, pc'[m], fwd'[m])
  BY DEF IInv, Tables, Alone
<1> QED
  BY <1>1, Zenon DEF Tables, Row

LEMMA CallsStep ==
  ASSUME IInv, NEW n \in Node, Alone(n), count'.packets = count.packets,
         pc' \in [Node -> Idle \cup Blocked], fwd' \in [Node -> Call],
         pc'[n] \in Blocked => fwd'[n] \in Callable(count.packets, n)
  PROVE  Calls'
<1>1. \A m \in Node : pc'[m] \in Blocked => fwd'[m] \in Callable(count.packets, m)
  BY DEF IInv, Calls, Alone
<1>2. pc' \in [Node -> {"main", "receive", "send", "wait"}]
  BY DEF Idle, Blocked
<1> QED
  BY <1>1, <1>2 DEF Calls

LEMMA NoCallIsCall == NoCall \in Call
BY BoundAssumption DEF NoCall, Call, Address

\* Nothing is sent.
LEMMA StaysIdle ==
  ASSUME IInv, NEW n \in Node, NEW x \in Idle, pc' = [pc EXCEPT ![n] = x],
         fwd' = fwd \/ fwd' = [fwd EXCEPT ![n] = NoCall],
         NEW t \in Row, SettledRow(t), routingTable' = [routingTable EXCEPT ![n] = t],
         count'.packets = count.packets
  PROVE  Tables' /\ Calls'
<1>1. pc \in [Node -> Idle \cup Blocked] /\ fwd \in [Node -> Call] /\ routingTable \in [Node -> Row]
  BY DEF IInv, Calls, Tables, Idle, Blocked, Row
<1>2. Alone(n) /\ pc'[n] = x /\ routingTable'[n] = t
  BY <1>1 DEF Alone
<1>3. pc' \in [Node -> Idle \cup Blocked] /\ fwd' \in [Node -> Call] /\ routingTable' \in [Node -> Row]
  BY <1>1, NoCallIsCall
<1>4. x \notin Blocked
  BY DEF Idle, Blocked
<1> QED
  BY <1>2, <1>3, <1>4, TablesStep, CallsStep DEF SettledEntry, SettledRow

\* Forward is called, on an entry that has no failures or is not in the table.
LEMMA IsForwarded ==
  ASSUME IInv, NEW n \in Node, NEW e \in Address, NEW hop \in Address,
         NEW p \in Carried(count.packets), NEW back \in {"main", "receive"}, NEW f \in Address,
         Forward(n, e, hop, p, back, f),
         hop \in Neighbours(n) =>
           [sender |-> n, target |-> hop, packet |-> p] \in Sound(count.packets, hop),
         NEW t \in Row, SettledRow(t), e \in Node => t[e].failures = 0,
         routingTable' = [routingTable EXCEPT ![n] = t],
         count'.packets = count.packets
  PROVE  Tables' /\ Calls'
<1> DEFINE c == [entry |-> e, nextHop |-> hop, packet |-> p, retries |-> 0, back |-> back, failTo |-> f]
<1>1. pc \in [Node -> Idle \cup Blocked] /\ fwd \in [Node -> Call] /\ routingTable \in [Node -> Row]
  BY DEF IInv, Calls, Tables, Idle, Blocked, Row
<1>2. pc' = [pc EXCEPT ![n] = "send"] /\ fwd' = [fwd EXCEPT ![n] = c]
  BY DEF Forward
<1>3. c \in Call /\ c \in Callable(count.packets, n)
  BY BoundAssumption DEF Call, Callable, Carried
<1>4. c.entry = e /\ c.retries = 0
  OBVIOUS
<1> HIDE DEF c
<1>5. Alone(n) /\ pc'[n] = "send" /\ fwd'[n] = c /\ routingTable'[n] = t
  BY <1>1, <1>2 DEF Alone
<1>6. pc' \in [Node -> Idle \cup Blocked] /\ fwd' \in [Node -> Call] /\ routingTable' \in [Node -> Row]
  BY <1>1, <1>2, <1>3 DEF Blocked
<1>7. \A d \in Node : SettledEntry(t[d], d, "send", c)
  BY <1>4 DEF SettledEntry, SettledRow, Blocked
<1> QED
  BY <1>3, <1>5, <1>6, <1>7, TablesStep, CallsStep

LEMMA QueuesStay ==
  ASSUME IInv, UNCHANGED <<sendFifo, receiveFifo, delivered>>, count'.packets = count.packets
  PROVE  Queues'
BY DEF IInv, Queues

LEMMA AirStays ==
  ASSUME IInv, UNCHANGED RXFIFO, ackFrom' \in [Node -> Address], count'.packets = count.packets
  PROVE  Air'
BY DEF IInv, Air

LEMMA AirRest ==
  ASSUME IInv, NEW n \in Node, NEW type, Receiving(n, type), RXFIFO' = Rest(n),
         ackFrom' \in [Node -> Address], count'.packets = count.packets
  PROVE  Air'
BY Received DEF Air

LEMMA RequestsStay == ASSUME IInv, UNCHANGED <<rrqProgress, recentRRQ>> PROVE Requests'
BY DEF IInv, Requests

LEMMA ResumeIsIdle == ASSUME NEW n, NEW rx PROVE Resume(n, rx) \in Idle
BY DEF Resume, Idle

-----------------------------------------------------------------------------
(* handleReceived. *)

LEMMA LogKeepsType ==
  ASSUME NEW r \in Seq(RrqId), NEW id \in RrqId
  PROVE  logRecentRRQ(r, id) \in Seq(RrqId)
<1>1. CASE Len(r) < RECENT_RRQ_NUM
  BY <1>1, AppendProperties DEF logRecentRRQ
<1>2. CASE ~(Len(r) < RECENT_RRQ_NUM)
  <2>1. r # <<>>
    BY <1>2, EmptySeq, BoundAssumption
  <2>2. Tail(r) \in Seq(RrqId)
    BY <2>1, HeadTailProperties
  <2> QED
    BY <1>2, <2>2, AppendProperties DEF logRecentRRQ
<1> QED
  BY <1>1, <1>2

LEMMA RepeatedRRQStep == ASSUME IInv, NEW n \in Node, RepeatedRRQ(n) PROVE IInv'
<1>1. /\ Receiving(n, "RRQ") /\ RXFIFO' = Rest(n)
      /\ recentRRQ' = [recentRRQ EXCEPT ![n] = logRecentRRQ(@, frame(n).packet.id)]
      /\ pc' = [pc EXCEPT ![n] = Resume(n, RXFIFO'[n])]
      /\ UNCHANGED <<routingTable, rrqProgress, sendFifo, receiveFifo, ackFrom, fwd, delivered, count>>
  BY DEF RepeatedRRQ
<1>2. frame(n).packet.id \in RrqId /\ pc[n] \in Idle
  BY <1>1, Received DEF Sound, Carried
<1>3. Requests'
  <2>1. recentRRQ \in [Node -> Seq(RrqId)]
    BY DEF IInv, Requests
  <2>2. logRecentRRQ(recentRRQ[n], frame(n).packet.id) \in Seq(RrqId)
    BY <1>2, <2>1, LogKeepsType
  <2>3. recentRRQ' \in [Node -> Seq(RrqId)]
    BY <1>1, <2>1, <2>2
  <2> QED
    BY <1>1, <2>3 DEF IInv, Requests
<1>4. Air'
  <2>1. ackFrom' \in [Node -> Address]
    BY <1>1 DEF IInv, Air
  <2> QED
    BY <1>1, <2>1, AirRest
<1>5. Tables' /\ Calls'
  <2>1. routingTable' = [routingTable EXCEPT ![n] = routingTable[n]]
    BY <1>1 DEF IInv, Tables
  <2> QED
    BY <1>1, <1>2, <2>1, ResumeIsIdle, RowIsSettled, StaysIdle
<1>6. Queues' /\ Counts'
  BY <1>1, QueuesStay DEF IInv, Counts
<1> QED
  BY <1>3, <1>4, <1>5, <1>6 DEF IInv

\* The reply to a request that went along a path goes back along it.
LEMMA AnswerIsSound ==
  ASSUME NEW k, NEW n \in Node, NEW q \in Sound(k, n), q.packet.type = "RRQ", q.packet.dest = n,
         NEW p, p = [q.packet EXCEPT !.type = "RUP", !.source = q.packet.dest, !.dest = q.packet.source]
  PROVE  /\ p \in Carried(k)
         /\ [sender |-> n, target |-> q.sender, packet |-> p] \in Frame
         /\ Stacked(p, q.sender)
<1>1. q \in Frame /\ q.packet \in Packet /\ q.packet \in Carried(k) /\ q.sender \in Node
  BY DEF Sound, Frame
<1>2. /\ p \in Packet /\ p.type = "RUP" /\ p.source = n /\ p.dest = q.packet.source
      /\ p.nodes = q.packet.nodes /\ p.hopcount = q.packet.hopcount
  BY <1>1 DEF Packet
<1> DEFINE l == q.packet.nodes
           o == q.packet.source
<1>3. o \in Node /\ l \in Seq(Node)
  BY <1>1 DEF Packet
<1>4. /\ q.packet.hopcount = Len(l) /\ Path((<<o>> \o l) \o <<n>>)
      /\ q.sender = (<<o>> \o l)[Len(l) + 1]
  BY DEF Sound, Tracks
<1>5. Path(<<o>> \o l)
  BY <1>3, <1>4, Listed, PathExtend
<1>6. IF l = <<>> THEN o = q.sender ELSE l[Len(l)] = q.sender
  BY <1>3, <1>4, Listed
<1>7. Stacked(p, q.sender)
  BY <1>2, <1>4, <1>5, <1>6 DEF Stacked
<1>8. [sender |-> n, target |-> q.sender, packet |-> p] \in Frame
  BY <1>1, <1>2 DEF Frame
<1>9. p \in Carried(k)
  BY <1>1, <1>2 DEF Carried
<1> QED
  BY <1>7, <1>8, <1>9

LEMMA AnswerRRQStep == ASSUME IInv, NEW n \in Node, AnswerRRQ(n) PROVE IInv'
<1> DEFINE q == frame(n)
           p == [q.packet EXCEPT !.type = "RUP", !.source = q.packet.dest, !.dest = q.packet.source]
<1>1. /\ Receiving(n, "RRQ") /\ q.packet.dest = n /\ RXFIFO' = Rest(n)
      /\ UNCHANGED <<rrqProgress, recentRRQ, sendFifo, receiveFifo, ackFrom, delivered, count>>
  BY DEF AnswerRRQ
<1>2. /\ q \in Sound(count.packets, n) /\ q \in Frame /\ q.packet.type = "RRQ"
      /\ pc[n] \in Idle /\ q.sender \in Node /\ q.packet.source \in Node
  BY <1>1, Received DEF Frame, Packet
<1>3. /\ routingTable \in [Node -> Row] /\ routingTable[n] \in Row /\ SettledRow(routingTable[n])
  BY <1>2, RowIsSettled DEF IInv, Tables, Row
<1>4. Tables' /\ Calls'
  <2>1. CASE Ignored(q.packet)
    <3>1. pc' = [pc EXCEPT ![n] = Resume(n, RXFIFO'[n])] /\ UNCHANGED <<routingTable, fwd>>
      BY <2>1 DEF AnswerRRQ
    <3>2. routingTable' = [routingTable EXCEPT ![n] = routingTable[n]]
      BY <1>3, <3>1
    <3> QED
      BY <1>1, <1>2, <1>3, <3>1, <3>2, ResumeIsIdle, StaysIdle
  <2>2. CASE ~Ignored(q.packet)
    <3> DEFINE e == [nextHop |-> q.sender, failures |-> 0]
               t == [routingTable[n] EXCEPT ![q.packet.source] = e]
    <3>1. /\ routingTable' = [routingTable EXCEPT ![n][q.packet.source] = e]
          /\ Forward(n, NoNode, q.sender, p, "receive", NoNode)
      BY <2>2 DEF AnswerRRQ, senderNodeId, frame
    <3>2. routingTable' = [routingTable EXCEPT ![n] = t]
      BY <3>1
    <3>3. e \in Entry /\ e.failures = 0
      BY <1>2, BoundAssumption DEF Entry, Address
    <3> HIDE DEF e
    <3>4. t \in Row /\ SettledRow(t)
      BY <1>2, <1>3, <3>3 DEF Row, SettledRow
    <3> HIDE DEF t
    <3>5. /\ p \in Carried(count.packets)
          /\ [sender |-> n, target |-> q.sender, packet |-> p] \in Frame
          /\ Stacked(p, q.sender)
      BY <1>1, <1>2, AnswerIsSound
    <3>6. p.type = "RUP"
      BY <1>2 DEF Frame, Packet
    <3> HIDE DEF p
    <3>7. q.sender \in Neighbours(n) =>
            [sender |-> n, target |-> q.sender, packet |-> p] \in Sound(count.packets, q.sender)
      BY <3>5, <3>6 DEF Sound, Neighbours
    <3>8. NoNode \in Address /\ q.sender \in Address /\ NoNode \notin Node
      BY <1>2, AddressAssumption DEF Address
    <3> QED
      BY <1>1, <3>1, <3>2, <3>4, <3>5, <3>7, <3>8, IsForwarded
  <2> QED
    BY <2>1, <2>2
<1>5. Air'
  <2>1. ackFrom' \in [Node -> Address]
    BY <1>1 DEF IInv, Air
  <2> QED
    BY <1>1, <2>1, AirRest
<1>6. Requests' /\ Queues' /\ Counts'
  BY <1>1, QueuesStay, RequestsStay DEF IInv, Counts
<1> QED
  BY <1>4, <1>5, <1>6 DEF IInv

\* The hopcount is a byte.
LEMMA Bytes ==
  ASSUME NEW h \in 0 .. 255
  PROVE  /\ (h + 1) % 256 \in 0 .. 255 /\ (h + 255) % 256 \in 0 .. 255
         /\ h < 255 => (h + 1) % 256 = h + 1
         /\ h > 0 => (h + 255) % 256 = h - 1
<1>1. h < 255 => (h + 1) % 256 = h + 1
  OBVIOUS
<1>2. h > 0 => (h + 255) % 256 = h - 1
  OBVIOUS
<1>3. (h + 1) % 256 \in 0 .. 255
  OBVIOUS
<1>4. (h + 255) % 256 \in 0 .. 255
  OBVIOUS
<1> QED
  BY <1>1, <1>2, <1>3, <1>4

\* The list grows by the node that sends the request on.
LEMMA RelayIsSound ==
  ASSUME NEW k, NEW n \in Node, NEW q \in Sound(k, n), q.packet.type = "RRQ",
         NEW p, p = Relayed(q.packet, n)
  PROVE  /\ [sender |-> n, target |-> Broadcast, packet |-> p] \in Frame
         /\ q.packet.hopcount < 255 => \A m \in Neighbours(n) :
              [sender |-> n, target |-> Broadcast, packet |-> p] \in Sound(k, m)
<1>1. q \in Frame /\ q.packet \in Packet /\ q.packet \in Carried(k)
  BY DEF Sound, Frame
<1> DEFINE l == q.packet.nodes
           o == q.packet.source
           r == [sender |-> n, target |-> Broadcast, packet |-> p]
<1>2. o \in Node /\ l \in Seq(Node) /\ q.packet.hopcount \in 0 .. 255
  BY <1>1 DEF Packet
<1>3. Append(l, n) \in Seq(Node) /\ (q.packet.hopcount + 1) % 256 \in 0 .. 255
  <2>1. Append(l, n) \in Seq(Node)
    BY <1>2, AppendProperties
  <2> QED
    BY <1>2, <2>1, Bytes, Zenon
<1>4. /\ p \in Packet /\ p.type = "RRQ" /\ p.source = o /\ p.id = q.packet.id
      /\ p.nodes = Append(l, n) /\ p.hopcount = (q.packet.hopcount + 1) % 256
  BY <1>1, <1>3 DEF Packet, Relayed
<1>5. r \in Frame /\ r.sender = n /\ r.packet = p
  BY <1>4 DEF Frame
<1>6. p \in Carried(k)
  BY <1>1, <1>4 DEF Carried
<1> HIDE DEF r
<1>7. ASSUME q.packet.hopcount < 255, NEW m \in Neighbours(n)
      PROVE  r \in Sound(k, m)
  <2>1. /\ q.packet.hopcount = Len(l) /\ Path((<<o>> \o l) \o <<n>>)
    BY DEF Sound, Tracks
  <2>2. m \in Node /\ <<n, m>> \in Link
    BY <1>7 DEF Neighbours
  <2>3. <<o>> \o Append(l, n) = (<<o>> \o l) \o <<n>> /\ Len(Append(l, n)) = Len(l) + 1
    BY <1>2, ListGrows
  <2> DEFINE s == <<o>> \o Append(l, n)
  <2>4. /\ s \in Seq(Node) /\ s # <<>> /\ Len(s) = Len(Append(l, n)) + 1
        /\ s[Len(Append(l, n)) + 1] = n
    <3>1. Append(l, n) # <<>> /\ Append(l, n)[Len(Append(l, n))] = n
      BY <1>2, <2>3, AppendProperties
    <3> QED
      BY <1>2, <1>3, <3>1, Listed
  <2>5. Path(s)
    BY <2>1, <2>3
  <2>6. Path(s \o <<m>>)
    BY <2>2, <2>4, <2>5, PathExtend
  <2>7. p.hopcount = Len(Append(l, n))
    <3>1. (q.packet.hopcount + 1) % 256 = q.packet.hopcount + 1
      BY <1>2, <1>7, Bytes, Zenon
    <3> QED
      BY <1>4, <2>1, <2>3, <3>1
  <2>8. Tracks(p, n, m)
    BY <1>4, <2>4, <2>6, <2>7 DEF Tracks
  <2> QED
    BY <1>4, <1>5, <1>6, <2>2, <2>8 DEF Sound
<1> QED
  BY <1>5, <1>7 DEF r

LEMMA LostIsCounted ==
  ASSUME NEW n \in Node, NEW r \in SUBSET Neighbours(n)
  PROVE  Cardinality(Neighbours(n) \ r) \in Nat
<1>1. IsFiniteSet(Neighbours(n) \ r)
  BY NetworkAssumption, FS_Subset DEF Neighbours
<1> QED
  BY <1>1, FS_CardinalityType

LEMMA RebroadcastRRQStep == ASSUME IInv, NEW n \in Node, RebroadcastRRQ(n) PROVE IInv'
<1> DEFINE p == frame(n).packet
           q == [sender |-> n, target |-> Broadcast, packet |-> Relayed(p, n)]
<1>1. /\ Receiving(n, "RRQ")
      /\ pc' = [pc EXCEPT ![n] = Resume(n, RXFIFO'[n])]
      /\ UNCHANGED <<routingTable, rrqProgress, recentRRQ, sendFifo, receiveFifo, ackFrom, fwd, delivered>>
  BY DEF RebroadcastRRQ
<1>2. PICK r \in IF p.hopcount < MaxHops THEN Audience(n) ELSE {{}} :
           /\ RXFIFO' = Heard(Rest(n), r, q)
           /\ count' = Lose(IF p.hopcount < MaxHops THEN Cardinality(Neighbours(n) \ r) ELSE 0)
  BY DEF RebroadcastRRQ
<1>3. /\ frame(n) \in Sound(count.packets, n) /\ frame(n) \in Frame /\ p.type = "RRQ" /\ pc[n] \in Idle
      /\ p.hopcount \in 0 .. 255
  BY <1>1, Received DEF Frame, Packet
<1>4. r \subseteq Neighbours(n) /\ (r # {} => p.hopcount < MaxHops)
  BY <1>2 DEF Audience
<1>5. q \in Frame /\ \A m \in r : m \in Node => q \in Sound(count.packets, m)
  <2>1. q \in Frame /\ (p.hopcount < 255 => \A m \in Neighbours(n) : q \in Sound(count.packets, m))
    BY <1>3, RelayIsSound
  <2>2. p.hopcount < MaxHops => p.hopcount < 255
    BY <1>3, HopsAssumption
  <2> QED
    BY <1>4, <2>1, <2>2
<1>6. Counts' /\ count'.packets = count.packets
  <2>1. (IF p.hopcount < MaxHops THEN Cardinality(Neighbours(n) \ r) ELSE 0) \in Nat
    BY <1>4, LostIsCounted
  <2> QED
    BY <1>2, <2>1 DEF IInv, Counts, Lose
<1> HIDE DEF q
<1>7. Air'
  <2>1. Rest(n) \in [Node -> Seq(Frame)] /\ \A m \in Node : Rest(n)[m] \in Seq(Sound(count.packets, m))
    BY <1>1, Received
  <2>2. /\ RXFIFO' \in [Node -> Seq(Frame)]
        /\ \A m \in Node : RXFIFO'[m] \in Seq(Sound(count.packets, m))
    BY <1>2, <1>5, <2>1, HeardIsSound
  <2> QED
    BY <1>1, <1>6, <2>2 DEF IInv, Air
<1>8. Tables' /\ Calls'
  <2>1. routingTable' = [routingTable EXCEPT ![n] = routingTable[n]]
    BY <1>1 DEF IInv, Tables
  <2> QED
    BY <1>1, <1>3, <1>6, <2>1, ResumeIsIdle, RowIsSettled, StaysIdle
<1>9. Requests' /\ Queues'
  BY <1>1, <1>6, QueuesStay, RequestsStay
<1> QED
  BY <1>6, <1>7, <1>8, <1>9 DEF IInv

LEMMA ResolveRUPStep == ASSUME IInv, NEW n \in Node, ResolveRUP(n) PROVE IInv'
<1>1. /\ Receiving(n, "RUP") /\ rrqProgress[n].dest = frame(n).packet.source
      /\ RXFIFO' = Rest(n) /\ SendAck(n)
      /\ routingTable' = [routingTable EXCEPT ![n][rrqProgress[n].dest].nextHop = frame(n).sender]
      /\ rrqProgress' = [rrqProgress EXCEPT ![n].resolved = TRUE]
      /\ pc' = [pc EXCEPT ![n] = Resume(n, RXFIFO'[n])]
      /\ UNCHANGED <<recentRRQ, sendFifo, receiveFifo, fwd, delivered>>
  BY DEF ResolveRUP, OwnRUP, senderNodeId, frame
<1>2. /\ pc[n] \in Idle /\ frame(n).sender \in Node /\ rrqProgress[n].dest \in Node
  BY <1>1, Received DEF Frame, Packet
<1>3. ackFrom' \in [Node -> Address] /\ Counts' /\ count'.packets = count.packets
  BY <1>1, <1>2, AckSent
<1>4. Tables' /\ Calls'
  <2> DEFINE d == rrqProgress[n].dest
             t == [routingTable[n] EXCEPT ![d].nextHop = frame(n).sender]
  <2>1. routingTable \in [Node -> Row] /\ routingTable[n] \in Row /\ SettledRow(routingTable[n])
    BY <1>2, RowIsSettled DEF IInv, Tables, Row
  <2>2. routingTable' = [routingTable EXCEPT ![n] = t]
    BY <1>1
  <2>3. t \in Row /\ SettledRow(t)
    BY <1>2, <2>1 DEF Row, Entry, SettledRow, Address
  <2> HIDE DEF t
  <2> QED
    BY <1>1, <1>2, <1>3, <2>2, <2>3, ResumeIsIdle, StaysIdle
<1>5. Requests'
  BY <1>1 DEF IInv, Requests
<1>6. Air' /\ Queues'
  BY <1>1, <1>3, AirRest, QueuesStay
<1> QED
  BY <1>3, <1>4, <1>5, <1>6 DEF IInv

\* The node below the top of the stack is the next on the way back, and can hear
\* the reply if it hears who it heard the request from.
LEMMA PopIsSound ==
  ASSUME NEW k, NEW n \in Node, NEW q \in Sound(k, n), q.packet.type = "RUP",
         NEW p, p = Popped(q.packet), NEW hop, hop = nextOnStack(q.packet)
  PROVE  /\ p \in Carried(k) /\ hop \in Node
         /\ (hop = n /\ q.packet.dest = n) \/ <<hop, n>> \in Link
         /\ hop \in Neighbours(n) => [sender |-> n, target |-> hop, packet |-> p] \in Sound(k, hop)
<1>1. q \in Frame /\ q.packet \in Packet /\ q.packet \in Carried(k)
  BY DEF Sound, Frame
<1> DEFINE l == q.packet.nodes
           d == q.packet.dest
           b == ButLast(l)
<1>2. d \in Node /\ l \in Seq(Node) /\ q.packet.hopcount \in 0 .. 255
  BY <1>1 DEF Packet
<1>3. /\ q.packet.hopcount = Len(l)
      /\ IF l = <<>> THEN d = n ELSE l[Len(l)] = n
      /\ Path(<<d>> \o l)
  BY DEF Sound, Stacked
<1>4. b \in Seq(Node) /\ (q.packet.hopcount + 255) % 256 \in 0 .. 255
  <2>1. b \in Seq(Node)
    BY <1>2, ListShrinks
  <2> QED
    BY <1>2, <2>1, Bytes, Zenon
<1>5. /\ p \in Packet /\ p.type = "RUP" /\ p.dest = d
      /\ p.nodes = b /\ p.hopcount = (q.packet.hopcount + 255) % 256
  BY <1>1, <1>4 DEF Packet, Popped, ButLast
<1>6. p \in Carried(k)
  BY <1>1, <1>5 DEF Carried
<1>7. CASE l = <<>>
  <2>1. Len(l) = 0
    BY <1>7, EmptySeq
  <2>2. hop = n
    BY <1>3, <1>7, <2>1 DEF nextOnStack
  <2>3. hop \notin Neighbours(n)
    BY <2>2, LinkAssumption DEF Neighbours
  <2> QED
    BY <1>3, <1>6, <1>7, <2>2, <2>3
<1>8. CASE l # <<>>
  <2>1. /\ l = Append(b, n) /\ Len(l) = Len(b) + 1 /\ Len(b) \in Nat
        /\ Len(l) >= 2 => b[Len(l) - 1] = l[Len(l) - 1]
    <3>1. Len(b) \in Nat /\ Len(l) \in Nat
      BY <1>2, <1>4, LenProperties
    <3>2. Len(b) = Len(l) - 1 /\ l = Append(b, n) /\ (Len(l) >= 2 => b[Len(l) - 1] = l[Len(l) - 1])
      BY <1>2, <1>3, <1>8, ListShrinks
    <3> QED
      BY <3>1, <3>2
  <2>2. Path((<<d>> \o b) \o <<n>>)
    <3>1. <<d>> \o Append(b, n) = (<<d>> \o b) \o <<n>>
      BY <1>2, <1>4, ListGrows
    <3>2. l = Append(b, n) /\ Path(<<d>> \o l)
      BY <1>3, <2>1
    <3> HIDE DEF b, l
    <3> QED
      BY <3>1, <3>2, Zenon
  <2>3. hop = IF b = <<>> THEN d ELSE b[Len(b)]
    <3>1. CASE b = <<>>
      <4>1. Len(b) = 0
        BY <3>1, EmptySeq
      <4> QED
        BY <1>3, <2>1, <3>1, <4>1 DEF nextOnStack
    <3>2. CASE b # <<>>
      <4>1. Len(b) >= 1
        BY <1>4, <3>2, EmptySeq
      <4>2. Len(l) >= 2 /\ Len(l) - 1 = Len(b)
        BY <2>1, <4>1
      <4> QED
        BY <1>3, <2>1, <3>2, <4>2 DEF nextOnStack
    <3> QED
      BY <3>1, <3>2
  <2> DEFINE s == <<d>> \o b
  <2>4. s \in Seq(Node) /\ s # <<>> /\ s[Len(s)] = hop /\ hop \in Node
    BY <1>2, <1>4, <2>3, Listed
  <2>5. Path(s) /\ <<hop, n>> \in Link
    BY <2>2, <2>4, PathExtend
  <2>6. p.hopcount = Len(b)
    <3>1. q.packet.hopcount > 0 /\ q.packet.hopcount - 1 = Len(b)
      BY <1>3, <2>1
    <3>2. (q.packet.hopcount + 255) % 256 = q.packet.hopcount - 1
      BY <1>2, <3>1, Bytes, Zenon
    <3> QED
      BY <1>5, <3>1, <3>2
  <2>7. Stacked(p, hop)
    BY <1>5, <2>3, <2>5, <2>6 DEF Stacked
  <2>8. [sender |-> n, target |-> hop, packet |-> p] \in Frame
    BY <1>5, <2>4 DEF Frame
  <2> QED
    BY <1>5, <1>6, <2>4, <2>5, <2>7, <2>8 DEF Sound, Neighbours
<1> QED
  BY <1>7, <1>8

LEMMA PassRUPStep == ASSUME IInv, NEW n \in Node, PassRUP(n) PROVE IInv'
<1> DEFINE q == frame(n)
           hop == nextOnStack(q.packet)
           e1 == [nextHop |-> q.sender, failures |-> 0]
           e2 == [nextHop |-> hop, failures |-> 0]
           t == [routingTable[n] EXCEPT ![q.packet.source] = e1, ![q.packet.dest] = e2]
           p == Popped(q.packet)
<1>1. /\ Receiving(n, "RUP") /\ RXFIFO' = Rest(n) /\ SendAck(n)
      /\ routingTable' = [routingTable EXCEPT ![n] = t]
      /\ Forward(n, NoNode, hop, p, "receive", NoNode)
      /\ UNCHANGED <<rrqProgress, recentRRQ, sendFifo, receiveFifo, delivered>>
  BY DEF PassRUP, senderNodeId, frame
<1>2. /\ q \in Sound(count.packets, n) /\ q.packet.type = "RUP" /\ pc[n] \in Idle /\ q.sender \in Node
      /\ q.packet.source \in Node /\ q.packet.dest \in Node
  BY <1>1, Received DEF Frame, Packet
<1>3. ackFrom' \in [Node -> Address] /\ Counts' /\ count'.packets = count.packets
  BY <1>1, <1>2, AckSent
<1>4. /\ p \in Carried(count.packets) /\ hop \in Node
      /\ hop \in Neighbours(n) =>
           [sender |-> n, target |-> hop, packet |-> p] \in Sound(count.packets, hop)
  BY <1>2, PopIsSound
<1> HIDE DEF hop, p
<1>5. t \in Row /\ SettledRow(t)
  <2>1. routingTable[n] \in Row /\ SettledRow(routingTable[n])
    BY <1>2, RowIsSettled
  <2>2. e1 \in Entry /\ e1.failures = 0 /\ e2 \in Entry /\ e2.failures = 0
    BY <1>2, <1>4, BoundAssumption DEF Entry, Address
  <2> HIDE DEF e1, e2
  <2> QED
    BY <1>2, <2>1, <2>2 DEF Row, SettledRow
<1> HIDE DEF t
<1>6. Tables' /\ Calls'
  <2>1. NoNode \in Address /\ hop \in Address /\ NoNode \notin Node
    BY <1>4, AddressAssumption DEF Address
  <2> QED
    BY <1>1, <1>3, <1>4, <1>5, <2>1, IsForwarded
<1>7. Air' /\ Requests' /\ Queues'
  BY <1>1, <1>3, AirRest, RequestsStay, QueuesStay
<1> QED
  BY <1>3, <1>6, <1>7 DEF IInv

\* A FAIL can be made of every packet and sent to anybody.
LEMMA FailIsSound ==
  ASSUME NEW k, NEW n \in Node, NEW p \in Packet, p.type = "FAIL"
  PROVE  /\ p \in Carried(k)
         /\ \A hop \in Neighbours(n) :
              [sender |-> n, target |-> hop, packet |-> p] \in Sound(k, hop)
<1>1. p \in Carried(k)
  BY DEF Carried
<1> QED
  BY <1>1 DEF Sound, Frame, Neighbours

LEMMA FailPacketIsPacket ==
  ASSUME NEW p \in Packet
  PROVE  FailPacket(p) \in Packet /\ FailPacket(p).type = "FAIL"
<1>1. <<>> \in Seq(Node)
  OBVIOUS
<1> QED
  BY <1>1 DEF FailPacket, Packet

LEMMA HandleFAILStep == ASSUME IInv, NEW n \in Node, HandleFAIL(n) PROVE IInv'
<1> DEFINE p == frame(n).packet
           t == [routingTable[n] EXCEPT ![p.source].nextHop = NoNode]
           u == IF p.dest = n THEN t ELSE getNextHop(t, p.dest)
<1>1. /\ Receiving(n, "FAIL") /\ RXFIFO' = Rest(n) /\ SendAck(n)
      /\ routingTable' = [routingTable EXCEPT ![n] = u]
      /\ UNCHANGED <<rrqProgress, recentRRQ, sendFifo, receiveFifo, delivered>>
  BY DEF HandleFAIL
<1>2. /\ p.type = "FAIL" /\ p \in Packet /\ pc[n] \in Idle /\ frame(n).sender \in Node
      /\ p.source \in Node /\ p.dest \in Node
  BY <1>1, Received DEF Frame, Packet
<1>3. ackFrom' \in [Node -> Address] /\ Counts' /\ count'.packets = count.packets
  BY <1>1, <1>2, AckSent
<1>4. t \in Row /\ SettledRow(t)
  <2>1. routingTable[n] \in Row /\ SettledRow(routingTable[n])
    BY <1>2, RowIsSettled
  <2> QED
    BY <1>2, <2>1 DEF Row, SettledRow, Entry, Address
<1> HIDE DEF t
<1>5. u \in Row /\ SettledRow(u)
  BY <1>2, <1>4, GetNextHop
<1>6. CASE p.dest # n /\ entryIsValid(t[p.dest])
  <2>1. Forward(n, p.dest, t[p.dest].nextHop, p, "receive", NoNode)
    BY <1>6 DEF HandleFAIL, t
  <2>2. u = t /\ t[p.dest].failures = 0 /\ t[p.dest].nextHop \in Node
    BY <1>2, <1>4, <1>6, GetNextHop
  <2>3. NoNode \in Address /\ p.dest \in Address /\ t[p.dest].nextHop \in Address
    BY <1>2, <2>2 DEF Address
  <2>4. p \in Carried(count.packets) /\ (t[p.dest].nextHop \in Neighbours(n) =>
          [sender |-> n, target |-> t[p.dest].nextHop, packet |-> p]
             \in Sound(count.packets, t[p.dest].nextHop))
    BY <1>2, FailIsSound
  <2>5. Tables' /\ Calls'
    BY <1>1, <1>3, <1>4, <2>1, <2>2, <2>3, <2>4, IsForwarded
  <2> QED
    BY <1>1, <1>3, <2>5, AirRest, RequestsStay, QueuesStay DEF IInv
<1>7. CASE ~(p.dest # n /\ entryIsValid(t[p.dest]))
  <2>1. pc' = [pc EXCEPT ![n] = Resume(n, RXFIFO'[n])] /\ UNCHANGED fwd
    BY <1>7 DEF HandleFAIL, t
  <2>2. Tables' /\ Calls'
    BY <1>1, <1>3, <1>5, <2>1, ResumeIsIdle, StaysIdle
  <2> QED
    BY <1>1, <1>3, <2>2, AirRest, RequestsStay, QueuesStay DEF IInv
<1> QED
  BY <1>6, <1>7

LEMMA StoreContentStep == ASSUME IInv, NEW n \in Node, StoreContent(n) PROVE IInv'
<1> DEFINE p == frame(n).packet
           k == count.packets
<1>1. /\ Receiving(n, "CONTENT") /\ p.dest = n /\ RXFIFO' = Rest(n) /\ SendAck(n)
      /\ receiveFifo' = [receiveFifo EXCEPT ![n] = Overwrite(@, p)]
      /\ pc' = [pc EXCEPT ![n] = Resume(n, RXFIFO'[n])]
      /\ UNCHANGED <<routingTable, rrqProgress, recentRRQ, sendFifo, fwd, delivered>>
  BY DEF StoreContent
<1>2. /\ p \in Packet /\ p \in Carried(k) /\ p.type = "CONTENT" /\ pc[n] \in Idle
      /\ frame(n).sender \in Node
  BY <1>1, Received DEF Sound, Frame
<1>3. ackFrom' \in [Node -> Address] /\ Counts' /\ count'.packets = k
  BY <1>1, <1>2, AckSent
<1>4. Queues'
  <2>1. /\ receiveFifo \in [Node -> Seq(Packet)]
        /\ \A m \in Node : receiveFifo[m] \in Seq(ContentFor(k, m))
    BY DEF IInv, Queues
  <2>2. p \in ContentFor(k, n)
    BY <1>1, <1>2 DEF ContentFor, Content
  <2>3. /\ Overwrite(receiveFifo[n], p) \in Seq(Packet)
        /\ Overwrite(receiveFifo[n], p) \in Seq(ContentFor(k, n))
    BY <1>2, <2>1, <2>2, OverwriteInSeq
  <2>4. /\ receiveFifo' \in [Node -> Seq(Packet)]
        /\ \A m \in Node : receiveFifo'[m] \in Seq(ContentFor(k, m))
    BY <1>1, <2>1, <2>3
  <2> QED
    BY <1>1, <1>3, <2>4 DEF IInv, Queues
<1>5. Tables' /\ Calls'
  <2>1. routingTable' = [routingTable EXCEPT ![n] = routingTable[n]]
    BY <1>1 DEF IInv, Tables
  <2> QED
    BY <1>1, <1>2, <1>3, <2>1, ResumeIsIdle, RowIsSettled, StaysIdle
<1> QED
  BY <1>1, <1>3, <1>4, <1>5, AirRest, RequestsStay DEF IInv

LEMMA PassContentStep == ASSUME IInv, NEW n \in Node, PassContent(n) PROVE IInv'
<1> DEFINE p == frame(n).packet
           t == routingTable[n]
           u == getNextHop(t, p.dest)
           from == frame(n).sender
<1>1. /\ Receiving(n, "CONTENT") /\ RXFIFO' = Rest(n) /\ SendAck(n)
      /\ routingTable' = [routingTable EXCEPT ![n] = u]
      /\ IF entryIsValid(t[p.dest])
         THEN Forward(n, p.dest, t[p.dest].nextHop, p, "receive", from)
         ELSE Forward(n, NoNode, from, FailPacket(p), "receive", NoNode)
      /\ UNCHANGED <<rrqProgress, recentRRQ, sendFifo, receiveFifo, delivered>>
  BY DEF PassContent, senderNodeId, frame
<1>2. /\ p.type = "CONTENT" /\ p \in Packet /\ p \in Carried(count.packets) /\ pc[n] \in Idle
      /\ from \in Node /\ p.dest \in Node
  <2>1. /\ frame(n) \in Sound(count.packets, n) /\ frame(n) \in Frame
        /\ p.type = "CONTENT" /\ pc[n] \in Idle
    BY <1>1, Received
  <2>2. p \in Carried(count.packets)
    BY <2>1 DEF Sound
  <2> QED
    BY <2>1, <2>2 DEF Frame, Packet
<1>3. ackFrom' \in [Node -> Address] /\ Counts' /\ count'.packets = count.packets
  BY <1>1, <1>2, AckSent
<1>4. t \in Row /\ SettledRow(t)
  BY <1>2, RowIsSettled
<1> HIDE DEF t
<1>5. /\ u \in Row /\ SettledRow(u)
      /\ entryIsValid(t[p.dest]) => u = t /\ t[p.dest].failures = 0 /\ t[p.dest].nextHop \in Node
  BY <1>2, <1>4, GetNextHop
<1>6. Air' /\ Requests' /\ Queues'
  BY <1>1, <1>3, AirRest, RequestsStay, QueuesStay
<1>7. NoNode \in Address /\ NoNode \notin Node /\ from \in Address /\ p.dest \in Address
  BY <1>2, AddressAssumption DEF Address
<1>8. CASE entryIsValid(t[p.dest])
  <2>1. t[p.dest].nextHop \in Address
    BY <1>5, <1>8 DEF Address
  <2>2. t[p.dest].nextHop \in Neighbours(n) =>
          [sender |-> n, target |-> t[p.dest].nextHop, packet |-> p]
             \in Sound(count.packets, t[p.dest].nextHop)
    BY <1>2 DEF Sound, Frame, Neighbours
  <2>3. Tables' /\ Calls'
    BY <1>1, <1>2, <1>3, <1>4, <1>5, <1>7, <1>8, <2>1, <2>2, IsForwarded
  <2> QED
    BY <1>3, <1>6, <2>3 DEF IInv
<1>9. CASE ~entryIsValid(t[p.dest])
  <2> DEFINE f == FailPacket(p)
  <2>1. f \in Packet /\ f.type = "FAIL"
    BY <1>2, FailPacketIsPacket
  <2>2. Forward(n, NoNode, from, f, "receive", NoNode)
    BY <1>1, <1>9
  <2> HIDE DEF f
  <2>3. f \in Carried(count.packets) /\ (from \in Neighbours(n) =>
          [sender |-> n, target |-> from, packet |-> f] \in Sound(count.packets, from))
    BY <2>1, FailIsSound
  <2>4. Tables' /\ Calls'
    BY <1>1, <1>3, <1>5, <1>7, <2>2, <2>3, IsForwarded
  <2> QED
    BY <1>3, <1>6, <2>4 DEF IInv
<1> QED
  BY <1>8, <1>9

LEMMA HandleReceivedStep == ASSUME IInv, NEW n \in Node, handleReceived(n) PROVE IInv'
BY RepeatedRRQStep, AnswerRRQStep, RebroadcastRRQStep, ResolveRUPStep, PassRUPStep,
   HandleFAILStep, StoreContentStep, PassContentStep DEF handleReceived

-----------------------------------------------------------------------------
(* forward. *)

\* Return, to the main loop or to handleReceived.
LEMMA Returns ==
  ASSUME IInv, NEW n \in Node, pc[n] \in Blocked, Return(n),
         routingTable' \in [Node -> Row], SettledRow(routingTable'[n]),
         \A m \in Node \ {n} : routingTable'[m] = routingTable[m],
         count'.packets = count.packets
  PROVE  Tables' /\ Calls'
<1> DEFINE x == IF fwd[n].back = "main" THEN "main" ELSE Resume(n, RXFIFO[n])
<1>1. pc' = [pc EXCEPT ![n] = x] /\ fwd' = [fwd EXCEPT ![n] = NoCall]
  BY DEF Return
<1>2. x \in Idle /\ x \notin Blocked
  BY ResumeIsIdle DEF Idle, Blocked
<1> HIDE DEF x
<1>3. pc \in [Node -> Idle \cup Blocked] /\ fwd \in [Node -> Call]
  BY DEF IInv, Calls, Idle, Blocked
<1>4. Alone(n) /\ pc'[n] = x
  BY <1>1, <1>3 DEF Alone
<1>5. pc' \in [Node -> Idle \cup Blocked] /\ fwd' \in [Node -> Call]
  BY <1>1, <1>2, <1>3, NoCallIsCall
<1> QED
  BY <1>2, <1>4, <1>5, TablesStep, CallsStep DEF SettledEntry, SettledRow

\* The call in progress, and the entry it uses.
LEMMA InForward ==
  ASSUME IInv, NEW n \in Node, pc[n] \in Blocked
  PROVE  /\ fwd[n] \in Call /\ fwd[n] \in Callable(count.packets, n)
         /\ fwd[n].packet \in Carried(count.packets) /\ fwd[n].packet \in Packet
         /\ fwd[n].retries \in 0 .. MAX_ACK_FAILURES - 1
         /\ fwd[n].nextHop \in Address /\ fwd[n].entry \in Address /\ fwd[n].failTo \in Address
         /\ routingTable[n] \in Row
         /\ \A d \in Node : IF d = fwd[n].entry THEN routingTable[n][d].failures = fwd[n].retries
                            ELSE routingTable[n][d].failures \in {0, MAX_ACK_FAILURES}
<1>1. fwd[n] \in Callable(count.packets, n)
  BY DEF IInv, Calls
<1>2. fwd[n] \in Call /\ fwd[n].packet \in Carried(count.packets) /\ fwd[n].retries < MAX_ACK_FAILURES
  BY <1>1 DEF Callable
<1>3. fwd[n].packet \in Packet
  BY <1>2 DEF Carried
<1>4. routingTable[n] \in Row /\ \A d \in Node : SettledEntry(routingTable[n][d], d, pc[n], fwd[n])
  BY DEF IInv, Tables, Row
<1>5. fwd[n].retries \in 0 .. MAX_ACK_FAILURES - 1
  BY <1>2, BoundAssumption DEF Call
<1> QED
  BY <1>1, <1>2, <1>3, <1>4, <1>5 DEF Call, SettledEntry

LEMMA SendFrameStep == ASSUME IInv, NEW n \in Node, SendFrame(n) PROVE IInv'
<1> DEFINE hop == fwd[n].nextHop
           q == [sender |-> n, target |-> hop, packet |-> fwd[n].packet]
<1>1. /\ pc[n] = "send" /\ pc' = [pc EXCEPT ![n] = "wait"]
      /\ \/ /\ hop \in Neighbours(n) /\ RXFIFO' = Heard(RXFIFO, {hop}, q) /\ UNCHANGED count
         \/ /\ count' = Lose(IF hop \in Neighbours(n) THEN 1 ELSE 0) /\ UNCHANGED RXFIFO
      /\ UNCHANGED <<routingTable, rrqProgress, recentRRQ, sendFifo, receiveFifo, ackFrom, fwd, delivered>>
  BY DEF SendFrame
<1>2. pc[n] \in Blocked
  BY <1>1 DEF Blocked
<1>3. fwd[n] \in Callable(count.packets, n) /\ fwd[n] \in Call
  BY <1>2, InForward
<1>4. Counts' /\ count'.packets = count.packets
  BY <1>1 DEF IInv, Counts, Lose
<1>5. Air'
  <2>1. CASE hop \in Neighbours(n) /\ RXFIFO' = Heard(RXFIFO, {hop}, q)
    <3>1. q \in Sound(count.packets, hop)
      BY <1>3, <2>1 DEF Callable
    <3>2. q \in Frame
      BY <3>1 DEF Sound
    <3>3. RXFIFO \in [Node -> Seq(Frame)] /\ \A m \in Node : RXFIFO[m] \in Seq(Sound(count.packets, m))
      BY DEF IInv, Air
    <3> HIDE DEF q, hop
    <3>4. \A m \in {hop} : m \in Node => q \in Sound(count.packets, m)
      BY <3>1
    <3>5. /\ RXFIFO' \in [Node -> Seq(Frame)]
          /\ \A m \in Node : RXFIFO'[m] \in Seq(Sound(count.packets, m))
      BY <2>1, <3>2, <3>3, <3>4, HeardIsSound
    <3> QED
      BY <1>1, <1>4, <3>5 DEF IInv, Air
  <2>2. CASE UNCHANGED RXFIFO
    BY <1>1, <1>4, <2>2 DEF IInv, Air
  <2> QED
    BY <1>1, <2>1, <2>2
<1>6. Tables' /\ Calls'
  <2>1. pc \in [Node -> Idle \cup Blocked] /\ fwd \in [Node -> Call] /\ routingTable \in [Node -> Row]
    BY DEF IInv, Calls, Tables, Idle, Blocked, Row
  <2>2. Alone(n) /\ pc'[n] = "wait" /\ fwd'[n] = fwd[n] /\ routingTable'[n] = routingTable[n]
    BY <1>1, <2>1 DEF Alone
  <2>3. \A d \in Node : SettledEntry(routingTable[n][d], d, "wait", fwd[n])
    BY <1>1 DEF IInv, Tables, SettledEntry, Blocked
  <2>4. pc' \in [Node -> Idle \cup Blocked]
    BY <1>1, <2>1 DEF Blocked
  <2> QED
    BY <1>1, <1>3, <1>4, <2>1, <2>2, <2>3, <2>4, TablesStep, CallsStep
<1> QED
  BY <1>1, <1>4, <1>5, <1>6, RequestsStay, QueuesStay DEF IInv

LEMMA AckedStep == ASSUME IInv, NEW n \in Node, Acked(n) PROVE IInv'
<1>1. /\ pc[n] = "wait" /\ ackFrom' = [ackFrom EXCEPT ![n] = NoNode]
      /\ routingTable' = Succeeded(n) /\ Return(n)
      /\ UNCHANGED <<rrqProgress, recentRRQ, sendFifo, receiveFifo, RXFIFO, delivered, count>>
  BY DEF Acked
<1>2. pc[n] \in Blocked
  BY <1>1 DEF Blocked
<1>3. /\ fwd[n].entry \in Address /\ routingTable[n] \in Row
      /\ \A d \in Node : d # fwd[n].entry => routingTable[n][d].failures \in {0, MAX_ACK_FAILURES}
  BY <1>2, InForward
<1>4. routingTable \in [Node -> Row]
  BY DEF IInv, Tables, Row
<1>5. /\ routingTable' \in [Node -> Row] /\ SettledRow(routingTable'[n])
      /\ \A m \in Node \ {n} : routingTable'[m] = routingTable[m]
  <2> DEFINE e == fwd[n].entry
             t == [routingTable[n] EXCEPT ![e].failures = 0]
  <2>1. CASE e = NoNode
    <3>1. routingTable' = routingTable /\ e \notin Node
      BY <1>1, <2>1, AddressAssumption DEF Succeeded
    <3> QED
      BY <1>3, <1>4, <3>1 DEF SettledRow
  <2>2. CASE e # NoNode
    <3>1. routingTable' = [routingTable EXCEPT ![n] = t] /\ e \in Node
      BY <1>1, <1>3, <2>2 DEF Succeeded, Address
    <3>2. t \in Row /\ SettledRow(t)
      BY <1>3, <3>1, BoundAssumption DEF Row, Entry, SettledRow
    <3> HIDE DEF t
    <3> QED
      BY <1>4, <3>1, <3>2
  <2> QED
    BY <2>1, <2>2
<1>6. Tables' /\ Calls'
  BY <1>1, <1>2, <1>5, Returns
<1>7. Air'
  <2>1. ackFrom' \in [Node -> Address]
    BY <1>1 DEF IInv, Air, Address
  <2> QED
    BY <1>1, <2>1, AirStays
<1> QED
  BY <1>1, <1>6, <1>7, RequestsStay, QueuesStay DEF IInv, Counts

\* One more failure, counted with the retries.
LEMMA FailedRow ==
  ASSUME IInv, NEW n \in Node, pc[n] \in Blocked, routingTable' = Failed(n)
  PROVE  /\ routingTable' \in [Node -> Row]
         /\ \A m \in Node \ {n} : routingTable'[m] = routingTable[m]
         /\ \A d \in Node : IF d = fwd[n].entry THEN routingTable'[n][d].failures = fwd[n].retries + 1
                            ELSE routingTable'[n][d].failures \in {0, MAX_ACK_FAILURES}
<1> DEFINE e == fwd[n].entry
           r == fwd[n].retries
<1>1. /\ e \in Address /\ r \in 0 .. MAX_ACK_FAILURES - 1 /\ routingTable[n] \in Row
      /\ \A d \in Node : IF d = e THEN routingTable[n][d].failures = r
                         ELSE routingTable[n][d].failures \in {0, MAX_ACK_FAILURES}
  BY InForward
<1>2. routingTable \in [Node -> Row]
  BY DEF IInv, Tables, Row
<1>3. r + 1 \in 0 .. MAX_ACK_FAILURES
  BY <1>1, BoundAssumption
<1>4. CASE e = NoNode
  <2>1. routingTable' = routingTable /\ e \notin Node
    BY <1>4, AddressAssumption DEF Failed
  <2> QED
    BY <1>1, <1>2, <2>1
<1>5. CASE e # NoNode
  <2> DEFINE t == [routingTable[n] EXCEPT ![e].failures = r + 1]
  <2>1. e \in Node /\ routingTable[n][e].failures = r
    BY <1>1, <1>5 DEF Address
  <2>2. routingTable' = [routingTable EXCEPT ![n] = t]
    BY <1>5, <2>1 DEF Failed
  <2>3. t \in Row /\ \A d \in Node : IF d = e THEN t[d].failures = r + 1
                                     ELSE t[d].failures \in {0, MAX_ACK_FAILURES}
    BY <1>1, <1>3, <2>1 DEF Row, Entry
  <2> HIDE DEF t
  <2> QED
    BY <1>2, <2>2, <2>3
<1> QED
  BY <1>4, <1>5

LEMMA TimeOutCounts ==
  ASSUME IInv, NEW n \in Node, TimeOut(n)
  PROVE  /\ pc[n] \in Blocked
         /\ Counts' /\ count'.packets = count.packets
<1>1. count' = [count EXCEPT !.early = IF AnswerPending(n) THEN @ + 1 ELSE @] /\ pc[n] = "wait"
  BY DEF TimeOut
<1> QED
  BY <1>1 DEF IInv, Counts, Blocked

LEMMA RetryStep == ASSUME IInv, NEW n \in Node, Retry(n) PROVE IInv'
<1> DEFINE c == [fwd[n] EXCEPT !.retries = @ + 1]
<1>1. /\ TimeOut(n) /\ fwd[n].retries + 1 < MAX_ACK_FAILURES
      /\ routingTable' = Failed(n)
      /\ fwd' = [fwd EXCEPT ![n] = c] /\ pc' = [pc EXCEPT ![n] = "send"]
      /\ UNCHANGED <<rrqProgress, recentRRQ, sendFifo, receiveFifo, RXFIFO, ackFrom, delivered>>
  BY DEF Retry
<1>2. pc[n] \in Blocked /\ Counts' /\ count'.packets = count.packets
  BY <1>1, TimeOutCounts
<1>3. fwd[n] \in Call /\ fwd[n] \in Callable(count.packets, n) /\ fwd[n].retries \in 0 .. MAX_ACK_FAILURES - 1
  BY <1>2, InForward
<1>4. /\ c \in Call /\ c.retries = fwd[n].retries + 1 /\ c.entry = fwd[n].entry
      /\ c.packet = fwd[n].packet /\ c.nextHop = fwd[n].nextHop
  BY <1>1, <1>3, BoundAssumption DEF Call
<1>5. c \in Callable(count.packets, n)
  BY <1>1, <1>3, <1>4 DEF Callable
<1> HIDE DEF c
<1>6. /\ routingTable' \in [Node -> Row]
      /\ \A m \in Node \ {n} : routingTable'[m] = routingTable[m]
      /\ \A d \in Node : IF d = c.entry THEN routingTable'[n][d].failures = c.retries
                         ELSE routingTable'[n][d].failures \in {0, MAX_ACK_FAILURES}
  BY <1>1, <1>2, <1>4, FailedRow
<1>7. pc \in [Node -> Idle \cup Blocked] /\ fwd \in [Node -> Call]
  BY DEF IInv, Calls, Idle, Blocked
<1>8. /\ Alone(n) /\ pc'[n] = "send" /\ fwd'[n] = c
      /\ pc' \in [Node -> Idle \cup Blocked] /\ fwd' \in [Node -> Call]
  BY <1>1, <1>4, <1>6, <1>7 DEF Alone, Blocked
<1>9. Tables' /\ Calls'
  BY <1>2, <1>5, <1>6, <1>8, TablesStep, CallsStep DEF SettledEntry, Blocked
<1>10. Air'
  <2>1. ackFrom' \in [Node -> Address]
    BY <1>1 DEF IInv, Air
  <2> QED
    BY <1>1, <1>2, <2>1, AirStays
<1> QED
  BY <1>1, <1>2, <1>9, <1>10, RequestsStay, QueuesStay DEF IInv

LEMMA GiveUpStep == ASSUME IInv, NEW n \in Node, GiveUp(n) PROVE IInv'
<1> DEFINE p == fwd[n].packet
           back == fwd[n].failTo
<1>1. /\ TimeOut(n) /\ fwd[n].retries + 1 = MAX_ACK_FAILURES
      /\ routingTable' = Failed(n)
      /\ IF back = NoNode THEN Return(n)
         ELSE Forward(n, NoNode, back, FailPacket(p), "receive", NoNode)
      /\ UNCHANGED <<rrqProgress, recentRRQ, sendFifo, receiveFifo, RXFIFO, ackFrom, delivered>>
  BY DEF GiveUp
<1>2. pc[n] \in Blocked /\ Counts' /\ count'.packets = count.packets
  BY <1>1, TimeOutCounts
<1>3. p \in Packet /\ back \in Address
  BY <1>2, InForward
<1>4. /\ routingTable' \in [Node -> Row] /\ SettledRow(routingTable'[n])
      /\ \A m \in Node \ {n} : routingTable'[m] = routingTable[m]
  BY <1>1, <1>2, FailedRow DEF SettledRow
<1>5. Tables' /\ Calls'
  <2>1. CASE back = NoNode
    BY <1>1, <1>2, <1>4, <2>1, Returns
  <2>2. CASE back # NoNode
    <3> DEFINE f == FailPacket(p)
               c == [entry |-> NoNode, nextHop |-> back, packet |-> f, retries |-> 0,
                     back |-> "receive", failTo |-> NoNode]
    <3>1. f \in Packet /\ f.type = "FAIL"
      BY <1>3, FailPacketIsPacket
    <3>2. fwd' = [fwd EXCEPT ![n] = c] /\ pc' = [pc EXCEPT ![n] = "send"]
      BY <1>1, <2>2 DEF Forward
    <3> HIDE DEF f
    <3>3. f \in Carried(count.packets) /\ (back \in Neighbours(n) =>
            [sender |-> n, target |-> back, packet |-> f] \in Sound(count.packets, back))
      BY <3>1, FailIsSound
    <3>4. c \in Call /\ c \in Callable(count.packets, n) /\ c.entry = NoNode
      BY <1>3, <3>1, <3>3, BoundAssumption DEF Call, Callable, Address
    <3> HIDE DEF c
    <3>5. pc \in [Node -> Idle \cup Blocked] /\ fwd \in [Node -> Call]
      BY DEF IInv, Calls, Idle, Blocked
    <3>6. /\ Alone(n) /\ pc'[n] = "send" /\ fwd'[n] = c
          /\ pc' \in [Node -> Idle \cup Blocked] /\ fwd' \in [Node -> Call]
      BY <1>4, <3>2, <3>4, <3>5 DEF Alone, Blocked
    <3>7. \A d \in Node : SettledEntry(routingTable'[n][d], d, pc'[n], fwd'[n])
      BY <1>4, <3>4, <3>6, AddressAssumption DEF SettledEntry, SettledRow
    <3> QED
      BY <1>2, <1>4, <3>4, <3>6, <3>7, TablesStep, CallsStep
  <2> QED
    BY <2>1, <2>2
<1>6. Air'
  <2>1. ackFrom' \in [Node -> Address]
    BY <1>1 DEF IInv, Air
  <2> QED
    BY <1>1, <1>2, <2>1, AirStays
<1> QED
  BY <1>1, <1>2, <1>5, <1>6, RequestsStay, QueuesStay DEF IInv

LEMMA ForwardStep == ASSUME IInv, NEW n \in Node, forward(n) PROVE IInv'
BY SendFrameStep, AckedStep, RetryStep, GiveUpStep DEF forward

-----------------------------------------------------------------------------
(* processSendQueue. *)

LEMMA OldestToSend ==
  ASSUME IInv, NEW n \in Node, sendFifo[n] # <<>>
  PROVE  /\ Head(sendFifo[n]) \in Content(count.packets)
         /\ Head(sendFifo[n]) \in Carried(count.packets) /\ Head(sendFifo[n]) \in Packet
         /\ Head(sendFifo[n]).type = "CONTENT" /\ Head(sendFifo[n]).dest \in Node
         /\ [sendFifo EXCEPT ![n] = Tail(@)] \in [Node -> Seq(Content(count.packets))]
<1>1. sendFifo \in [Node -> Seq(Content(count.packets))]
  BY DEF IInv, Queues
<1>2. /\ Head(sendFifo[n]) \in Content(count.packets)
      /\ Tail(sendFifo[n]) \in Seq(Content(count.packets))
  BY <1>1, HeadTailProperties
<1>3. Head(sendFifo[n]) \in Carried(count.packets) /\ Head(sendFifo[n]).type = "CONTENT"
  BY <1>2 DEF Content
<1>4. Head(sendFifo[n]) \in Packet
  BY <1>3 DEF Carried
<1>5. Head(sendFifo[n]).dest \in Node
  BY <1>4 DEF Packet
<1> QED
  BY <1>1, <1>2, <1>3, <1>4, <1>5, Zenon

LEMMA QueueTurnIsIdle == ASSUME NEW n \in Node, QueueTurn(n) PROVE pc[n] \in Idle
BY DEF QueueTurn, Idle

LEMMA ExpiredIsCounted == \A n, active : Expired(n, active) \in Nat
BY DEF Expired

LEMMA Counted ==
  ASSUME Counts, NEW a \in Nat, NEW b \in Nat, NEW c \in Nat,
         \/ count' = [count EXCEPT !.requests = @ + a, !.lost = @ + b, !.early = @ + c]
         \/ a = 0 /\ b = 0 /\ count' = [count EXCEPT !.early = @ + c]
  PROVE  Counts' /\ count'.packets = count.packets
<1>1. /\ count \in [packets : Nat, requests : Nat, lost : Nat, early : Nat, restarts : Nat]
      /\ count.requests + a \in Nat /\ count.lost + b \in Nat /\ count.early + c \in Nat
  BY DEF Counts
<1>2. count' = [packets |-> count.packets, requests |-> count.requests + a, lost |-> count.lost + b,
                early |-> count.early + c, restarts |-> count.restarts]
  <2>1. CASE count' = [count EXCEPT !.requests = @ + a, !.lost = @ + b, !.early = @ + c]
    BY <1>1, <2>1
  <2>2. CASE a = 0 /\ b = 0 /\ count' = [count EXCEPT !.early = @ + c]
    <3>1. count.requests + a = count.requests /\ count.lost + b = count.lost
      BY <1>1, <2>2
    <3>2. count' = [packets |-> count.packets, requests |-> count.requests, lost |-> count.lost,
                    early |-> count.early + c, restarts |-> count.restarts]
      BY <1>1, <2>2
    <3> QED
      BY <3>1, <3>2
  <2> QED
    BY <2>1, <2>2
<1> QED
  BY <1>1, <1>2 DEF Counts

LEMMA SendQueuedStep == ASSUME IInv, NEW n \in Node, SendQueued(n) PROVE IInv'
<1> DEFINE p == Head(sendFifo[n])
           t == routingTable[n]
           hop == t[p.dest].nextHop
<1>1. /\ QueueTurn(n) /\ sendFifo[n] # <<>>
      /\ sendFifo' = [sendFifo EXCEPT ![n] = Tail(@)]
      /\ Forward(n, p.dest, hop, p, "main", NoNode)
      /\ UNCHANGED <<routingTable, recentRRQ, receiveFifo, RXFIFO, ackFrom, delivered>>
  BY DEF SendQueued
<1>2. PICK active \in BOOLEAN :
           /\ routeExistsTo(n, p.dest, active)
           /\ rrqProgress' = [rrqProgress EXCEPT ![n].active = active]
           /\ count' = [count EXCEPT !.early = @ + Expired(n, active)]
  BY DEF SendQueued, StillActive
<1>3. /\ p \in Carried(count.packets) /\ p \in Packet /\ p.type = "CONTENT" /\ p.dest \in Node
      /\ sendFifo' \in [Node -> Seq(Content(count.packets))] /\ pc[n] \in Idle
  BY <1>1, OldestToSend, QueueTurnIsIdle
<1> HIDE DEF p
<1>4. Counts' /\ count'.packets = count.packets
  BY <1>2, ExpiredIsCounted DEF IInv, Counts
<1>5. t \in Row /\ SettledRow(t) /\ t[p.dest].failures = 0 /\ hop \in Node
  <2>1. t \in Row /\ SettledRow(t) /\ entryIsValid(t[p.dest])
    BY <1>2, <1>3, RowIsSettled DEF routeExistsTo
  <2> QED
    BY <1>3, <2>1, GetNextHop
<1>6. Tables' /\ Calls'
  <2>1. NoNode \in Address /\ p.dest \in Address /\ hop \in Address
    BY <1>3, <1>5 DEF Address
  <2>2. hop \in Neighbours(n) =>
          [sender |-> n, target |-> hop, packet |-> p] \in Sound(count.packets, hop)
    BY <1>3, <1>5 DEF Sound, Frame, Neighbours
  <2>3. routingTable' = [routingTable EXCEPT ![n] = t]
    BY <1>1 DEF IInv, Tables
  <2> HIDE DEF t, hop
  <2> QED
    BY <1>1, <1>3, <1>4, <1>5, <2>1, <2>2, <2>3, IsForwarded DEF hop
<1>7. Requests'
  BY <1>1, <1>2 DEF IInv, Requests
<1>8. Queues'
  BY <1>1, <1>3, <1>4 DEF IInv, Queues
<1>9. Air'
  <2>1. ackFrom' \in [Node -> Address]
    BY <1>1 DEF IInv, Air
  <2> QED
    BY <1>1, <1>4, <2>1, AirStays
<1> QED
  BY <1>4, <1>6, <1>7, <1>8, <1>9 DEF IInv

\* The three ways in which a packet waits leave the same table.
LEMMA WaitsForRoute ==
  ASSUME IInv, NEW n \in Node, QueueTurn(n), sendFifo[n] # <<>>,
         routingTable' = [routingTable EXCEPT ![n] = getNextHop(@, Head(sendFifo[n]).dest)],
         pc' = [pc EXCEPT ![n] = "main"], UNCHANGED fwd, count'.packets = count.packets
  PROVE  Tables' /\ Calls'
<1> DEFINE t == getNextHop(routingTable[n], Head(sendFifo[n]).dest)
<1>1. pc[n] \in Idle /\ Head(sendFifo[n]).dest \in Node
  BY OldestToSend, QueueTurnIsIdle
<1>2. t \in Row /\ SettledRow(t)
  BY <1>1, RowIsSettled, GetNextHop
<1>3. routingTable' = [routingTable EXCEPT ![n] = t] /\ "main" \in Idle
  BY DEF Idle
<1> HIDE DEF t
<1> QED
  BY <1>2, <1>3, StaysIdle

LEMMA AwaitRouteStep == ASSUME IInv, NEW n \in Node, AwaitRoute(n) PROVE IInv'
<1>1. /\ QueueTurn(n) /\ sendFifo[n] # <<>>
      /\ routingTable' = [routingTable EXCEPT ![n] = getNextHop(@, Head(sendFifo[n]).dest)]
      /\ pc' = [pc EXCEPT ![n] = "main"]
      /\ UNCHANGED <<rrqProgress, recentRRQ, sendFifo, receiveFifo, RXFIFO, ackFrom, fwd, delivered, count>>
  BY DEF AwaitRoute
<1>2. Tables' /\ Calls'
  BY <1>1, WaitsForRoute
<1>3. Air'
  <2>1. ackFrom' \in [Node -> Address]
    BY <1>1 DEF IInv, Air
  <2> QED
    BY <1>1, <2>1, AirStays
<1> QED
  BY <1>1, <1>2, <1>3, RequestsStay, QueuesStay DEF IInv, Counts

LEMMA AskNoMoreStep == ASSUME IInv, NEW n \in Node, AskNoMore(n) PROVE IInv'
<1>1. /\ QueueTurn(n) /\ sendFifo[n] # <<>>
      /\ routingTable' = [routingTable EXCEPT ![n] = getNextHop(@, Head(sendFifo[n]).dest)]
      /\ rrqProgress' = [rrqProgress EXCEPT ![n].active = FALSE]
      /\ count' = [count EXCEPT !.early = @ + Expired(n, FALSE)]
      /\ pc' = [pc EXCEPT ![n] = "main"]
      /\ UNCHANGED <<recentRRQ, sendFifo, receiveFifo, RXFIFO, ackFrom, fwd, delivered>>
  BY DEF AskNoMore
<1>2. Counts' /\ count'.packets = count.packets
  <2>1. count' = [count EXCEPT !.early = @ + Expired(n, FALSE)]
    BY <1>1
  <2> QED
    BY <2>1, ExpiredIsCounted, Counted DEF IInv
<1>3. Tables' /\ Calls'
  BY <1>1, <1>2, WaitsForRoute
<1>4. Requests'
  BY <1>1 DEF IInv, Requests
<1>5. Air'
  <2>1. ackFrom' \in [Node -> Address]
    BY <1>1 DEF IInv, Air
  <2> QED
    BY <1>1, <1>2, <2>1, AirStays
<1> QED
  BY <1>1, <1>2, <1>3, <1>4, <1>5, QueuesStay DEF IInv

\* A new request starts a path.
LEMMA RequestIsSound ==
  ASSUME NEW k, NEW n \in Node, NEW d \in Node, NEW id \in RrqId,
         NEW p, p = [type |-> "RRQ", source |-> n, dest |-> d, id |-> id,
                     hopcount |-> 0, nodes |-> <<>>]
  PROVE  /\ [sender |-> n, target |-> Broadcast, packet |-> p] \in Frame
         /\ \A m \in Neighbours(n) : [sender |-> n, target |-> Broadcast, packet |-> p] \in Sound(k, m)
<1> DEFINE r == [sender |-> n, target |-> Broadcast, packet |-> p]
<1>1. id \in Nat
  BY RrqIdAssumption
<1>2. <<>> \in Seq(Node) /\ Len(<<>>) = 0 /\ p.nodes = <<>> /\ p.hopcount = 0
  BY EmptySeq
<1>3. p \in Packet
  BY <1>1, <1>2 DEF Packet
<1>4. p \in Carried(k) /\ r \in Frame
  BY <1>3 DEF Carried, Frame
<1>5. ASSUME NEW m \in Neighbours(n) PROVE r \in Sound(k, m)
  <2>1. m \in Node /\ <<n, m>> \in Link
    BY DEF Neighbours
  <2> DEFINE s == <<n>> \o <<>>
  <2>2. s \in Seq(Node) /\ s # <<>> /\ Len(s) = 1 /\ s[1] = n
    BY <1>2, Listed
  <2>3. Path(s)
    BY PathAlone
  <2> HIDE DEF s
  <2>4. Path(s \o <<m>>)
    BY <2>1, <2>2, <2>3, PathExtend
  <2>5. Tracks(p, n, m)
    BY <1>2, <2>2, <2>4 DEF Tracks, s
  <2> QED
    BY <1>4, <2>1, <2>5 DEF Sound
<1> QED
  BY <1>4, <1>5

LEMMA RequestRouteStep == ASSUME IInv, NEW n \in Node, RequestRoute(n) PROVE IInv'
<1> DEFINE d == Head(sendFifo[n]).dest
           p(id) == [type |-> "RRQ", source |-> n, dest |-> d, id |-> id, hopcount |-> 0, nodes |-> <<>>]
           q(id) == [sender |-> n, target |-> Broadcast, packet |-> p(id)]
<1>1. /\ QueueTurn(n) /\ sendFifo[n] # <<>>
      /\ routingTable' = [routingTable EXCEPT ![n] = getNextHop(@, d)]
      /\ rrqProgress' = [rrqProgress EXCEPT ![n] = [dest |-> d, active |-> TRUE, resolved |-> FALSE]]
      /\ pc' = [pc EXCEPT ![n] = "main"]
      /\ UNCHANGED <<sendFifo, receiveFifo, ackFrom, fwd, delivered>>
  BY DEF RequestRoute
<1>2. PICK id \in RrqId, r \in Audience(n) :
           /\ recentRRQ' = [recentRRQ EXCEPT ![n] = logRecentRRQ(@, id)]
           /\ RXFIFO' = Heard(RXFIFO, r, q(id))
           /\ count' = [count EXCEPT !.requests = @ + 1,
                                     !.lost = @ + Cardinality(Neighbours(n) \ r),
                                     !.early = @ + Expired(n, FALSE)]
  BY DEF RequestRoute
<1>3. d \in Node /\ r \in SUBSET Neighbours(n)
  BY <1>1, OldestToSend DEF Audience
<1>4. /\ q(id) \in Frame
      /\ \A m \in r : m \in Node => q(id) \in Sound(count.packets, m)
  BY <1>3, RequestIsSound
<1> HIDE DEF d, q
<1>5. Counts' /\ count'.packets = count.packets
  <2>1. Cardinality(Neighbours(n) \ r) \in Nat /\ Expired(n, FALSE) \in Nat
    BY <1>3, LostIsCounted, ExpiredIsCounted
  <2>2. count' = [count EXCEPT !.requests = @ + 1,
                               !.lost = @ + Cardinality(Neighbours(n) \ r),
                               !.early = @ + Expired(n, FALSE)]
    BY <1>2
  <2> QED
    BY <2>1, <2>2, Counted DEF IInv
<1>6. Tables' /\ Calls'
  <2>1. /\ routingTable' = [routingTable EXCEPT ![n] = getNextHop(@, Head(sendFifo[n]).dest)]
        /\ UNCHANGED fwd
    BY <1>1 DEF d
  <2> QED
    BY <1>1, <1>5, <2>1, WaitsForRoute
<1>7. Requests'
  <2>1. /\ recentRRQ \in [Node -> Seq(RrqId)]
        /\ rrqProgress \in [Node -> [dest : Address, active : BOOLEAN, resolved : BOOLEAN]]
    BY DEF IInv, Requests
  <2>2. logRecentRRQ(recentRRQ[n], id) \in Seq(RrqId)
    BY <2>1, LogKeepsType
  <2>3. recentRRQ' \in [Node -> Seq(RrqId)]
    BY <1>2, <2>1, <2>2
  <2>4. rrqProgress' \in [Node -> [dest : Address, active : BOOLEAN, resolved : BOOLEAN]]
    BY <1>1, <1>3, <2>1 DEF Address
  <2> QED
    BY <2>3, <2>4 DEF Requests
<1>8. Air'
  <2>1. /\ RXFIFO \in [Node -> Seq(Frame)] /\ ackFrom \in [Node -> Address]
        /\ \A m \in Node : RXFIFO[m] \in Seq(Sound(count.packets, m))
    BY DEF IInv, Air
  <2>2. /\ RXFIFO' \in [Node -> Seq(Frame)]
        /\ \A m \in Node : RXFIFO'[m] \in Seq(Sound(count.packets, m))
    BY <1>2, <1>4, <2>1, HeardIsSound
  <2> QED
    BY <1>1, <1>5, <2>1, <2>2 DEF Air
<1> QED
  BY <1>1, <1>5, <1>6, <1>7, <1>8, QueuesStay DEF IInv

LEMMA ProcessSendQueueStep == ASSUME IInv, NEW n \in Node, processSendQueue(n) PROVE IInv'
BY SendQueuedStep, AwaitRouteStep, RequestRouteStep, AskNoMoreStep DEF processSendQueue

-----------------------------------------------------------------------------
(* The main loop, the power switch, and all of it. *)

LEMMA QueueStep == ASSUME IInv, NEW n \in Node, NEW d \in Node, Queue(n, d) PROVE IInv'
<1> DEFINE k == count.packets
           p == [type |-> "CONTENT", source |-> n, dest |-> d, id |-> k + 1, hopcount |-> 0, nodes |-> <<>>]
<1>1. /\ <<n, d>> \in Traffic
      /\ sendFifo' = [sendFifo EXCEPT ![n] = Append(@, p)]
      /\ count' = [count EXCEPT !.packets = @ + 1]
      /\ UNCHANGED <<routingTable, rrqProgress, recentRRQ, receiveFifo, RXFIFO, ackFrom, pc, fwd, delivered>>
  BY DEF Queue
<1>2. Counts' /\ k \in Nat /\ count'.packets = k + 1 /\ k + 1 \in Nat /\ k + 1 \in 1 .. k + 1
  BY <1>1 DEF IInv, Counts
<1>3. p \in Content(k + 1)
  <2>1. <<>> \in Seq(Node)
    BY EmptySeq
  <2>2. p \in Packet
    BY <1>2, <2>1 DEF Packet
  <2> QED
    BY <1>1, <1>2, <2>2 DEF Content, Carried
<1> HIDE DEF p, k
<1>4. \A m \in Node : /\ Content(k) \subseteq Content(k + 1) /\ ContentFor(k, m) \subseteq ContentFor(k + 1, m)
                      /\ Sound(k, m) \subseteq Sound(k + 1, m) /\ Callable(k, m) \subseteq Callable(k + 1, m)
  BY <1>2, MoreQueued
<1>5. \A m \in Node : /\ Seq(Content(k)) \subseteq Seq(Content(k + 1))
                      /\ Seq(ContentFor(k, m)) \subseteq Seq(ContentFor(k + 1, m))
                      /\ Seq(Sound(k, m)) \subseteq Seq(Sound(k + 1, m))
  BY <1>4, SeqMonotonic
<1>6. Queues'
  <2>1. sendFifo \in [Node -> Seq(Content(k))]
    BY DEF IInv, Queues, k
  <2>2. sendFifo \in [Node -> Seq(Content(k + 1))]
    BY <1>5, <2>1
  <2>3. Append(sendFifo[n], p) \in Seq(Content(k + 1))
    BY <1>3, <2>2, AppendProperties
  <2>4. sendFifo' \in [Node -> Seq(Content(k + 1))]
    BY <1>1, <2>2, <2>3
  <2>5. /\ receiveFifo \in [Node -> Seq(Packet)] /\ delivered \in [Node -> SUBSET Packet]
        /\ \A m \in Node : receiveFifo[m] \in Seq(ContentFor(k, m)) /\ delivered[m] \subseteq ContentFor(k, m)
    BY DEF IInv, Queues, k
  <2>6. \A m \in Node : /\ receiveFifo[m] \in Seq(ContentFor(k + 1, m))
                        /\ delivered[m] \subseteq ContentFor(k + 1, m)
    BY <1>4, <1>5, <2>5
  <2> QED
    BY <1>1, <1>2, <2>4, <2>5, <2>6 DEF Queues
<1>7. Air'
  <2>1. /\ RXFIFO \in [Node -> Seq(Frame)] /\ ackFrom \in [Node -> Address]
        /\ \A m \in Node : RXFIFO[m] \in Seq(Sound(k, m))
    BY DEF IInv, Air, k
  <2>2. \A m \in Node : RXFIFO[m] \in Seq(Sound(k + 1, m))
    BY <1>5, <2>1
  <2> QED
    BY <1>1, <1>2, <2>1, <2>2 DEF Air
<1>8. Calls'
  <2>1. /\ pc \in [Node -> {"main", "receive", "send", "wait"}] /\ fwd \in [Node -> Call]
        /\ \A m \in Node : pc[m] \in Blocked => fwd[m] \in Callable(k, m)
    BY DEF IInv, Calls, k
  <2> QED
    BY <1>1, <1>2, <1>4, <2>1 DEF Calls
<1>9. Tables' /\ Requests'
  BY <1>1, RequestsStay DEF IInv, Tables
<1> QED
  BY <1>2, <1>6, <1>7, <1>8, <1>9 DEF IInv

LEMMA ReadStep == ASSUME IInv, NEW n \in Node, Read(n) PROVE IInv'
<1>1. /\ receiveFifo[n] # <<>>
      /\ delivered' = [delivered EXCEPT ![n] = @ \cup {Head(receiveFifo[n])}]
      /\ receiveFifo' = [receiveFifo EXCEPT ![n] = Tail(@)]
      /\ UNCHANGED <<routingTable, rrqProgress, recentRRQ, sendFifo, RXFIFO, ackFrom, pc, fwd, count>>
  BY DEF Read
<1>2. Queues'
  <2> DEFINE k == count.packets
  <2>1. /\ receiveFifo \in [Node -> Seq(Packet)] /\ delivered \in [Node -> SUBSET Packet]
        /\ \A m \in Node : receiveFifo[m] \in Seq(ContentFor(k, m)) /\ delivered[m] \subseteq ContentFor(k, m)
    BY DEF IInv, Queues
  <2> HIDE DEF k
  <2>2. /\ Head(receiveFifo[n]) \in ContentFor(k, n) /\ Head(receiveFifo[n]) \in Packet
        /\ Tail(receiveFifo[n]) \in Seq(ContentFor(k, n)) /\ Tail(receiveFifo[n]) \in Seq(Packet)
    BY <1>1, <2>1, HeadTailProperties
  <2>3. /\ receiveFifo' \in [Node -> Seq(Packet)]
        /\ \A m \in Node : receiveFifo'[m] \in Seq(ContentFor(k, m))
    BY <1>1, <2>1, <2>2, Zenon
  <2>4. /\ delivered' \in [Node -> SUBSET Packet]
        /\ \A m \in Node : delivered'[m] \subseteq ContentFor(k, m)
    BY <1>1, <2>1, <2>2
  <2> QED
    BY <1>1, <2>3, <2>4 DEF IInv, Queues, k
<1> QED
  BY <1>1, <1>2, RequestsStay DEF IInv, Tables, Air, Calls, Counts

LEMMA RestartStep == ASSUME IInv, NEW n \in Node, Restart(n) PROVE IInv'
<1>1. /\ routingTable' = [routingTable EXCEPT ![n] = [d \in Node |-> NoEntry]]
      /\ rrqProgress' = [rrqProgress EXCEPT ![n] = NoRequest]
      /\ recentRRQ' = [recentRRQ EXCEPT ![n] = <<>>]
      /\ sendFifo' = [sendFifo EXCEPT ![n] = <<>>]
      /\ receiveFifo' = [receiveFifo EXCEPT ![n] = <<>>]
      /\ RXFIFO' = [RXFIFO EXCEPT ![n] = <<>>]
      /\ ackFrom' = [ackFrom EXCEPT ![n] = NoNode]
      /\ pc' = [pc EXCEPT ![n] = "main"]
      /\ fwd' = [fwd EXCEPT ![n] = NoCall]
      /\ count' = [count EXCEPT !.restarts = @ + 1]
      /\ UNCHANGED delivered
  BY DEF Restart
<1>2. Counts' /\ count'.packets = count.packets
  BY <1>1 DEF IInv, Counts
<1>3. \A S : <<>> \in Seq(S)
  BY EmptySeq
<1>4. Tables' /\ Calls'
  <2> DEFINE t == [d \in Node |-> NoEntry]
  <2>1. t \in Row /\ SettledRow(t)
    BY BoundAssumption DEF Row, SettledRow, Entry, NoEntry, Address
  <2>2. "main" \in Idle
    BY DEF Idle
  <2> HIDE DEF t
  <2>3. routingTable' = [routingTable EXCEPT ![n] = t]
    BY <1>1 DEF t
  <2> QED
    BY <1>1, <1>2, <2>1, <2>2, <2>3, StaysIdle
<1>5. Requests'
  <2>1. NoRequest \in [dest : Address, active : BOOLEAN, resolved : BOOLEAN]
    BY DEF NoRequest, Address
  <2> QED
    BY <1>1, <1>3, <2>1 DEF IInv, Requests
<1>6. Queues'
  <2> DEFINE k == count.packets
  <2>1. /\ sendFifo \in [Node -> Seq(Content(k))] /\ receiveFifo \in [Node -> Seq(Packet)]
        /\ \A m \in Node : receiveFifo[m] \in Seq(ContentFor(k, m))
    BY DEF IInv, Queues
  <2> HIDE DEF k
  <2>2. /\ sendFifo' \in [Node -> Seq(Content(k))] /\ receiveFifo' \in [Node -> Seq(Packet)]
        /\ \A m \in Node : receiveFifo'[m] \in Seq(ContentFor(k, m))
    BY <1>1, <1>3, <2>1
  <2> QED
    BY <1>1, <1>2, <2>2 DEF IInv, Queues, k
<1>7. Air'
  <2> DEFINE k == count.packets
  <2>1. /\ RXFIFO \in [Node -> Seq(Frame)] /\ ackFrom \in [Node -> Address]
        /\ \A m \in Node : RXFIFO[m] \in Seq(Sound(k, m))
    BY DEF IInv, Air
  <2> HIDE DEF k
  <2>2. /\ RXFIFO' \in [Node -> Seq(Frame)] /\ ackFrom' \in [Node -> Address]
        /\ \A m \in Node : RXFIFO'[m] \in Seq(Sound(k, m))
    BY <1>1, <1>3, <2>1 DEF Address
  <2> QED
    BY <1>2, <2>2 DEF Air, k
<1> QED
  BY <1>2, <1>4, <1>5, <1>6, <1>7 DEF IInv

LEMMA InitIInv == Init => IInv
<1> SUFFICES ASSUME Init PROVE IInv
  OBVIOUS
<1>1. \A S : <<>> \in Seq(S)
  BY EmptySeq
<1>2. NoNode \in Address /\ 0 \in {0, MAX_ACK_FAILURES}
  BY DEF Address
<1>3. Tables
  <2>1. NoEntry \in Entry /\ NoEntry.failures = 0
    BY BoundAssumption DEF NoEntry, Entry, Address
  <2>2. \A n \in Node : pc[n] \notin Blocked
    BY DEF Init, Blocked
  <2> QED
    BY <2>1, <2>2 DEF Init, Tables, SettledEntry
<1>4. Requests
  <2>1. NoRequest \in [dest : Address, active : BOOLEAN, resolved : BOOLEAN]
    BY DEF NoRequest, Address
  <2> QED
    BY <1>1, <2>1 DEF Init, Requests
<1>5. Queues /\ Air
  BY <1>1, <1>2 DEF Init, Queues, Air
<1>6. Calls
  BY NoCallIsCall DEF Init, Calls, Blocked
<1>7. Counts
  BY DEF Init, Counts
<1> QED
  BY <1>3, <1>4, <1>5, <1>6, <1>7 DEF IInv

LEMMA IInvIsInductive == IInv /\ [Next]_vars => IInv'
<1> SUFFICES ASSUME IInv, [Next]_vars PROVE IInv'
  OBVIOUS
<1>1. CASE UNCHANGED vars
  BY <1>1 DEF vars, IInv, Tables, Requests, Queues, Air, Calls, Counts
<1>2. CASE Next
  <2>1. PICK n \in Node : \/ do_routing(n)
                          \/ \E d \in Node : Queue(n, d)
                          \/ Read(n)
                          \/ Restart(n)
    BY <1>2 DEF Next
  <2>2. CASE do_routing(n)
    BY <2>2, HandleReceivedStep, ForwardStep, ProcessSendQueueStep DEF do_routing
  <2> QED
    BY <2>1, <2>2, QueueStep, ReadStep, RestartStep
<1> QED
  BY <1>1, <1>2

LEMMA IInvAlways == Spec => []IInv
BY InitIInv, IInvIsInductive, PTL DEF Spec

-----------------------------------------------------------------------------
(* Who the next hops are. *)

\* A route to another node leads to a node that this one hears.
HeardRow(t, n) == \A d \in Node \ {n} : t[d].nextHop # NoNode => <<t[d].nextHop, n>> \in Link
NextHopsAreHeard == \A n \in Node : HeardRow(routingTable[n], n)

LEMMA RowIsHeard ==
  ASSUME IInv, NextHopsAreHeard, NEW n \in Node, NEW t,
         routingTable' = [routingTable EXCEPT ![n] = t], HeardRow(t, n)
  PROVE  NextHopsAreHeard'
BY DEF IInv, Tables, NextHopsAreHeard, HeardRow

\* The actions that take no next hop from the air.
HopsKept(n) ==
  \E t : /\ routingTable' = [routingTable EXCEPT ![n] = t]
         /\ \A d \in Node : t[d].nextHop \in {routingTable[n][d].nextHop, NoNode}

LEMMA UnchangedKeepsHops == ASSUME IInv, NEW n \in Node, UNCHANGED routingTable PROVE HopsKept(n)
<1>1. routingTable' = [routingTable EXCEPT ![n] = routingTable[n]]
  BY DEF IInv, Tables
<1> QED
  BY <1>1 DEF HopsKept

LEMMA HopsStay ==
  ASSUME IInv, NextHopsAreHeard, NEW n \in Node, HopsKept(n)
  PROVE  NextHopsAreHeard'
<1>1. PICK t : /\ routingTable' = [routingTable EXCEPT ![n] = t]
               /\ \A d \in Node : t[d].nextHop \in {routingTable[n][d].nextHop, NoNode}
  BY DEF HopsKept
<1>2. HeardRow(t, n)
  BY <1>1 DEF HeardRow, NextHopsAreHeard
<1> QED
  BY <1>1, <1>2, RowIsHeard

\* getNextHop takes a route away or leaves it.
LEMMA ClearedOrKept ==
  ASSUME NEW t \in Row, NEW d \in Node
  PROVE  \A c \in Node : getNextHop(t, d)[c].nextHop \in {t[c].nextHop, NoNode}
BY DEF getNextHop, invalidateEntry, NoEntry, Row

LEMMA AnswerIsHeard ==
  ASSUME IInv, NextHopsAreHeard, NEW n \in Node, AnswerRRQ(n) PROVE NextHopsAreHeard'
<1>1. /\ <<frame(n).sender, n>> \in Link
      /\ routingTable \in [Node -> Row]
  BY Received DEF AnswerRRQ, Sound, IInv, Tables, Row
<1>2. \/ UNCHANGED routingTable
      \/ routingTable' = [routingTable EXCEPT ![n][frame(n).packet.source] =
                                                [nextHop |-> frame(n).sender, failures |-> 0]]
  BY DEF AnswerRRQ, senderNodeId, frame
<1>3. CASE UNCHANGED routingTable
  BY <1>3 DEF NextHopsAreHeard
<1>4. CASE routingTable' = [routingTable EXCEPT ![n][frame(n).packet.source] =
                                                  [nextHop |-> frame(n).sender, failures |-> 0]]
  <2> DEFINE t == [routingTable[n] EXCEPT ![frame(n).packet.source] =
                                              [nextHop |-> frame(n).sender, failures |-> 0]]
  <2>1. routingTable' = [routingTable EXCEPT ![n] = t]
    BY <1>4
  <2>2. HeardRow(t, n)
    BY <1>1 DEF NextHopsAreHeard, HeardRow, Row
  <2> HIDE DEF t
  <2> QED
    BY <2>1, <2>2, RowIsHeard
<1> QED
  BY <1>2, <1>3, <1>4

LEMMA ResolveIsHeard ==
  ASSUME IInv, NextHopsAreHeard, NEW n \in Node, ResolveRUP(n) PROVE NextHopsAreHeard'
<1>1. /\ <<frame(n).sender, n>> \in Link
      /\ routingTable \in [Node -> Row]
  BY Received DEF ResolveRUP, Sound, IInv, Tables, Row
<1>2. routingTable' = [routingTable EXCEPT ![n][rrqProgress[n].dest].nextHop = frame(n).sender]
  BY DEF ResolveRUP, senderNodeId, frame
<1> QED
  BY <1>1, <1>2 DEF NextHopsAreHeard, HeardRow, Row, Entry

LEMMA PassIsHeard ==
  ASSUME IInv, NextHopsAreHeard, NEW n \in Node, PassRUP(n) PROVE NextHopsAreHeard'
<1> DEFINE q == frame(n)
           hop == nextOnStack(q.packet)
           t == [routingTable[n] EXCEPT ![q.packet.source] = [nextHop |-> q.sender, failures |-> 0],
                                        ![q.packet.dest] = [nextHop |-> hop, failures |-> 0]]
<1>1. Receiving(n, "RUP") /\ routingTable' = [routingTable EXCEPT ![n] = t]
  BY DEF PassRUP, senderNodeId, frame
<1>2. q \in Sound(count.packets, n) /\ q.packet.type = "RUP"
  BY <1>1, Received
<1>3. <<q.sender, n>> \in Link /\ ((hop = n /\ q.packet.dest = n) \/ <<hop, n>> \in Link)
  BY <1>2, PopIsSound DEF Sound
<1>4. routingTable \in [Node -> Row]
  BY DEF IInv, Tables, Row
<1> HIDE DEF q, hop
<1>5. HeardRow(t, n)
  BY <1>3, <1>4 DEF NextHopsAreHeard, HeardRow, Row
<1> HIDE DEF t
<1> QED
  BY <1>1, <1>5, RowIsHeard

LEMMA HandleFAILKeepsHops == ASSUME IInv, NEW n \in Node, HandleFAIL(n) PROVE HopsKept(n)
<1> DEFINE p == frame(n).packet
           t == [routingTable[n] EXCEPT ![p.source].nextHop = NoNode]
           u == IF p.dest = n THEN t ELSE getNextHop(t, p.dest)
<1>1. Receiving(n, "FAIL") /\ routingTable' = [routingTable EXCEPT ![n] = u]
  BY DEF HandleFAIL
<1>2. p.source \in Node /\ p.dest \in Node
  BY <1>1, Received DEF Frame, Packet
<1>3. routingTable[n] \in Row
  BY DEF IInv, Tables, Row
<1>4. t \in Row /\ \A d \in Node : t[d].nextHop \in {routingTable[n][d].nextHop, NoNode}
  BY <1>2, <1>3 DEF Row, Entry, Address
<1> HIDE DEF t
<1>5. \A d \in Node : u[d].nextHop \in {t[d].nextHop, NoNode}
  BY <1>2, <1>4, ClearedOrKept
<1> HIDE DEF u
<1> QED
  BY <1>1, <1>4, <1>5 DEF HopsKept

LEMMA PassContentKeepsHops == ASSUME IInv, NEW n \in Node, PassContent(n) PROVE HopsKept(n)
<1>1. /\ Receiving(n, "CONTENT")
      /\ routingTable' = [routingTable EXCEPT ![n] = getNextHop(@, frame(n).packet.dest)]
  BY DEF PassContent
<1>2. frame(n).packet.dest \in Node /\ routingTable[n] \in Row
  BY <1>1, Received DEF Frame, Packet, IInv, Tables, Row
<1> QED
  BY <1>1, <1>2, ClearedOrKept DEF HopsKept

LEMMA ForwardKeepsHops == ASSUME IInv, NEW n \in Node, forward(n) PROVE HopsKept(n)
<1>1. routingTable \in [Node -> Row]
  BY DEF IInv, Tables, Row
<1>2. \/ UNCHANGED routingTable
      \/ \E x : routingTable' = [routingTable EXCEPT ![n][fwd[n].entry].failures = x]
  BY DEF forward, SendFrame, Acked, Retry, GiveUp, Succeeded, Failed
<1>3. CASE UNCHANGED routingTable
  BY <1>3, UnchangedKeepsHops
<1>4. ASSUME NEW x, routingTable' = [routingTable EXCEPT ![n][fwd[n].entry].failures = x]
      PROVE  HopsKept(n)
  <2> DEFINE t == [routingTable[n] EXCEPT ![fwd[n].entry].failures = x]
  <2>1. routingTable' = [routingTable EXCEPT ![n] = t]
    BY <1>4
  <2>2. \A d \in Node : t[d].nextHop \in {routingTable[n][d].nextHop, NoNode}
    BY <1>1 DEF Row, Entry
  <2> HIDE DEF t
  <2> QED
    BY <2>1, <2>2 DEF HopsKept
<1> QED
  BY <1>2, <1>3, <1>4

LEMMA SendQueueKeepsHops == ASSUME IInv, NEW n \in Node, processSendQueue(n) PROVE HopsKept(n)
<1>1. \/ UNCHANGED routingTable
      \/ /\ sendFifo[n] # <<>>
         /\ routingTable' = [routingTable EXCEPT ![n] = getNextHop(@, Head(sendFifo[n]).dest)]
  BY DEF processSendQueue, SendQueued, AwaitRoute, RequestRoute, AskNoMore
<1>2. CASE UNCHANGED routingTable
  BY <1>2, UnchangedKeepsHops
<1>3. CASE /\ sendFifo[n] # <<>>
           /\ routingTable' = [routingTable EXCEPT ![n] = getNextHop(@, Head(sendFifo[n]).dest)]
  <2>1. Head(sendFifo[n]).dest \in Node /\ routingTable[n] \in Row
    BY <1>3, OldestToSend DEF IInv, Tables, Row
  <2> QED
    BY <1>3, <2>1, ClearedOrKept DEF HopsKept
<1> QED
  BY <1>1, <1>2, <1>3

LEMMA RestartKeepsHops == ASSUME IInv, NEW n \in Node, Restart(n) PROVE HopsKept(n)
<1> DEFINE t == [d \in Node |-> NoEntry]
<1>1. routingTable' = [routingTable EXCEPT ![n] = t]
  BY DEF Restart
<1>2. \A d \in Node : t[d].nextHop \in {routingTable[n][d].nextHop, NoNode}
  BY DEF NoEntry
<1> HIDE DEF t
<1> QED
  BY <1>1, <1>2 DEF HopsKept

\* Only a request that is answered and a reply give routes.
LEMMA OthersKeepHops ==
  ASSUME IInv, NEW n \in Node,
         \/ RepeatedRRQ(n) \/ RebroadcastRRQ(n) \/ HandleFAIL(n) \/ StoreContent(n) \/ PassContent(n)
         \/ forward(n) \/ processSendQueue(n) \/ Read(n) \/ Restart(n)
         \/ \E d \in Node : Queue(n, d)
  PROVE  HopsKept(n)
<1>1. \/ RepeatedRRQ(n) \/ RebroadcastRRQ(n) \/ StoreContent(n) \/ Read(n)
      \/ \E d \in Node : Queue(n, d)
      => UNCHANGED routingTable
  BY DEF RepeatedRRQ, RebroadcastRRQ, StoreContent, Read, Queue
<1> QED
  BY <1>1, UnchangedKeepsHops, HandleFAILKeepsHops, PassContentKeepsHops, ForwardKeepsHops,
     SendQueueKeepsHops, RestartKeepsHops

LEMMA NextHopsStayHeard == IInv /\ NextHopsAreHeard /\ [Next]_vars => NextHopsAreHeard'
<1> SUFFICES ASSUME IInv, NextHopsAreHeard, [Next]_vars PROVE NextHopsAreHeard'
  OBVIOUS
<1>1. CASE UNCHANGED routingTable
  BY <1>1 DEF NextHopsAreHeard
<1>2. CASE Next
  <2>1. PICK n \in Node : \/ do_routing(n)
                          \/ \E d \in Node : Queue(n, d)
                          \/ Read(n)
                          \/ Restart(n)
    BY <1>2 DEF Next
  <2>2. CASE AnswerRRQ(n) \/ ResolveRUP(n) \/ PassRUP(n)
    BY <2>2, AnswerIsHeard, ResolveIsHeard, PassIsHeard
  <2>3. CASE ~(AnswerRRQ(n) \/ ResolveRUP(n) \/ PassRUP(n))
    <3>1. HopsKept(n)
      BY <2>1, <2>3, OthersKeepHops DEF do_routing, handleReceived
    <3> QED
      BY <3>1, HopsStay
  <2> QED
    BY <2>2, <2>3
<1> QED
  BY <1>1, <1>2 DEF vars

\* Routes are learned from who was heard, on a network with one-way links too: a
\* node asks, answers and replies along frames it received.
THEOREM RoutesAreHeard == Spec => []NextHopsAreHeard
<1>1. Init => NextHopsAreHeard
  BY DEF Init, NextHopsAreHeard, HeardRow, NoEntry
<1> QED
  BY <1>1, IInvAlways, NextHopsStayHeard, PTL DEF Spec

-----------------------------------------------------------------------------
(* What follows. *)

\* Where all links go both ways, every route in a table leads to a node in reach.
THEOREM RoutesLeadToNeighbours ==
  ASSUME \A n, m \in Node : <<n, m>> \in Link => <<m, n>> \in Link
  PROVE  Spec => []RoutesAreNeighbours
<1>1. IInv /\ NextHopsAreHeard => RoutesAreNeighbours
  <2> SUFFICES ASSUME IInv, NextHopsAreHeard, NEW n \in Node, NEW d \in Node, n # d,
                      routingTable[n][d].nextHop # NoNode
               PROVE  routingTable[n][d].nextHop \in Neighbours(n)
    BY DEF RoutesAreNeighbours
  <2>1. <<routingTable[n][d].nextHop, n>> \in Link
    BY DEF NextHopsAreHeard, HeardRow
  <2> QED
    BY <2>1, LinkAssumption DEF Neighbours
<1> QED
  BY <1>1, IInvAlways, RoutesAreHeard, PTL

\* The tables, queues, frames and calls keep their shape; the failures of an entry
\* and the hopcount of a packet never leave their bytes.
THEOREM TypeCorrect == Spec => []TypeOK
<1>1. IInv => TypeOK
  <2> SUFFICES ASSUME IInv PROVE TypeOK
    OBVIOUS
  <2>1. routingTable \in [Node -> [Node -> [nextHop : Address, failures : 0..255]]]
    <3>1. Entry \subseteq [nextHop : Address, failures : 0..255]
      BY BoundAssumption DEF Entry
    <3>2. routingTable \in [Node -> [Node -> Entry]]
      BY DEF IInv, Tables
    <3> QED
      BY <3>1, <3>2
  <2>2. sendFifo \in [Node -> Seq(Packet)]
    <3>1. Content(count.packets) \subseteq Packet /\ sendFifo \in [Node -> Seq(Content(count.packets))]
      BY DEF Content, Carried, IInv, Queues
    <3>2. \A n \in Node : sendFifo[n] \in Seq(Packet)
      BY <3>1, SeqMonotonic
    <3> QED
      BY <3>1, <3>2
  <2> QED
    BY <2>1, <2>2 DEF TypeOK, IInv, Requests, Queues, Air, Calls, Counts, Call
<1> QED
  BY <1>1, IInvAlways, PTL

LEMMA HeldIsSound == ASSUME IInv, NEW h \in Held PROVE h[2] \in Sound(count.packets, h[1])
<1>1. PICK n \in Node : \E i \in DOMAIN RXFIFO[n] : h = <<n, RXFIFO[n][i]>>
  BY DEF Held
<1>2. RXFIFO[n] \in Seq(Sound(count.packets, n))
  BY DEF IInv, Air
<1>3. \A i \in DOMAIN RXFIFO[n] : RXFIFO[n][i] \in Sound(count.packets, n)
  BY <1>2, LenProperties, ElementOfSeq
<1> QED
  BY <1>1, <1>3

\* A route reply finds the node that handles it on top of its stack, on every
\* network and however requests, replies, losses and restarts mix.
THEOREM RepliesFollowTheirStack == Spec => []HopStackSound
<1>1. IInv => HopStackSound
  BY HeldIsSound DEF HopStackSound, Sound, Stacked
<1> QED
  BY <1>1, IInvAlways, PTL

\* The list of a request is the path it took.
THEOREM RequestsTrackTheirPath == Spec => []RequestTracksPath
<1>1. IInv => RequestTracksPath
  BY HeldIsSound DEF RequestTracksPath, Sound, Tracks
<1> QED
  BY <1>1, IInvAlways, PTL

\* The failures of an entry are those of one packet, also when frames are handled,
\* routes replaced or nodes restarted between two calls of forward.
THEOREM FailuresAreSettled == Spec => []FailuresSettled
<1>1. IInv => FailuresSettled
  BY DEF IInv, Tables, SettledEntry, FailuresSettled, Blocked
<1> QED
  BY <1>1, IInvAlways, PTL

\* No main loop reads content that no host sent it, though full queues are
\* overwritten and replies and failures are made of packets received.
THEOREM ContentIsNeverInvented == Spec => []NothingInvented
<1>1. IInv => NothingInvented
  <2> SUFFICES ASSUME IInv, NEW d \in Node, NEW p \in delivered[d]
               PROVE  /\ p.type = "CONTENT" /\ p.dest = d
                      /\ <<p.source, d>> \in Traffic /\ p.id \in 1 .. count.packets
    BY DEF NothingInvented
  <2>1. p \in ContentFor(count.packets, d)
    BY DEF IInv, Queues
  <2> QED
    BY <2>1 DEF ContentFor, Content, Carried
<1> QED
  BY <1>1, IInvAlways, PTL

-----------------------------------------------------------------------------
(* FORCE_HOPS. *)

\* One node asks, and not for itself.
OneAsker == \A s, t \in Traffic : s[1] = t[1] /\ s[2] # s[1]

\* initiateRouteRequest logs the id of its request, so that a node does not take the
\* copies relayed back to it for another's: it still has the id when one comes.
KnowsOwnRequests ==
  \A h \in Held : LET p == h[2].packet
                  IN p.type = "RRQ" /\ p.source = h[1] => didRecentlyForwardRRQ(h[1], p.id)

\* A request, or a reply to one, of the node that asks, whose list has neither end
\* of the route; the last to send a reply is not the node it makes the route to.
Avoids(p)    == \A i \in 1 .. Len(p.nodes) : p.nodes[i] # p.source /\ p.nodes[i] # p.dest
Detours(p)   == <<p.source, p.dest>> \in Traffic /\ Avoids(p)
ComesBack(p) == <<p.dest, p.source>> \in Traffic /\ Avoids(p)
Forced(p, l) == /\ p.type = "RRQ" => Detours(p)
                /\ p.type = "RUP" => ComesBack(p) /\ (Len(p.nodes) = 0 => l # p.source)
ForcedFrame  == {q \in Frame : Forced(q.packet, q.sender)}
Own(n)       == {p \in Packet : p.source = n}

OwnQueues   == \A n \in Node : sendFifo[n] \in Seq(Own(n))
ForcedAir   == \A n \in Node : RXFIFO[n] \in Seq(ForcedFrame)
ForcedCalls == \A n \in Node : pc[n] \in Blocked => Forced(fwd[n].packet, n)
Rerouted    == \A t \in Traffic : routingTable[t[1]][t[2]].nextHop # t[2]

HInv == FORCE_HOPS => OwnQueues /\ ForcedAir /\ ForcedCalls /\ Rerouted

LEMMA PlainIsForced ==
  ASSUME NEW p, p.type \in {"CONTENT", "FAIL"}, NEW l PROVE Forced(p, l)
BY DEF Forced

LEMMA TrafficEnds ==
  ASSUME OneAsker, NEW o \in Node, NEW z \in Node, <<o, z>> \in Traffic
  PROVE  o # z /\ \A t \in Traffic : t[1] = o /\ t[2] # o /\ t[2] \in Node
<1>1. o # z /\ \A t \in Traffic : t[1] = o
  BY DEF OneAsker
<1>2. \A t \in Traffic : t[2] \in Node
  BY NetworkAssumption
<1> QED
  BY <1>1, <1>2 DEF OneAsker

LEMMA ForcedReceived ==
  ASSUME IInv, ForcedAir, NEW n \in Node, NEW type, Receiving(n, type)
  PROVE  /\ frame(n) \in ForcedFrame
         /\ \A m \in Node : Rest(n)[m] \in Seq(ForcedFrame)
<1>1. RXFIFO[n] # <<>> /\ RXFIFO[n] \in Seq(ForcedFrame) /\ RXFIFO \in [Node -> Seq(Frame)]
  BY DEF Receiving, ForcedAir, IInv, Air
<1>2. frame(n) \in ForcedFrame /\ Tail(RXFIFO[n]) \in Seq(ForcedFrame)
  BY <1>1, HeadTailProperties DEF frame
<1> QED
  BY <1>1, <1>2 DEF Rest, ForcedAir

LEMMA ForcedHeard ==
  ASSUME NEW rx, \A m \in Node : rx[m] \in Seq(ForcedFrame), NEW r, NEW q \in ForcedFrame
  PROVE  \A m \in Node : Heard(rx, r, q)[m] \in Seq(ForcedFrame)
<1>1. \A m \in Node : Overwrite(rx[m], q) \in Seq(ForcedFrame)
  BY OverwriteInSeq
<1> QED
  BY <1>1, Zenon DEF Heard

LEMMA ForcedWhileIdle ==
  ASSUME IInv, ForcedCalls, NEW n \in Node, NEW x \in Idle, pc' = [pc EXCEPT ![n] = x],
         fwd' = fwd \/ fwd' = [fwd EXCEPT ![n] = NoCall]
  PROVE  ForcedCalls'
<1>1. pc \in [Node -> Idle \cup Blocked] /\ fwd \in [Node -> Call]
  BY DEF IInv, Calls, Idle, Blocked
<1>2. x \notin Blocked
  BY DEF Idle, Blocked
<1> QED
  BY <1>1, <1>2 DEF ForcedCalls

LEMMA ForcedForward ==
  ASSUME IInv, ForcedCalls, NEW n \in Node, NEW e, NEW hop, NEW p, NEW back, NEW f,
         Forward(n, e, hop, p, back, f), Forced(p, n)
  PROVE  ForcedCalls'
<1> DEFINE c == [entry |-> e, nextHop |-> hop, packet |-> p, retries |-> 0, back |-> back, failTo |-> f]
<1>1. pc \in [Node -> Idle \cup Blocked] /\ fwd \in [Node -> Call]
  BY DEF IInv, Calls, Idle, Blocked
<1>2. pc' = [pc EXCEPT ![n] = "send"] /\ fwd' = [fwd EXCEPT ![n] = c]
  BY DEF Forward
<1>3. c.packet = p
  OBVIOUS
<1> HIDE DEF c
<1>4. pc'[n] = "send" /\ fwd'[n].packet = p
  BY <1>1, <1>2, <1>3
<1>5. \A m \in Node \ {n} : pc'[m] = pc[m] /\ fwd'[m] = fwd[m]
  BY <1>1, <1>2
<1> QED
  BY <1>4, <1>5 DEF ForcedCalls

LEMMA KeptIsRerouted ==
  ASSUME IInv, Rerouted, NEW n \in Node, HopsKept(n)
  PROVE  Rerouted'
<1>1. PICK row : /\ routingTable' = [routingTable EXCEPT ![n] = row]
                 /\ \A d \in Node : row[d].nextHop \in {routingTable[n][d].nextHop, NoNode}
  BY DEF HopsKept
<1>2. routingTable \in [Node -> Row]
  BY DEF IInv, Tables, Row
<1>3. \A m, d \in Node : routingTable'[m][d].nextHop \in {routingTable[m][d].nextHop, NoNode}
  BY <1>1, <1>2
<1>4. ASSUME NEW t \in Traffic PROVE routingTable'[t[1]][t[2]].nextHop # t[2]
  <2>1. t[1] \in Node /\ t[2] \in Node
    BY NetworkAssumption
  <2> QED
    BY <1>3, <2>1, AddressAssumption DEF Rerouted
<1> QED
  BY <1>4 DEF Rerouted

\* A request that was relayed is answered along its relays, by a node that does not ask.
LEMMA AnswerForces ==
  ASSUME OneAsker, FORCE_HOPS, IInv, HInv, NEW n \in Node, AnswerRRQ(n)
  PROVE  HInv'
<1> DEFINE q == frame(n)
           o == q.packet.source
           p == [q.packet EXCEPT !.type = "RUP", !.source = q.packet.dest, !.dest = q.packet.source]
<1>1. /\ Receiving(n, "RRQ") /\ q.packet.dest = n /\ RXFIFO' = Rest(n) /\ UNCHANGED sendFifo
      /\ \/ Ignored(q.packet) /\ pc' = [pc EXCEPT ![n] = Resume(n, RXFIFO'[n])]
            /\ UNCHANGED <<routingTable, fwd>>
         \/ /\ ~Ignored(q.packet)
            /\ routingTable' = [routingTable EXCEPT ![n][o] = [nextHop |-> q.sender, failures |-> 0]]
            /\ Forward(n, NoNode, q.sender, p, "receive", NoNode)
  BY DEF AnswerRRQ, senderNodeId, frame
<1>2. /\ q \in Sound(count.packets, n) /\ q \in Frame /\ q.packet.type = "RRQ"
      /\ q \in ForcedFrame /\ \A m \in Node : Rest(n)[m] \in Seq(ForcedFrame)
  BY <1>1, Received, ForcedReceived DEF HInv
<1>3. q.packet \in Packet /\ o \in Node /\ Detours(q.packet)
  BY <1>2 DEF Frame, Packet, ForcedFrame, Forced
<1>4. o # n /\ \A t \in Traffic : t[1] = o
  BY <1>1, <1>3, TrafficEnds DEF Detours
<1>5. OwnQueues' /\ ForcedAir'
  BY <1>1, <1>2 DEF HInv, OwnQueues, ForcedAir
<1>6. CASE Ignored(q.packet)
  <2>1. pc' = [pc EXCEPT ![n] = Resume(n, RXFIFO'[n])] /\ UNCHANGED <<routingTable, fwd>>
    BY <1>1, <1>6
  <2>2. ForcedCalls' /\ Rerouted'
    BY <2>1, ResumeIsIdle, ForcedWhileIdle DEF HInv, Rerouted
  <2> QED
    BY <1>5, <2>2 DEF HInv
<1>7. CASE ~Ignored(q.packet)
  <2>1. /\ routingTable' = [routingTable EXCEPT ![n][o] = [nextHop |-> q.sender, failures |-> 0]]
        /\ Forward(n, NoNode, q.sender, p, "receive", NoNode)
    BY <1>1, <1>7
  <2>2. Len(q.packet.nodes) # 0
    BY <1>2, <1>7 DEF Ignored, Sound, Tracks
  <2>3. /\ p.type = "RUP" /\ p.source = n /\ p.dest = o /\ p.nodes = q.packet.nodes
    BY <1>1, <1>3 DEF Packet
  <2>4. ComesBack(p)
    BY <1>1, <1>3, <2>3 DEF ComesBack, Detours, Avoids
  <2>5. Forced(p, n)
    BY <2>2, <2>3, <2>4 DEF Forced
  <2> HIDE DEF p
  <2>6. ForcedCalls'
    BY <2>1, <2>5, ForcedForward DEF HInv
  <2>7. Rerouted'
    BY <1>4, <2>1 DEF HInv, Rerouted, IInv, Tables
  <2> QED
    BY <1>5, <2>6, <2>7 DEF HInv
<1> QED
  BY <1>6, <1>7

\* The node that asks does not send its own request on, nor does the one asked for.
LEMMA RebroadcastForces ==
  ASSUME OneAsker, FORCE_HOPS, KnowsOwnRequests, IInv, HInv, NEW n \in Node, RebroadcastRRQ(n)
  PROVE  HInv'
<1> DEFINE p == frame(n).packet
           q == [sender |-> n, target |-> Broadcast, packet |-> Relayed(p, n)]
<1>1. /\ Receiving(n, "RRQ") /\ ~didRecentlyForwardRRQ(n, p.id) /\ p.dest # n
      /\ pc' = [pc EXCEPT ![n] = Resume(n, RXFIFO'[n])]
      /\ UNCHANGED <<routingTable, sendFifo, fwd>>
      /\ \E r : RXFIFO' = Heard(Rest(n), r, q)
  BY DEF RebroadcastRRQ
<1>2. /\ frame(n) \in Sound(count.packets, n) /\ frame(n) \in Frame /\ p.type = "RRQ"
      /\ frame(n) \in ForcedFrame /\ \A m \in Node : Rest(n)[m] \in Seq(ForcedFrame)
  BY <1>1, Received, ForcedReceived DEF HInv
<1>3. p \in Packet /\ p.nodes \in Seq(Node) /\ Detours(p)
  BY <1>2 DEF Frame, Packet, ForcedFrame, Forced
<1>4. p.source # n
  <2>1. <<n, frame(n)>> \in Held
    <3>1. 1 \in DOMAIN RXFIFO[n] /\ RXFIFO[n][1] = frame(n)
      <4>1. RXFIFO[n] \in Seq(Frame) /\ RXFIFO[n] # <<>>
        BY <1>1 DEF Receiving, IInv, Air
      <4>2. Len(RXFIFO[n]) \in Nat /\ Len(RXFIFO[n]) # 0 /\ DOMAIN RXFIFO[n] = 1 .. Len(RXFIFO[n])
        BY <4>1, LenProperties, EmptySeq
      <4> QED
        BY <4>1, <4>2, HeadTailProperties DEF frame
    <3> QED
      BY <3>1 DEF Held
  <2> QED
    BY <1>1, <1>2, <2>1 DEF KnowsOwnRequests
<1>5. q \in ForcedFrame
  <2>1. q \in Frame /\ q.packet = Relayed(p, n) /\ q.sender = n
    BY <1>2, RelayIsSound
  <2>2. LET r == Relayed(p, n)
        IN r.type = "RRQ" /\ r.source = p.source /\ r.dest = p.dest /\ r.nodes = Append(p.nodes, n)
    BY <1>2, <1>3 DEF Relayed, Packet
  <2>3. Avoids(Relayed(p, n))
    <3>1. Avoids(p)
      BY <1>3 DEF Detours
    <3>2. Len(Append(p.nodes, n)) = Len(p.nodes) + 1 /\ Len(p.nodes) \in Nat
      BY <1>3, AppendProperties, LenProperties
    <3>3. \A i \in 1 .. Len(p.nodes) + 1 :
            Append(p.nodes, n)[i] = IF i = Len(p.nodes) + 1 THEN n ELSE p.nodes[i]
      BY <1>3, <3>2, AppendProperties
    <3>4. ASSUME NEW i \in 1 .. Len(p.nodes) + 1
          PROVE  Append(p.nodes, n)[i] # p.source /\ Append(p.nodes, n)[i] # p.dest
      <4>1. i = Len(p.nodes) + 1 \/ i \in 1 .. Len(p.nodes)
        BY <3>2
      <4> QED
        BY <1>1, <1>4, <3>1, <3>3, <4>1 DEF Avoids
    <3> QED
      BY <2>2, <3>2, <3>4 DEF Avoids
  <2>4. Detours(Relayed(p, n))
    BY <1>3, <2>2, <2>3 DEF Detours
  <2> HIDE DEF q
  <2>5. Forced(q.packet, q.sender)
    BY <2>1, <2>2, <2>4 DEF Forced
  <2> QED
    BY <2>1, <2>5 DEF ForcedFrame
<1> HIDE DEF q
<1>6. ForcedAir'
  BY <1>1, <1>2, <1>5, ForcedHeard DEF ForcedAir
<1>7. ForcedCalls'
  BY <1>1, ResumeIsIdle, ForcedWhileIdle DEF HInv
<1>8. OwnQueues' /\ Rerouted'
  BY <1>1 DEF HInv, OwnQueues, Rerouted
<1> QED
  BY <1>6, <1>7, <1>8 DEF HInv

\* The node that asks hears the answer from a relay.
LEMMA ResolveForces ==
  ASSUME OneAsker, IInv, HInv, FORCE_HOPS, NEW n \in Node, ResolveRUP(n)
  PROVE  HInv'
<1> DEFINE p == frame(n).packet
           l == frame(n).sender
<1>1. /\ Receiving(n, "RUP") /\ p.dest = n /\ rrqProgress[n].dest = p.source /\ RXFIFO' = Rest(n)
      /\ routingTable' = [routingTable EXCEPT ![n][p.source].nextHop = l]
      /\ pc' = [pc EXCEPT ![n] = Resume(n, RXFIFO'[n])]
      /\ UNCHANGED <<sendFifo, fwd>>
  BY DEF ResolveRUP, OwnRUP, senderNodeId, frame
<1>2. /\ frame(n) \in Sound(count.packets, n) /\ frame(n) \in Frame /\ p.type = "RUP"
      /\ frame(n) \in ForcedFrame /\ \A m \in Node : Rest(n)[m] \in Seq(ForcedFrame)
  BY <1>1, Received, ForcedReceived DEF HInv
<1>3. /\ p.source \in Node /\ p.nodes \in Seq(Node) /\ ComesBack(p) /\ Stacked(p, n)
      /\ Len(p.nodes) = 0 => l # p.source
  BY <1>2 DEF Frame, Packet, ForcedFrame, Forced, Sound
<1>4. l # p.source
  <2>1. Len(p.nodes) \in Nat /\ (p.nodes # <<>> => Len(p.nodes) # 0)
    BY <1>3, LenProperties, EmptySeq
  <2>2. p.nodes = <<>>
    BY <1>1, <1>3, <2>1 DEF Stacked, ComesBack, Avoids
  <2>3. Len(p.nodes) = 0
    BY <2>2, EmptySeq
  <2> QED
    BY <1>3, <2>3
<1>5. n # p.source /\ \A t \in Traffic : t[1] = n
  BY <1>1, <1>3, TrafficEnds DEF ComesBack
<1>6. p.source \in Node /\ routingTable' = [routingTable EXCEPT ![n][p.source].nextHop = l]
  BY <1>1, <1>3
<1> HIDE DEF p, l
<1>7. Rerouted'
  <2>1. \A d \in Node : routingTable'[n][d].nextHop = IF d = p.source THEN l ELSE routingTable[n][d].nextHop
    <3>1. routingTable \in [Node -> Row] /\ \A d \in Node : routingTable[n][d] \in Entry
      BY DEF IInv, Tables, Row
    <3> QED
      BY <1>6, <3>1 DEF Row, Entry
  <2>2. ASSUME NEW t \in Traffic PROVE routingTable'[t[1]][t[2]].nextHop # t[2]
    <3>1. t[1] = n /\ t[2] \in Node
      BY <1>5, NetworkAssumption
    <3> QED
      BY <1>4, <2>1, <3>1 DEF HInv, Rerouted
  <2> QED
    BY <2>2 DEF Rerouted
<1>8. ForcedCalls'
  BY <1>1, ResumeIsIdle, ForcedWhileIdle DEF HInv
<1>9. OwnQueues' /\ ForcedAir'
  BY <1>1, <1>2 DEF HInv, OwnQueues, ForcedAir
<1> QED
  BY <1>7, <1>8, <1>9 DEF HInv

\* A relay is neither end of the route, and the last of them is not the one asked for.
LEMMA PopForces ==
  ASSUME OneAsker, NEW n \in Node, NEW p \in Packet, p.type = "RUP", ComesBack(p), Stacked(p, n),
         NEW r, r = Popped(p)
  PROVE  Forced(r, n)
<1>1. /\ p.nodes \in Seq(Node) /\ p.source \in Node /\ p.dest \in Node
      /\ Len(p.nodes) \in Nat /\ (p.nodes # <<>> => Len(p.nodes) \in 1 .. Len(p.nodes))
  <2>1. p.nodes \in Seq(Node) /\ p.source \in Node /\ p.dest \in Node
    BY DEF Packet
  <2> QED
    BY <2>1, LenProperties, EmptySeq
<1>2. /\ r.type = "RUP" /\ r.source = p.source /\ r.dest = p.dest /\ r.nodes = ButLast(p.nodes)
  BY DEF Popped, ButLast, Packet
<1>3. Avoids(r)
  <2>1. CASE p.nodes = <<>>
    <3>1. r.nodes = <<>>
      BY <1>1, <1>2, <2>1, ListShrinks
    <3>2. Len(r.nodes) = 0
      BY <3>1, EmptySeq
    <3> QED
      BY <3>2 DEF Avoids
  <2>2. CASE p.nodes # <<>>
    <3>1. /\ ButLast(p.nodes) \in Seq(Node) /\ Len(ButLast(p.nodes)) = Len(p.nodes) - 1
          /\ p.nodes = Append(ButLast(p.nodes), p.nodes[Len(p.nodes)]) /\ p.nodes[Len(p.nodes)] \in Node
      BY <1>1, <2>2, ListShrinks
    <3>2. \A i \in 1 .. Len(p.nodes) - 1 : ButLast(p.nodes)[i] = p.nodes[i]
      BY <3>1, AppendProperties
    <3>3. \A i \in 1 .. Len(p.nodes) : p.nodes[i] # p.source /\ p.nodes[i] # p.dest
      BY DEF ComesBack, Avoids
    <3>4. \A i \in 1 .. Len(p.nodes) - 1 : ButLast(p.nodes)[i] # p.source /\ ButLast(p.nodes)[i] # p.dest
      BY <1>1, <3>2, <3>3
    <3> QED
      BY <1>2, <3>1, <3>4 DEF Avoids
  <2> QED
    BY <2>1, <2>2
<1>4. n # p.source
  <2>1. p.dest # p.source
    BY <1>1, TrafficEnds DEF ComesBack
  <2> QED
    BY <1>1, <2>1 DEF Stacked, ComesBack, Avoids
<1> QED
  BY <1>2, <1>3, <1>4 DEF Forced, ComesBack

LEMMA PassForces ==
  ASSUME OneAsker, FORCE_HOPS, IInv, HInv, NEW n \in Node, PassRUP(n)
  PROVE  HInv'
<1> DEFINE p == frame(n).packet
           l == frame(n).sender
           hop == nextOnStack(p)
           row == [routingTable[n] EXCEPT ![p.source] = [nextHop |-> l, failures |-> 0],
                                          ![p.dest] = [nextHop |-> hop, failures |-> 0]]
<1>1. /\ Receiving(n, "RUP") /\ RXFIFO' = Rest(n) /\ UNCHANGED sendFifo
      /\ routingTable' = [routingTable EXCEPT ![n] = row]
      /\ Forward(n, NoNode, hop, Popped(p), "receive", NoNode)
  BY DEF PassRUP, senderNodeId, frame
<1>2. /\ frame(n) \in Sound(count.packets, n) /\ frame(n) \in Frame /\ p.type = "RUP"
      /\ frame(n) \in ForcedFrame /\ \A m \in Node : Rest(n)[m] \in Seq(ForcedFrame)
  BY <1>1, Received, ForcedReceived DEF HInv
<1>3. /\ p \in Packet /\ p.source \in Node /\ p.dest \in Node /\ p.nodes \in Seq(Node)
      /\ ComesBack(p) /\ Stacked(p, n) /\ (Len(p.nodes) = 0 => l # p.source)
  BY <1>2 DEF Frame, Packet, ForcedFrame, Forced, Sound
<1>4. p.dest # p.source /\ \A t \in Traffic : t[1] = p.dest /\ t[2] # p.dest /\ t[2] \in Node
  BY <1>3, TrafficEnds DEF ComesBack
<1>5. ForcedCalls'
  <2>1. Forced(Popped(p), n)
    BY <1>2, <1>3, PopForces
  <2> QED
    BY <1>1, <2>1, ForcedForward DEF HInv
<1>6. n # p.dest => routingTable'[p.dest] = routingTable[p.dest]
  BY <1>1, <1>3 DEF IInv, Tables
<1>7. Rerouted'
  <2>1. routingTable \in [Node -> Row]
    BY DEF IInv, Tables, Row
  <2>2. CASE n # p.dest
    BY <1>4, <1>6, <2>1, <2>2 DEF HInv, Rerouted
  <2>3. CASE n = p.dest
    <3>1. Len(p.nodes) \in Nat /\ (p.nodes # <<>> => Len(p.nodes) # 0)
      BY <1>3, LenProperties, EmptySeq
    <3>2. p.nodes = <<>>
      BY <1>3, <2>3, <3>1 DEF Stacked, ComesBack, Avoids
    <3>3. l # p.source
      <4>1. Len(p.nodes) = 0
        BY <3>2, EmptySeq
      <4> QED
        BY <1>3, <4>1
    <3> HIDE DEF hop
    <3>4. \A d \in Node \ {p.dest} :
            routingTable'[n][d].nextHop = IF d = p.source THEN l ELSE routingTable[n][d].nextHop
      BY <1>1, <1>3, <2>1 DEF Row
    <3>5. ASSUME NEW t \in Traffic PROVE routingTable'[t[1]][t[2]].nextHop # t[2]
      BY <1>4, <2>3, <3>3, <3>4 DEF HInv, Rerouted
    <3> QED
      BY <3>5 DEF Rerouted
  <2> QED
    BY <2>2, <2>3
<1>8. OwnQueues' /\ ForcedAir'
  BY <1>1, <1>2 DEF HInv, OwnQueues, ForcedAir
<1> QED
  BY <1>5, <1>7, <1>8 DEF HInv

\* Of the other actions, those of forward and of the send queue.
LEMMA ForwardForces ==
  ASSUME FORCE_HOPS, IInv, HInv, NEW n \in Node, forward(n)
  PROVE  HInv'
<1>1. UNCHANGED sendFifo /\ OwnQueues'
  BY DEF forward, SendFrame, Acked, Retry, GiveUp, HInv, OwnQueues
<1>2. Rerouted'
  BY ForwardKeepsHops, KeptIsRerouted DEF HInv
<1>3. pc \in [Node -> Idle \cup Blocked] /\ fwd \in [Node -> Call]
  BY DEF IInv, Calls, Idle, Blocked
<1>4. CASE SendFrame(n)
  <2> DEFINE q == [sender |-> n, target |-> fwd[n].nextHop, packet |-> fwd[n].packet]
  <2>1. pc[n] \in Blocked /\ pc' = [pc EXCEPT ![n] = "wait"] /\ UNCHANGED fwd
    BY <1>4 DEF SendFrame, Blocked
  <2>2. Forced(fwd[n].packet, n)
    BY <2>1 DEF HInv, ForcedCalls
  <2>3. ForcedCalls'
    BY <1>3, <2>1, <2>2 DEF HInv, ForcedCalls
  <2>4. \/ UNCHANGED RXFIFO
        \/ fwd[n].nextHop \in Neighbours(n) /\ RXFIFO' = Heard(RXFIFO, {fwd[n].nextHop}, q)
    BY <1>4 DEF SendFrame
  <2>5. fwd[n].nextHop \in Neighbours(n) => q \in ForcedFrame
    <3>1. fwd[n].nextHop \in Neighbours(n) => q \in Frame
      BY <2>1 DEF IInv, Calls, Callable, Sound
    <3> QED
      BY <2>2, <3>1 DEF ForcedFrame
  <2> HIDE DEF q
  <2>6. ForcedAir'
    BY <2>4, <2>5, ForcedHeard DEF HInv, ForcedAir
  <2> QED
    BY <1>1, <1>2, <2>3, <2>6 DEF HInv
<1>5. CASE ~SendFrame(n)
  <2>1. ForcedAir'
    BY <1>5 DEF forward, Acked, Retry, GiveUp, HInv, ForcedAir
  <2>2. ForcedCalls'
    <3>1. CASE Return(n)
      <4>1. \E x \in Idle : pc' = [pc EXCEPT ![n] = x] /\ fwd' = [fwd EXCEPT ![n] = NoCall]
        BY <3>1, ResumeIsIdle DEF Return, Idle
      <4> QED
        BY <4>1, ForcedWhileIdle DEF HInv
    <3>2. CASE Forward(n, NoNode, fwd[n].failTo, FailPacket(fwd[n].packet), "receive", NoNode)
      <4>1. FailPacket(fwd[n].packet).type = "FAIL"
        BY DEF FailPacket
      <4>2. Forced(FailPacket(fwd[n].packet), n)
        BY <4>1, PlainIsForced
      <4> QED
        BY <3>2, <4>2, ForcedForward DEF HInv
    <3>3. CASE Retry(n)
      <4>1. /\ pc[n] \in Blocked /\ pc' = [pc EXCEPT ![n] = "send"]
            /\ fwd' = [fwd EXCEPT ![n].retries = @ + 1]
        BY <3>3 DEF Retry, TimeOut, Blocked
      <4>2. \A m \in Node : fwd'[m].packet = fwd[m].packet /\ (pc'[m] \in Blocked => pc[m] \in Blocked)
        BY <1>3, <4>1 DEF Call
      <4> QED
        BY <4>2 DEF HInv, ForcedCalls
    <3> QED
      BY <1>5, <3>1, <3>2, <3>3 DEF forward, Acked, GiveUp
  <2> QED
    BY <1>1, <1>2, <2>1, <2>2 DEF HInv
<1> QED
  BY <1>4, <1>5

LEMMA SendQueueForces ==
  ASSUME OneAsker, FORCE_HOPS, IInv, HInv, NEW n \in Node, processSendQueue(n)
  PROVE  HInv'
<1> DEFINE p == Head(sendFifo[n])
<1>1. sendFifo[n] # <<>> /\ sendFifo[n] \in Seq(Own(n)) /\ sendFifo[n] \in Seq(Content(count.packets))
  BY DEF processSendQueue, SendQueued, AwaitRoute, RequestRoute, AskNoMore, HInv, OwnQueues, IInv, Queues
<1>2. /\ p \in Own(n) /\ p \in Content(count.packets) /\ Tail(sendFifo[n]) \in Seq(Own(n))
  BY <1>1, HeadTailProperties
<1>3. p.source = n /\ p.type = "CONTENT" /\ <<n, p.dest>> \in Traffic /\ p.dest \in Node
  BY <1>2 DEF Own, Content, Carried, Packet
<1>4. Rerouted'
  BY SendQueueKeepsHops, KeptIsRerouted DEF HInv
<1>5. CASE SendQueued(n)
  <2>1. /\ sendFifo' = [sendFifo EXCEPT ![n] = Tail(@)] /\ UNCHANGED RXFIFO
        /\ Forward(n, p.dest, routingTable[n][p.dest].nextHop, p, "main", NoNode)
    BY <1>5 DEF SendQueued
  <2>2. OwnQueues'
    BY <1>2, <2>1 DEF HInv, OwnQueues, IInv, Queues
  <2>3. Forced(p, n)
    BY <1>3, PlainIsForced
  <2> HIDE DEF p
  <2>4. ForcedCalls'
    BY <2>1, <2>3, ForcedForward DEF HInv
  <2> QED
    BY <1>4, <2>1, <2>2, <2>4 DEF HInv, ForcedAir
<1>6. CASE ~SendQueued(n)
  <2>1. pc' = [pc EXCEPT ![n] = "main"] /\ UNCHANGED <<sendFifo, fwd>>
    BY <1>6 DEF processSendQueue, AwaitRoute, RequestRoute, AskNoMore
  <2>2. OwnQueues' /\ ForcedCalls'
    BY <2>1, ForcedWhileIdle DEF HInv, OwnQueues, Idle
  <2>3. ForcedAir'
    <3>1. CASE UNCHANGED RXFIFO
      BY <3>1 DEF HInv, ForcedAir
    <3>2. CASE RequestRoute(n)
      <4>1. PICK id \in RrqId : \E r :
               RXFIFO' = Heard(RXFIFO, r, [sender |-> n, target |-> Broadcast,
                                           packet |-> [type |-> "RRQ", source |-> n, dest |-> p.dest,
                                                       id |-> id, hopcount |-> 0, nodes |-> <<>>]])
        BY <3>2 DEF RequestRoute
      <4> DEFINE rrq == [type |-> "RRQ", source |-> n, dest |-> p.dest,
                         id |-> id, hopcount |-> 0, nodes |-> <<>>]
                 q   == [sender |-> n, target |-> Broadcast, packet |-> rrq]
      <4>2. rrq \in Packet
        <5>1. <<>> \in Seq(Node) /\ id \in Nat
          BY RrqIdAssumption
        <5> QED
          BY <1>3, <5>1 DEF Packet
      <4>3. rrq.type = "RRQ" /\ rrq.source = n /\ rrq.dest = p.dest /\ Len(rrq.nodes) = 0
        BY EmptySeq
      <4> HIDE DEF rrq
      <4>4. Forced(rrq, n)
        BY <1>3, <4>3 DEF Forced, Detours, Avoids
      <4>5. q \in ForcedFrame
        BY <4>2, <4>4 DEF ForcedFrame, Frame
      <4>6. PICK r : RXFIFO' = Heard(RXFIFO, r, q)
        BY <4>1 DEF rrq
      <4> HIDE DEF q
      <4> QED
        BY <4>5, <4>6, ForcedHeard DEF HInv, ForcedAir
    <3> QED
      BY <1>6, <3>1, <3>2 DEF processSendQueue, AwaitRoute, AskNoMore
  <2> QED
    BY <1>4, <2>2, <2>3 DEF HInv
<1> QED
  BY <1>5, <1>6

\* The frames that give no route: a request seen before, a FAIL, and content.
LEMMA FrameForces ==
  ASSUME FORCE_HOPS, IInv, HInv, NEW n \in Node,
         RepeatedRRQ(n) \/ HandleFAIL(n) \/ StoreContent(n) \/ PassContent(n)
  PROVE  HInv'
<1> DEFINE p == frame(n).packet
<1>1. \E type : Receiving(n, type)
  BY DEF RepeatedRRQ, HandleFAIL, StoreContent, PassContent
<1>2. RXFIFO' = Rest(n) /\ UNCHANGED sendFifo
  BY DEF RepeatedRRQ, HandleFAIL, StoreContent, PassContent
<1>3. ForcedAir' /\ OwnQueues'
  BY <1>1, <1>2, ForcedReceived DEF HInv, ForcedAir, OwnQueues
<1>4. Rerouted'
  BY OthersKeepHops, KeptIsRerouted DEF HInv
<1>5. CASE pc' = [pc EXCEPT ![n] = Resume(n, RXFIFO'[n])] /\ UNCHANGED fwd
  BY <1>3, <1>4, <1>5, ResumeIsIdle, ForcedWhileIdle DEF HInv
<1>6. ASSUME NEW e, NEW hop, NEW s, NEW back, NEW f, Forward(n, e, hop, s, back, f),
             s.type \in {"CONTENT", "FAIL"}
      PROVE  HInv'
  BY <1>3, <1>4, <1>6, PlainIsForced, ForcedForward DEF HInv
<1>7. CASE RepeatedRRQ(n) \/ StoreContent(n)
  BY <1>5, <1>7 DEF RepeatedRRQ, StoreContent
<1>8. CASE HandleFAIL(n)
  <2>1. p.type = "FAIL"
    BY <1>8 DEF HandleFAIL, Receiving
  <2> QED
    BY <1>5, <1>6, <1>8, <2>1 DEF HandleFAIL
<1>9. CASE PassContent(n)
  <2>1. p.type = "CONTENT" /\ FailPacket(p).type = "FAIL"
    BY <1>9 DEF PassContent, Receiving, FailPacket
  <2> QED
    BY <1>6, <1>9, <2>1 DEF PassContent
<1> QED
  BY <1>7, <1>8, <1>9

LEMMA HostForces ==
  ASSUME FORCE_HOPS, IInv, HInv, NEW n \in Node,
         (\E d \in Node : Queue(n, d)) \/ Read(n) \/ Restart(n)
  PROVE  HInv'
<1>1. Rerouted'
  BY OthersKeepHops, KeptIsRerouted DEF HInv
<1>2. ASSUME NEW d \in Node, Queue(n, d)
      PROVE  HInv'
  <2> DEFINE c == [type |-> "CONTENT", source |-> n, dest |-> d,
                   id |-> count.packets + 1, hopcount |-> 0, nodes |-> <<>>]
  <2>1. /\ sendFifo' = [sendFifo EXCEPT ![n] = Append(@, c)]
        /\ UNCHANGED <<RXFIFO, pc, fwd>>
    BY <1>2 DEF Queue
  <2>2. c \in Own(n)
    <3>1. <<>> \in Seq(Node) /\ count.packets + 1 \in Nat
      BY DEF IInv, Counts
    <3> QED
      BY <3>1 DEF Own, Packet
  <2> HIDE DEF c
  <2>3. sendFifo[n] \in Seq(Own(n)) /\ Append(sendFifo[n], c) \in Seq(Own(n))
    BY <2>2, AppendProperties DEF HInv, OwnQueues
  <2>4. OwnQueues'
    BY <2>1, <2>3 DEF HInv, OwnQueues, IInv, Queues
  <2> QED
    BY <1>1, <2>1, <2>4 DEF HInv, ForcedAir, ForcedCalls
<1>3. CASE Read(n)
  BY <1>1, <1>3 DEF Read, HInv, OwnQueues, ForcedAir, ForcedCalls
<1>4. CASE Restart(n)
  <2>1. /\ sendFifo' = [sendFifo EXCEPT ![n] = <<>>] /\ RXFIFO' = [RXFIFO EXCEPT ![n] = <<>>]
        /\ pc' = [pc EXCEPT ![n] = "main"] /\ fwd' = [fwd EXCEPT ![n] = NoCall]
    BY <1>4 DEF Restart
  <2>2. <<>> \in Seq(Own(n)) /\ <<>> \in Seq(ForcedFrame)
    OBVIOUS
  <2>3. OwnQueues'
    BY <2>1, <2>2 DEF HInv, OwnQueues, IInv, Queues
  <2>4. ForcedAir'
    BY <2>1, <2>2 DEF HInv, ForcedAir, IInv, Air
  <2>5. ForcedCalls'
    BY <2>1, ForcedWhileIdle DEF HInv, Idle
  <2> QED
    BY <1>1, <2>3, <2>4, <2>5 DEF HInv
<1> QED
  BY <1>2, <1>3, <1>4

LEMMA HInvIsInductive ==
  ASSUME OneAsker
  PROVE  IInv /\ HInv /\ KnowsOwnRequests /\ [Next]_vars => HInv'
<1> SUFFICES ASSUME IInv, HInv, KnowsOwnRequests, [Next]_vars, FORCE_HOPS PROVE HInv'
  BY DEF HInv
<1>1. CASE UNCHANGED vars
  BY <1>1 DEF vars, HInv, OwnQueues, ForcedAir, ForcedCalls, Rerouted
<1>2. CASE Next
  <2>1. PICK n \in Node : \/ do_routing(n)
                          \/ (\E d \in Node : Queue(n, d)) \/ Read(n) \/ Restart(n)
    BY <1>2 DEF Next
  <2> QED
    BY <2>1, AnswerForces, RebroadcastForces, ResolveForces, PassForces, FrameForces,
       ForwardForces, SendQueueForces, HostForces DEF do_routing, handleReceived
<1> QED
  BY <1>1, <1>2

\* Where FORCE_HOPS is built in, the node that asks never gets the direct route, on
\* every network and with losses, timeouts and restarts, as long as it knows its own
\* requests when it hears them relayed.  (Once its ring of ids has forgotten one it
\* relays the request itself, and the destination answers that directly.)
THEOREM HopsAreForced ==
  ASSUME OneAsker
  PROVE  Spec /\ []KnowsOwnRequests => []HopsForced
<1>1. Init => HInv
  <2>1. \A S : <<>> \in Seq(S)
    OBVIOUS
  <2>2. Init => OwnQueues /\ ForcedAir /\ ForcedCalls
    BY <2>1 DEF Init, OwnQueues, ForcedAir, ForcedCalls, Blocked
  <2>3. Init => Rerouted
    BY NetworkAssumption, AddressAssumption DEF Init, Rerouted, NoEntry
  <2> QED
    BY <2>2, <2>3 DEF HInv
<1>2. HInv => HopsForced
  BY DEF HInv, Rerouted, HopsForced
<1> QED
  BY <1>1, <1>2, IInvAlways, HInvIsInductive, PTL DEF Spec
=============================================================================
