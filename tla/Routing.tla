------------------------------- MODULE Routing -------------------------------
(***************************************************************************)
(* The routing layer (routing/routing.c) of a network of nodes, over the   *)
(* radio (radio.cpp, RFM69.cpp).                                           *)
(*                                                                         *)
(* do_routing is handleReceived, which empties RXFIFO, and then            *)
(* processSendQueue, which looks at the oldest packet to send.  Either may *)
(* call forward, which sends a frame and blocks until it is acknowledged,  *)
(* up to MAX_ACK_FAILURES times; meanwhile the radio goes on filling       *)
(* RXFIFO, but no frame is handled, so none is acknowledged.               *)
(*                                                                         *)
(* The program around it is routing/main.c: one loop that calls the two,   *)
(* reads a packet (Read) and queues packets (Queue), so that no handler    *)
(* comes between the accesses to a packet queue.  app/main.c calls the two *)
(* in the timer interrupt instead; the handlers are the same, and what     *)
(* being interrupted does to the two queues is in SendQueue and HostApp.   *)
(*                                                                         *)
(* A transmission is one step: each neighbour the frame is for hears it at *)
(* once or never.  Time is not modelled: a timeout may strike at any time, *)
(* but only MaxEarly of them while the answer is still to come.  RXFIFO    *)
(* and the packet queues are sequences here; RingFifo has their code.      *)
(***************************************************************************)
EXTENDS Integers, Sequences, FiniteSets

CONSTANTS
  Node,              \* addresses of the nodes; the code's are 1..254
  NoNode,            \* address 0
  Broadcast,         \* RF69_BROADCAST_ADDR, 255
  Link,              \* <<n, m>> \in Link: m hears n
  MAX_ACK_FAILURES,
  RECENT_RRQ_NUM,
  FIFO_SLOTS,
  RrqId,             \* the values of a request's id, a byte of the clock
  FORCE_HOPS,        \* the build option of routing_config.h
  Traffic,           \* the <<source, dest>> pairs the hosts send packets for
  MaxPackets, MaxRequests, MaxHops, MaxRestarts, \* bounds of the model
  MaxLoss,           \* ... receptions that fail
  MaxEarly           \* ... timeouts that strike although the answer is still to come

ASSUME LinkAssumption == /\ Link \subseteq Node \X Node
                         /\ \A n \in Node : <<n, n>> \notin Link
ASSUME AddressAssumption == NoNode \notin Node /\ Broadcast \notin Node \cup {NoNode}
ASSUME BoundAssumption == /\ MAX_ACK_FAILURES \in 1..127
                          /\ RECENT_RRQ_NUM \in Nat \ {0}
                          /\ FIFO_SLOTS \in Nat \ {0}
ASSUME NetworkAssumption == IsFiniteSet(Node) /\ Traffic \subseteq Node \X Node
ASSUME RrqIdAssumption == RrqId \subseteq 0..255
\* The hopcount is a byte; a frame of 61 bytes has no room for that many nodes.
ASSUME HopsAssumption == MaxHops \in 0..255

VARIABLES
  routingTable,  \* routingTable[n][d]: nextHop, failures
  rrqProgress,   \* the node's own route request: dest, active, resolved
  recentRRQ,     \* ids of the requests seen last, oldest first
  sendFifo,      \* packets queued by the main loop
  receiveFifo,   \* packets for the main loop
  RXFIFO,        \* frames the radio received
  ackFrom,       \* NoNode iff ACK_RECEIVED_CLEARED; else who sent the ACK (history)
  pc,            \* main, receive (in handleReceived), send or wait (in forward)
  fwd,           \* the call of forward in progress
  delivered,     \* history: the packets the main loops read
  count          \* history: packets, requests, losses, early timeouts, restarts so far

vars == <<routingTable, rrqProgress, recentRRQ, sendFifo, receiveFifo, RXFIFO,
          ackFrom, pc, fwd, delivered, count>>

Neighbours(n) == {m \in Node : <<n, m>> \in Link}

Address == Node \cup {NoNode}

-----------------------------------------------------------------------------
(* Packets, frames and tables. *)

Packet == [type     : {"CONTENT", "RRQ", "RUP", "FAIL"},
           source   : Node,
           dest     : Node,
           id       : Nat,          \* rrqID, or which content this is
           hopcount : 0..255,
           nodes    : Seq(Node)]    \* the node list behind an RRQ or RUP header

Frame == [sender : Node, target : Node \cup {Broadcast}, packet : Packet]

NoPacket == [type |-> "NONE"]

NoCall == [entry |-> NoNode, nextHop |-> NoNode, packet |-> NoPacket,
           retries |-> 0, back |-> "main", failTo |-> NoNode]

\* Writing a fifo that does not ask isFull: the item lands on the slot of the
\* head, which repeats every FIFO_SLOTS places of what will be read.
Overwrite(q, x) ==
  [i \in 1 .. Len(q) + 1 |-> IF (Len(q) + 1 - i) % FIFO_SLOTS = 0 THEN x ELSE q[i]]

NoEntry == [nextHop |-> NoNode, failures |-> 0]

entryIsValid(e) == e.nextHop # NoNode /\ e.failures < MAX_ACK_FAILURES

invalidateEntry(e) == NoEntry

\* The table after getNextHop(d), which clears an entry that is not valid.
getNextHop(t, d) == IF entryIsValid(t[d]) THEN t ELSE [t EXCEPT ![d] = invalidateEntry(t[d])]

\* The ring of 20 ids: the newest replaces the oldest.
logRecentRRQ(r, id) == IF Len(r) < RECENT_RRQ_NUM THEN Append(r, id) ELSE Append(Tail(r), id)

didRecentlyForwardRRQ(n, id) == \E i \in DOMAIN recentRRQ[n] : recentRRQ[n][i] = id

\* Wrong on purpose: the packet is turned around but keeps its type.
FailPacketMistyped(p) == [p EXCEPT !.source = p.dest, !.dest = p.source, !.id = 0]

\* The FAIL made of packet p: the header turned around, no more.
FailPacket(p) == [type |-> "FAIL", source |-> p.dest, dest |-> p.source, id |-> 0,
                  hopcount |-> 0, nodes |-> <<>>]

-----------------------------------------------------------------------------
(* The air. *)

\* The sets of neighbours that may hear a broadcast of n.
Audience(n) == {R \in SUBSET Neighbours(n) :
                  count.lost + Cardinality(Neighbours(n) \ R) <= MaxLoss}

\* Every node of R receives the frame (interruptHandler writes RXFIFO).
Heard(rx, R, q) == [m \in Node |-> IF m \in R THEN Overwrite(rx[m], q) ELSE rx[m]]

Lose(k) == [count EXCEPT !.lost = @ + k]

-----------------------------------------------------------------------------
(* forward: send, wait for an ACK, retry. *)

\* The call forward(entry, p): entry is the destination of the table entry the
\* code points to, NoNode for an entry on its stack.  back is where control
\* returns; failTo is the node handleReceived sends a FAIL to if forward fails.
Forward(n, entry, hop, p, back, failTo) ==
  /\ fwd' = [fwd EXCEPT ![n] = [entry |-> entry, nextHop |-> hop, packet |-> p,
                                retries |-> 0, back |-> back, failTo |-> failTo]]
  /\ pc' = [pc EXCEPT ![n] = "send"]

\* Where do_routing stands after a frame: with no further frame and nothing to
\* send, processSendQueue does nothing and the timer interrupt ends.
Resume(n, rx) == IF rx = <<>> /\ sendFifo[n] = <<>> THEN "main" ELSE "receive"

Return(n) ==
  /\ pc' = [pc EXCEPT ![n] = IF fwd[n].back = "main" THEN "main" ELSE Resume(n, RXFIFO[n])]
  /\ fwd' = [fwd EXCEPT ![n] = NoCall]

\* radio.send to the next hop, with an ACK request.
SendFrame(n) ==
  LET hop == fwd[n].nextHop
      q   == [sender |-> n, target |-> hop, packet |-> fwd[n].packet]
  IN /\ pc[n] = "send"
     /\ pc' = [pc EXCEPT ![n] = "wait"]
     /\ \/ /\ hop \in Neighbours(n)
           /\ RXFIFO' = Heard(RXFIFO, {hop}, q)
           /\ UNCHANGED count
        \/ /\ hop \in Neighbours(n) => count.lost < MaxLoss
           /\ count' = Lose(IF hop \in Neighbours(n) THEN 1 ELSE 0)
           /\ UNCHANGED RXFIFO
     /\ UNCHANGED <<routingTable, rrqProgress, recentRRQ, sendFifo, receiveFifo,
                    ackFrom, fwd, delivered>>

\* Wrong on purpose: success leaves the failures.
SucceededKeepingFailures(n) == routingTable

\* The failures of the entry are forgotten.
Succeeded(n) == IF fwd[n].entry = NoNode THEN routingTable
                ELSE [routingTable EXCEPT ![n][fwd[n].entry].failures = 0]

\* ackReceived answered true: whoever sent the ACK, the flag is all it looks at.
Acked(n) ==
  /\ pc[n] = "wait"
  /\ ackFrom[n] # NoNode
  /\ ackFrom' = [ackFrom EXCEPT ![n] = NoNode]
  /\ routingTable' = Succeeded(n)
  /\ Return(n)
  /\ UNCHANGED <<rrqProgress, recentRRQ, sendFifo, receiveFifo, RXFIFO, delivered, count>>

\* The frame n sent lies unhandled in the RXFIFO of its next hop.
Unhandled(n) ==
  LET hop == fwd[n].nextHop
  IN /\ pc[n] = "wait" /\ ackFrom[n] = NoNode /\ hop \in Node
     /\ \E i \in DOMAIN RXFIFO[hop] : RXFIFO[hop][i].sender = n /\ RXFIFO[hop][i].target = hop

\* n is one of some nodes that all wait for one another: no frame of theirs is
\* handled before one of them gives up.
Standoff(n) == \E S \in SUBSET Node : n \in S /\ \A m \in S : Unhandled(m) /\ fwd[m].nextHop \in S

AnswerPending(n) == Unhandled(n) /\ ~Standoff(n)

\* ROUTING_ACK_WAIT ms pass without an ACK.
TimeOut(n) == /\ pc[n] = "wait"
              /\ ackFrom[n] = NoNode
              /\ AnswerPending(n) => count.early < MaxEarly
              /\ count' = [count EXCEPT !.early = IF AnswerPending(n) THEN @ + 1 ELSE @]

\* The failure is counted, in the table when the entry is the table's.
Failed(n) == IF fwd[n].entry = NoNode THEN routingTable
             ELSE [routingTable EXCEPT ![n][fwd[n].entry].failures = @ + 1]

Retry(n) ==
  /\ TimeOut(n)
  /\ fwd[n].retries + 1 < MAX_ACK_FAILURES
  /\ routingTable' = Failed(n)
  /\ fwd' = [fwd EXCEPT ![n].retries = @ + 1]
  /\ pc' = [pc EXCEPT ![n] = "send"]
  /\ UNCHANGED <<rrqProgress, recentRRQ, sendFifo, receiveFifo, RXFIFO, ackFrom, delivered>>

\* The last retry failed: forward returns false.  For a packet of another node
\* handleReceived then turns the packet around and sends it, cut down to its
\* header, as a FAIL to the node it came from.
GiveUp(n) ==
  LET p == fwd[n].packet
  IN /\ TimeOut(n)
     /\ fwd[n].retries + 1 = MAX_ACK_FAILURES
     /\ routingTable' = Failed(n)
     /\ IF fwd[n].failTo = NoNode
        THEN Return(n)
        ELSE Forward(n, NoNode, fwd[n].failTo, FailPacket(p), "receive", NoNode)
     /\ UNCHANGED <<rrqProgress, recentRRQ, sendFifo, receiveFifo, RXFIFO, ackFrom,
                    delivered>>

-----------------------------------------------------------------------------
(* handleReceived: one frame of RXFIFO. *)

\* What getNextFrame takes out of RXFIFO.
frame(n) == Head(RXFIFO[n])

\* Wrong on purpose: the packet's source is taken for the node that sent the frame.
senderIsSource(n) == Head(RXFIFO[n]).packet.source

senderNodeId(n) == Head(RXFIFO[n]).sender

Rest(n) == [RXFIFO EXCEPT ![n] = Tail(@)]

Receiving(n, type) == /\ pc[n] \in {"main", "receive"}
                      /\ RXFIFO[n] # <<>>
                      /\ frame(n).packet.type = type

\* A frame sent to this node alone is acknowledged, before it is looked at; the
\* ACK may be lost.
SendAck(n) ==
  \/ ackFrom' = [ackFrom EXCEPT ![senderNodeId(n)] = n] /\ UNCHANGED count
  \/ count.lost < MaxLoss /\ count' = Lose(1) /\ UNCHANGED ackFrom

\* A request seen before is logged again and goes no further.
RepeatedRRQ(n) ==
  LET p == frame(n).packet
  IN /\ Receiving(n, "RRQ")
     /\ didRecentlyForwardRRQ(n, p.id)
     /\ RXFIFO' = Rest(n)
     /\ recentRRQ' = [recentRRQ EXCEPT ![n] = logRecentRRQ(@, p.id)]
     /\ pc' = [pc EXCEPT ![n] = Resume(n, RXFIFO'[n])]
     /\ UNCHANGED <<routingTable, rrqProgress, sendFifo, receiveFifo, ackFrom, fwd,
                    delivered, count>>

\* Wrong on purpose: the test on the hopcount is the wrong way round.
IgnoredRelayed(p) == FORCE_HOPS /\ p.hopcount > 0

\* With FORCE_HOPS a request straight from its originator is not answered.
Ignored(p) == FORCE_HOPS /\ p.hopcount = 0

\* A request for this node is answered, at once and each time, with a RUP to
\* the node it came from.
AnswerRRQ(n) ==
  LET p   == frame(n).packet
      hop == senderNodeId(n)
  IN /\ Receiving(n, "RRQ")
     /\ ~didRecentlyForwardRRQ(n, p.id)
     /\ p.dest = n
     /\ RXFIFO' = Rest(n)
     /\ IF Ignored(p)
        THEN /\ pc' = [pc EXCEPT ![n] = Resume(n, RXFIFO'[n])]
             /\ UNCHANGED <<routingTable, fwd>>
        ELSE /\ routingTable' = [routingTable EXCEPT ![n][p.source] =
                                                        [nextHop |-> hop, failures |-> 0]]
             /\ Forward(n, NoNode, hop,
                        [p EXCEPT !.type = "RUP", !.source = p.dest, !.dest = p.source],
                        "receive", NoNode)
     /\ UNCHANGED <<rrqProgress, recentRRQ, sendFifo, receiveFifo, ackFrom, delivered, count>>

\* Wrong on purpose: the node is listed but not counted.
RelayedUncounted(p, n) == [p EXCEPT !.nodes = Append(@, n)]

\* The request with node n at the end of its list.
Relayed(p, n) == [p EXCEPT !.hopcount = (@ + 1) % 256, !.nodes = Append(@, n)]

\* A request for another node is broadcast again with this node at the end of
\* its list, and is not logged.  (Beyond MaxHops the model lets nobody hear it.)
RebroadcastRRQ(n) ==
  LET p == frame(n).packet
      q == [sender |-> n, target |-> Broadcast, packet |-> Relayed(p, n)]
  IN /\ Receiving(n, "RRQ")
     /\ ~didRecentlyForwardRRQ(n, p.id)
     /\ p.dest # n
     /\ \E R \in IF p.hopcount < MaxHops THEN Audience(n) ELSE {{}} :
          /\ RXFIFO' = Heard(Rest(n), R, q)
          /\ count' = Lose(IF p.hopcount < MaxHops THEN Cardinality(Neighbours(n) \ R) ELSE 0)
     /\ pc' = [pc EXCEPT ![n] = Resume(n, RXFIFO'[n])]
     /\ UNCHANGED <<routingTable, rrqProgress, recentRRQ, sendFifo, receiveFifo, ackFrom,
                    fwd, delivered>>

\* A RUP that answers the request this node made last.
OwnRUP(n) == /\ frame(n).packet.dest = n
             /\ rrqProgress[n].dest = frame(n).packet.source

\* The next hop is entered (the entry's failures stay) and the request is resolved.
ResolveRUP(n) ==
  /\ Receiving(n, "RUP")
  /\ OwnRUP(n)
  /\ RXFIFO' = Rest(n)
  /\ SendAck(n)
  /\ routingTable' = [routingTable EXCEPT ![n][rrqProgress[n].dest].nextHop = senderNodeId(n)]
  /\ rrqProgress' = [rrqProgress EXCEPT ![n].resolved = TRUE]
  /\ pc' = [pc EXCEPT ![n] = Resume(n, RXFIFO'[n])]
  /\ UNCHANGED <<recentRRQ, sendFifo, receiveFifo, fwd, delivered>>


\* The node below the top of the stack is the next towards the originator.
nextOnStack(p) == IF p.hopcount >= 2 THEN p.nodes[p.hopcount - 1] ELSE p.dest

\* Wrong on purpose: the hopcount is not a byte.
PoppedWide(p) == [p EXCEPT !.hopcount = @ - 1, !.nodes = SubSeq(@, 1, Len(@) - 1)]

\* Wrong on purpose: the node stays on the stack.
PoppedNothing(p) == p

\* Off the stack goes this node; a byte wraps when there was nothing on it.
Popped(p) == [p EXCEPT !.hopcount = (@ + 255) % 256,
                       !.nodes = SubSeq(@, 1, Len(@) - 1)]

\* Any other RUP gives the routes to both its ends and is passed on.
PassRUP(n) ==
  LET p   == frame(n).packet
      hop == nextOnStack(p)
  IN /\ Receiving(n, "RUP")
     /\ ~OwnRUP(n)
     /\ RXFIFO' = Rest(n)
     /\ SendAck(n)
     /\ routingTable' = [routingTable EXCEPT
                           ![n] = [@ EXCEPT ![p.source] = [nextHop |-> senderNodeId(n), failures |-> 0],
                                            ![p.dest]   = [nextHop |-> hop, failures |-> 0]]]
     /\ Forward(n, NoNode, hop, Popped(p), "receive", NoNode)
     /\ UNCHANGED <<rrqProgress, recentRRQ, sendFifo, receiveFifo, delivered>>

\* A FAIL takes the route to its source away and is passed on while there is a
\* route to its destination.
HandleFAIL(n) ==
  LET p == frame(n).packet
      t == [routingTable[n] EXCEPT ![p.source].nextHop = NoNode]
  IN /\ Receiving(n, "FAIL")
     /\ RXFIFO' = Rest(n)
     /\ SendAck(n)
     /\ routingTable' = [routingTable EXCEPT ![n] = IF p.dest = n THEN t ELSE getNextHop(t, p.dest)]
     /\ IF p.dest # n /\ entryIsValid(t[p.dest])
        THEN Forward(n, p.dest, t[p.dest].nextHop, p, "receive", NoNode)
        ELSE pc' = [pc EXCEPT ![n] = Resume(n, RXFIFO'[n])] /\ UNCHANGED fwd
     /\ UNCHANGED <<rrqProgress, recentRRQ, sendFifo, receiveFifo, delivered>>

\* Content for this node goes to the main loop, whether receiveFifo has room or not.
StoreContent(n) ==
  /\ Receiving(n, "CONTENT")
  /\ frame(n).packet.dest = n
  /\ RXFIFO' = Rest(n)
  /\ SendAck(n)
  /\ receiveFifo' = [receiveFifo EXCEPT ![n] = Overwrite(@, frame(n).packet)]
  /\ pc' = [pc EXCEPT ![n] = Resume(n, RXFIFO'[n])]
  /\ UNCHANGED <<routingTable, rrqProgress, recentRRQ, sendFifo, fwd, delivered>>

\* Content for another node is passed on; without a route, or when the next hop
\* does not answer (GiveUp), a FAIL goes back to the node it came from.
PassContent(n) ==
  LET p == frame(n).packet
      e == routingTable[n][p.dest]
  IN /\ Receiving(n, "CONTENT")
     /\ p.dest # n
     /\ RXFIFO' = Rest(n)
     /\ SendAck(n)
     /\ routingTable' = [routingTable EXCEPT ![n] = getNextHop(@, p.dest)]
     /\ IF entryIsValid(e)
        THEN Forward(n, p.dest, e.nextHop, p, "receive", senderNodeId(n))
        ELSE Forward(n, NoNode, senderNodeId(n), FailPacket(p), "receive", NoNode)
     /\ UNCHANGED <<rrqProgress, recentRRQ, sendFifo, receiveFifo, delivered>>

-----------------------------------------------------------------------------
(* processSendQueue: the oldest packet of sendFifo, once RXFIFO is empty. *)

\* A frame or a blocked call that may still resolve the request of n.
AnswerUnderWay(n) ==
  LET about(p) == p.type \in {"RRQ", "RUP"} /\ n \in {p.source, p.dest}
  IN \E m \in Node : \/ pc[m] \in {"send", "wait"} /\ about(fwd[m].packet)
                     \/ \E i \in DOMAIN RXFIFO[m] : about(RXFIFO[m][i].packet)

\* Whether the request of n is active after routeExistsTo ended it if it is
\* resolved or takes longer than a second.
StillActive(n) ==
  LET r == rrqProgress[n]
  IN {active \in BOOLEAN :
        IF r.active /\ ~r.resolved
        THEN active \/ ~AnswerUnderWay(n) \/ count.early < MaxEarly
        ELSE ~active}

\* What that adds to the early timeouts.
Expired(n, active) ==
  LET r == rrqProgress[n]
  IN IF r.active /\ ~r.resolved /\ ~active /\ AnswerUnderWay(n) THEN 1 ELSE 0

routeExistsTo(n, d, active) ==
  entryIsValid(routingTable[n][d]) /\ (rrqProgress[n].dest # d \/ ~active)

QueueTurn(n) == pc[n] \in {"main", "receive"} /\ RXFIFO[n] = <<>>

\* There is a route: the packet leaves the queue, whatever becomes of it.
SendQueued(n) ==
  LET p == Head(sendFifo[n])
  IN /\ QueueTurn(n)
     /\ sendFifo[n] # <<>>
     /\ \E active \in StillActive(n) :
          /\ routeExistsTo(n, p.dest, active)
          /\ rrqProgress' = [rrqProgress EXCEPT ![n].active = active]
          /\ count' = [count EXCEPT !.early = @ + Expired(n, active)]
     /\ sendFifo' = [sendFifo EXCEPT ![n] = Tail(@)]
     /\ Forward(n, p.dest, routingTable[n][p.dest].nextHop, p, "main", NoNode)
     /\ UNCHANGED <<routingTable, recentRRQ, receiveFifo, RXFIFO, ackFrom, delivered>>

\* No route, and a request under way: the packet waits.
AwaitRoute(n) ==
  LET d == Head(sendFifo[n]).dest
  IN /\ QueueTurn(n)
     /\ sendFifo[n] # <<>>
     /\ TRUE \in StillActive(n)
     /\ ~routeExistsTo(n, d, TRUE)
     /\ routingTable' = [routingTable EXCEPT ![n] = getNextHop(@, d)]
     /\ pc' = [pc EXCEPT ![n] = "main"]
     /\ UNCHANGED <<rrqProgress, recentRRQ, sendFifo, receiveFifo, RXFIFO, ackFrom,
                    fwd, delivered, count>>

\* No route and no request: initiateRouteRequest.  (When there have been
\* MaxRequests of them the model's nodes ask no more.)
RequestRoute(n) ==
  LET d == Head(sendFifo[n]).dest
  IN /\ QueueTurn(n)
     /\ sendFifo[n] # <<>>
     /\ FALSE \in StillActive(n)
     /\ ~routeExistsTo(n, d, FALSE)
     /\ count.requests < MaxRequests
     /\ routingTable' = [routingTable EXCEPT ![n] = getNextHop(@, d)]
     /\ rrqProgress' = [rrqProgress EXCEPT ![n] = [dest |-> d, active |-> TRUE, resolved |-> FALSE]]
     /\ \E id \in RrqId, R \in Audience(n) :
          /\ recentRRQ' = [recentRRQ EXCEPT ![n] = logRecentRRQ(@, id)]
          /\ RXFIFO' = Heard(RXFIFO, R,
                             [sender |-> n, target |-> Broadcast,
                              packet |-> [type |-> "RRQ", source |-> n, dest |-> d, id |-> id,
                                          hopcount |-> 0, nodes |-> <<>>]])
          /\ count' = [count EXCEPT !.requests = @ + 1,
                                    !.lost = @ + Cardinality(Neighbours(n) \ R),
                                    !.early = @ + Expired(n, FALSE)]
     /\ pc' = [pc EXCEPT ![n] = "main"]
     /\ UNCHANGED <<sendFifo, receiveFifo, ackFrom, fwd, delivered>>

\* The bound on requests reached, the packet stays where it is.
AskNoMore(n) ==
  LET d == Head(sendFifo[n]).dest
  IN /\ QueueTurn(n)
     /\ sendFifo[n] # <<>>
     /\ FALSE \in StillActive(n)
     /\ ~routeExistsTo(n, d, FALSE)
     /\ count.requests = MaxRequests
     /\ routingTable' = [routingTable EXCEPT ![n] = getNextHop(@, d)]
     /\ rrqProgress' = [rrqProgress EXCEPT ![n].active = FALSE]
     /\ count' = [count EXCEPT !.early = @ + Expired(n, FALSE)]
     /\ pc' = [pc EXCEPT ![n] = "main"]
     /\ UNCHANGED <<recentRRQ, sendFifo, receiveFifo, RXFIFO, ackFrom, fwd, delivered>>

-----------------------------------------------------------------------------
(* The rest of the loop of routing/main.c, and the power switch. *)

\* queuePacket, between two calls of do_routing.
Queue(n, d) ==
  /\ pc[n] = "main"
  /\ <<n, d>> \in Traffic
  /\ count.packets < MaxPackets
  /\ Len(sendFifo[n]) < FIFO_SLOTS
  /\ sendFifo' = [sendFifo EXCEPT ![n] =
                    Append(@, [type |-> "CONTENT", source |-> n, dest |-> d,
                               id |-> count.packets + 1, hopcount |-> 0, nodes |-> <<>>])]
  /\ count' = [count EXCEPT !.packets = @ + 1]
  /\ UNCHANGED <<routingTable, rrqProgress, recentRRQ, receiveFifo, RXFIFO, ackFrom, pc, fwd,
                 delivered>>

\* packetReceivedPeek and packetReceivedSkip.
Read(n) == /\ pc[n] = "main"
           /\ receiveFifo[n] # <<>>
           /\ delivered' = [delivered EXCEPT ![n] = @ \cup {Head(receiveFifo[n])}]
           /\ receiveFifo' = [receiveFifo EXCEPT ![n] = Tail(@)]
           /\ UNCHANGED <<routingTable, rrqProgress, recentRRQ, sendFifo, RXFIFO, ackFrom, pc,
                          fwd, count>>

NoRequest == [dest |-> NoNode, active |-> FALSE, resolved |-> FALSE]

\* A node loses power and starts again: everything above is in RAM.
Restart(n) ==
  /\ count.restarts < MaxRestarts
  /\ routingTable' = [routingTable EXCEPT ![n] = [d \in Node |-> NoEntry]]
  /\ rrqProgress' = [rrqProgress EXCEPT ![n] = NoRequest]
  /\ recentRRQ' = [recentRRQ EXCEPT ![n] = <<>>]
  /\ sendFifo' = [sendFifo EXCEPT ![n] = <<>>]
  /\ receiveFifo' = [receiveFifo EXCEPT ![n] = <<>>]
  /\ RXFIFO' = [RXFIFO EXCEPT ![n] = <<>>]
  /\ ackFrom' = [ackFrom EXCEPT ![n] = NoNode]
  /\ pc' = [pc EXCEPT ![n] = "main"]
  /\ fwd' = [fwd EXCEPT ![n] = NoCall]
  /\ count' = [count EXCEPT !.restarts = @ + 1]
  /\ UNCHANGED delivered

-----------------------------------------------------------------------------
Init == /\ routingTable = [n \in Node |-> [d \in Node |-> NoEntry]]
        /\ rrqProgress = [n \in Node |-> NoRequest]
        /\ recentRRQ = [n \in Node |-> <<>>]
        /\ sendFifo = [n \in Node |-> <<>>]
        /\ receiveFifo = [n \in Node |-> <<>>]
        /\ RXFIFO = [n \in Node |-> <<>>]
        /\ ackFrom = [n \in Node |-> NoNode]
        /\ pc = [n \in Node |-> "main"]
        /\ fwd = [n \in Node |-> NoCall]
        /\ delivered = [n \in Node |-> {}]
        /\ count = [packets |-> 0, requests |-> 0, lost |-> 0, early |-> 0, restarts |-> 0]

handleReceived(n) == \/ RepeatedRRQ(n) \/ AnswerRRQ(n) \/ RebroadcastRRQ(n)
                     \/ ResolveRUP(n) \/ PassRUP(n)
                     \/ HandleFAIL(n) \/ StoreContent(n) \/ PassContent(n)

forward(n) == SendFrame(n) \/ Acked(n) \/ Retry(n) \/ GiveUp(n)

processSendQueue(n) == SendQueued(n) \/ AwaitRoute(n) \/ RequestRoute(n) \/ AskNoMore(n)

do_routing(n) == handleReceived(n) \/ forward(n) \/ processSendQueue(n)

Next == \E n \in Node : \/ do_routing(n)
                        \/ \E d \in Node : Queue(n, d)
                        \/ Read(n)
                        \/ Restart(n)

Spec == Init /\ [][Next]_vars

\* The loop of routing/main.c:60-82 goes round, and each round calls do_routing's
\* two halves (:61,63) and asks for a packet to read (:65).
FairSpec == Spec /\ \A n \in Node : WF_vars(do_routing(n)) /\ WF_vars(Read(n))

-----------------------------------------------------------------------------
(* Properties. *)

TypeOK ==
  /\ routingTable \in [Node -> [Node -> [nextHop : Address, failures : 0..255]]]
  /\ rrqProgress \in [Node -> [dest : Address, active : BOOLEAN, resolved : BOOLEAN]]
  /\ recentRRQ \in [Node -> Seq(RrqId)]
  /\ sendFifo \in [Node -> Seq(Packet)]
  /\ receiveFifo \in [Node -> Seq(Packet)]
  /\ RXFIFO \in [Node -> Seq(Frame)]
  /\ ackFrom \in [Node -> Address]
  /\ pc \in [Node -> {"main", "receive", "send", "wait"}]
  /\ fwd \in [Node -> [entry : Address, nextHop : Address, packet : Packet \cup {NoPacket},
                       retries : 0 .. MAX_ACK_FAILURES, back : {"main", "receive"},
                       failTo : Address]]
  /\ delivered \in [Node -> SUBSET Packet]
  /\ count \in [packets : Nat, requests : Nat, lost : Nat, early : Nat, restarts : Nat]

\* The nodes of a list, each heard by the next.
Path(s) == \A i \in 1 .. Len(s) - 1 : <<s[i], s[i + 1]>> \in Link

\* The frames waiting in a RXFIFO, with the node that holds them.
Held == UNION {{<<n, RXFIFO[n][i]>> : i \in DOMAIN RXFIFO[n]} : n \in Node}

\* routing.c:462, "The last node on the hop stack should be our address": a route
\* reply reaches a node with hopcount counting its list, and with the node on top
\* of the stack unless the stack is used up and the node is its destination; and
\* the list is a path from the originator on.
HopStackSound ==
  \A h \in Held :
    LET p == h[2].packet
    IN p.type = "RUP" => /\ p.hopcount = Len(p.nodes)
                         /\ IF p.nodes = <<>> THEN p.dest = h[1]
                            ELSE p.nodes[Len(p.nodes)] = h[1]
                         /\ Path(<<p.dest>> \o p.nodes)

\* A request spreads along a path: its list runs from the originator to the
\* node that sent the frame, each node in reach of the one before.
RequestTracksPath ==
  \A h \in Held :
    LET p == h[2].packet
    IN p.type = "RRQ" => /\ p.hopcount = Len(p.nodes)
                         /\ Path(<<p.source>> \o p.nodes \o <<h[1]>>)
                         /\ h[2].sender = (<<p.source>> \o p.nodes)[Len(p.nodes) + 1]

\* Every route to another node leads to a node in reach.
RoutesAreNeighbours ==
  \A n, d \in Node : n # d => routingTable[n][d].nextHop \in Neighbours(n) \cup {NoNode}

\* Following the next hops towards a node leads there or ends.  The format's
\* description has the destination answer one copy of a request, "the one with
\* the lowest hopcount" (rrq_rup_format.txt:35), whose nodes are all different.
LoopFree ==
  \A d \in Node : ~\E S \in SUBSET (Node \ {d}) :
    S # {} /\ \A n \in S : routingTable[n][d].nextHop \in S

\* What FORCE_HOPS is for: a node that asks for a route to another is not given the
\* direct one.  (While only one node asks, and knows its own requests.)
HopsForced == FORCE_HOPS => \A t \in Traffic : routingTable[t[1]][t[2]].nextHop # t[2]

\* Outside forward an entry has no failures or has used them up: the threshold of
\* MAX_ACK_FAILURES never counts the failures of several packets together.
FailuresSettled ==
  \A n, d \in Node : pc[n] \in {"main", "receive"} =>
                       routingTable[n][d].failures \in {0, MAX_ACK_FAILURES}

\* What the main loop of d reads as content for d was queued by its source for d.
NothingInvented ==
  \A d \in Node : \A p \in delivered[d] :
    p.type = "CONTENT" /\ p.dest = d /\ <<p.source, d>> \in Traffic /\ p.id \in 1 .. count.packets

\* radio.h:54, "Checks if an ACK packet has been receieved from a particular
\* address": forward succeeds on an ACK from the node it sent to.
AckIsFromNextHop ==
  [][\A n \in Node : Acked(n) => ackFrom[n] = fwd[n].nextHop]_vars

\* When nobody gives up on an answer that is still to come and nothing is lost,
\* what a node queues over a network that connects it to the destination is read
\* there.  (Of routing/main.c, whose loop does everything: in the application a
\* count lost to the interrupt can leave a packet unread.)
Delivered ==
  \A n \in Node : \A i \in 1 .. MaxPackets :
    (\E k \in DOMAIN sendFifo[n] : sendFifo[n][k].id = i)
      ~> (\E d \in Node : \E p \in delivered[d] : p.id = i)
=============================================================================
