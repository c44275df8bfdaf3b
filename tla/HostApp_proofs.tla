--------------------------- MODULE HostApp_proofs ----------------------------
(***************************************************************************)
(* What holds of the two nodes for any number of slots, any lengths of     *)
(* messages and however much happens.  Four invariants, each of which uses *)
(* those before it: the shape of the state with the counts (IInv), what    *)
(* messages and lines say (AsTyped), how long the lines are (Fits), and    *)
(* the slot at work with the keys messages are encrypted with              *)
(* (HeaderIsHead, Undisturbed).                                            *)
(***************************************************************************)
EXTENDS HostApp, FiniteSetTheorems, SequenceTheorems, TLAPS

\* Packets and lines: what their lengths can be matters, their numbers do not.
Sendable ==
         [type : {"content"}, key : SessionKey, no : Nat, len : {PayloadLength(l) : l \in Lengths}]
    \cup [type : {"pubkey"}, key : {{g} : g \in Pair}, no : {0}, len : {32}]
Line == [what : {"answer", "received"}, no : Nat, len : {returnPublicKey} \cup {l + 6 : l \in Lengths}]

Loops    == /\ pc \in [Node -> Places]
            /\ authenticated \in [Node -> BOOLEAN] /\ configured \in [Node -> BOOLEAN]
            /\ replaced \in BOOLEAN /\ failures \in BOOLEAN
Keys     == /\ pair \in [Node -> Pair] /\ book \in [Node -> SessionKey] /\ ever \in [Node -> SUBSET Pair]
Messages == typed \in [Node -> Seq(Lengths)] /\ sent \in [Node -> SUBSET Sendable]
Lines    == tx_fifo \in [Node -> Seq(Line)]

\* The count may fall short of what waits, never exceed it.  It can wrap to 0 while
\* the main loop is at a packet, but then at least 256 wait.
AtPacket   == {"peek", "work", "skip"}
Waiting(n) == /\ pc[n] # "count" => stored[n] <= Len(receiveFifo[n])
              /\ pc[n] \in AtPacket => Len(receiveFifo[n]) >= 1
              /\ pc[n] \in AtPacket /\ stored[n] = 0 => Len(receiveFifo[n]) >= 256
              /\ pc[n] = "count" => (tmp[n] + 255) % 256 <= Len(receiveFifo[n])
Ring     == /\ receiveFifo \in [Node -> Seq(Sendable)]
            /\ stored \in [Node -> 0 .. 255] /\ tmp \in [Node -> 0 .. 255] /\ header \in [Node -> Header]
            /\ \A n \in Node : Waiting(n)

\* What the bound on the events bounds: fresh pairs and messages, each of which is one.
Drawn   == (ever[A] \cup ever[B]) \ {Zeros}
Counted == /\ events \in 0 .. MaxEvents
           /\ Cardinality(Drawn) <= 2 + events
           /\ \A n \in Node : Len(typed[n]) <= events

\* How many lines can wait at each place of the main loop.
Room == \A n \in Node : /\ Len(tx_fifo[n]) <= 2
                        /\ pc[n] \in {"packet", "peek", "work"} => Len(tx_fifo[n]) <= 1
                        /\ pc[n] = "waiting" => Len(tx_fifo[n]) = 0

IInv == Loops /\ Keys /\ Messages /\ Lines /\ Ring /\ Counted /\ Room

-----------------------------------------------------------------------------
(* The operators. *)

LEMMA PeerOfPeer == /\ Peer(A) = B /\ Peer(B) = A
                    /\ \A n \in Node : Peer(n) \in Node /\ Peer(n) # n /\ Peer(Peer(n)) = n
                                       /\ \A k \in Node : k = n \/ k = Peer(n)
<1>1. Peer(A) = B
  <2>1. \E m \in Node : m # A
    BY NodesAssumption DEF Node
  <2> QED
    BY <2>1 DEF Peer, Node
<1>2. Peer(B) = A
  <2>1. \E m \in Node : m # B
    BY NodesAssumption DEF Node
  <2> QED
    BY <2>1 DEF Peer, Node
<1> QED
  BY <1>1, <1>2, NodesAssumption DEF Node

\* A message comes out of its packet as long as it went in, and its line is six
\* characters longer.
LEMMA LengthComesBack ==
  ASSUME NEW len \in Lengths
  PROVE  /\ len \in Nat /\ PayloadLength(len) = len + 40
         /\ MessageLength(PayloadLength(len)) = len
         /\ \A p : returnReceivedMessage(p, len) = [what |-> "received", no |-> p.no, len |-> len + 6]
<1>1. len \in 1 .. 195
  BY LengthAssumption
<1>2. PayloadLength(len) = len + 40
  BY <1>1 DEF PayloadLength, ENCRYPTED_LENGTH, NONCE
<1>3. MessageLength(len + 40) = len
  BY <1>1 DEF MessageLength, DECRYPTED_LENGTH, NONCE
<1>4. hostMsg_terminate(hostMsg_addBuffer(protocolAddReceivePrefix, len)) = len + 6
  BY <1>1 DEF hostMsg_terminate, hostMsg_addBuffer, hostMsg_addHexBuffer, protocolAddReceivePrefix
<1> QED
  BY <1>1, <1>2, <1>3, <1>4 DEF returnReceivedMessage

\* The ring that is written when it is full holds what it held and the new packet.
LEMMA OverwriteMembers ==
  ASSUME NEW T, NEW q \in Seq(T), NEW x \in T
  PROVE  Overwrite(q, x) \in Seq(T) /\ Len(Overwrite(q, x)) = Len(q) + 1
<1>1. Len(q) \in Nat /\ q \in [1 .. Len(q) -> T]
  OBVIOUS
<1>2. 0 % Slots = 0
  BY SizesAssumption
<1>3. ASSUME NEW i \in 1 .. Len(q) + 1
      PROVE  (IF (Len(q) + 1 - i) % Slots = 0 THEN x ELSE q[i]) \in T
  <2>1. CASE i = Len(q) + 1
    <3>1. Len(q) + 1 - i = 0
      BY <1>1, <2>1
    <3> QED
      BY <3>1, <1>2
  <2>2. CASE i \in 1 .. Len(q)
    BY <1>1, <2>2
  <2> QED
    BY <1>1, <2>1, <2>2
<1>4. Overwrite(q, x) \in [1 .. Len(q) + 1 -> T]
  BY <1>3 DEF Overwrite
<1> QED
  BY <1>1, <1>4

\* A count that does not exceed what waits, before and after one more packet.
LEMMA CountUp ==
  ASSUME NEW s \in 0 .. 255, NEW l \in Nat, s <= l
  PROVE  /\ s # 0 => l >= 1
         /\ (s + 1) % 256 <= l + 1
         /\ (s + 1) % 256 = 0 => l + 1 >= 256
<1>1. CASE s = 255
  BY <1>1
<1>2. CASE s \in 0 .. 254
  <2>1. (s + 1) % 256 = s + 1
    BY <1>2
  <2> QED
    BY <1>2, <2>1
<1> QED
  BY <1>1, <1>2

\* What the load left in the register stays a lower bound.
LEMMA CountKept ==
  ASSUME NEW t \in 0 .. 255, NEW l \in Nat, (t + 255) % 256 <= l
  PROVE  (t + 255) % 256 <= l + 1
<1>1. (t + 255) % 256 \in Int
  OBVIOUS
<1> QED
  BY <1>1

\* A ring that is not full is written at its end.
LEMMA OverwriteAppends ==
  ASSUME NEW T, NEW q \in Seq(T), NEW x \in T, Len(q) < Slots
  PROVE  Overwrite(q, x) = Append(q, x)
<1>1. Len(q) \in Nat
  BY LenProperties
<1>2. ASSUME NEW i \in 1 .. Len(q) + 1
      PROVE  (IF (Len(q) + 1 - i) % Slots = 0 THEN x ELSE q[i]) = Append(q, x)[i]
  <2>1. CASE i = Len(q) + 1
    <3>1. (Len(q) + 1 - i) % Slots = 0
      BY <1>1, <2>1, SizesAssumption
    <3> QED
      BY <1>1, <2>1, <3>1, AppendProperties
  <2>2. CASE i \in 1 .. Len(q)
    <3>1. Len(q) + 1 - i \in 1 .. Slots - 1
      BY <1>1, <2>2, SizesAssumption
    <3>2. (Len(q) + 1 - i) % Slots # 0
      BY <3>1, SizesAssumption
    <3> QED
      BY <2>2, <3>2, AppendProperties
  <2> QED
    BY <1>1, <2>1, <2>2
<1>3. Overwrite(q, x) = [i \in 1 .. Len(q) + 1 |-> Append(q, x)[i]]
  BY <1>2 DEF Overwrite
<1>4. Append(q, x) = [i \in 1 .. Len(q) + 1 |-> Append(q, x)[i]]
  <2> DEFINE a == Append(q, x)
  <2>1. a \in Seq(T) /\ Len(a) = Len(q) + 1
    BY AppendProperties
  <2> HIDE DEF a
  <2>2. a \in [1 .. Len(q) + 1 -> T]
    BY <2>1, LenProperties
  <2>3. a = [i \in 1 .. Len(q) + 1 |-> a[i]]
    BY <2>2
  <2> QED
    BY <2>3 DEF a
<1> QED
  BY <1>3, <1>4

LEMMA DrawnIsFinite == Keys => IsFiniteSet(Drawn) /\ Cardinality(Drawn) \in Nat
<1> SUFFICES ASSUME Keys PROVE IsFiniteSet(Drawn)
  BY FS_CardinalityType
<1>1. IsFiniteSet(Pair)
  BY FS_Interval, BoundsAssumption DEF Pair, Junk
<1>2. Drawn \subseteq Pair
  BY DEF Drawn, Keys, Node
<1> QED
  BY <1>1, <1>2, FS_Subset

\* There is a fresh pair as long as something may happen.
LEMMA FreshIsPair ==
  ASSUME Keys, Counted, Happens
  PROVE  FreshPair \in Pair /\ Zeros \in Pair
<1>1. Cardinality(Drawn) \in Nat /\ Cardinality(Drawn) <= MaxEvents + 1
  BY DrawnIsFinite, BoundsAssumption DEF Counted, Happens
<1> QED
  BY <1>1, BoundsAssumption DEF FreshPair, Drawn, Pair, Junk, Zeros

LEMMA AnswerIsLine == Answer \in Line
  BY DEF Answer, Line

LEMMA JunkIsPair == Junk \in Pair /\ {Junk} \in SessionKey
<1>1. Junk \in Pair
  BY BoundsAssumption DEF Junk, Pair
<1> QED
  BY <1>1 DEF SessionKey

LEMMA TornIsSendable == ASSUME NEW p \in Sendable PROVE Torn(p) \in Sendable /\ Torn(p).type = p.type
                                                       /\ Torn(p).no = p.no /\ Torn(p).len = p.len
BY JunkIsPair DEF Torn, Sendable

\* A packet's length is a byte.
LEMMA SendableLength == ASSUME NEW p \in Sendable PROVE p.len \in 0 .. 255 /\ p.type \in {"content", "pubkey"}
<1>1. \A l \in Lengths : l \in 1 .. 195 /\ PayloadLength(l) = l + 40
  BY LengthAssumption, LengthComesBack
<1> QED
  BY <1>1 DEF Sendable

-----------------------------------------------------------------------------
(* What the actions do to the parts of the first invariant. *)

\* What every command leaves alone and what it leaves in tx_fifo.
LEMMA CommandFrame ==
  ASSUME NEW n \in Node, processIncomingProtocol(n), ~Burn(n)
  PROVE  /\ Serves(n)
         /\ Replies(n) \/ tx_fifo' = [tx_fifo EXCEPT ![n] = host_tx_processQueue(n)]
         /\ UNCHANGED <<receiveFifo, stored, header, tmp, failures, overflow>>
BY DEF processIncomingProtocol, NoCommand, AnswerOnly, processGenKeys, processSetID, processSetPassword,
       processCommitConfig, processAuth, processPublicKey, processPublicKeyUpdate, processSendMessage,
       rxVars, history

LEMMA BootFrame ==
  ASSUME NEW n \in Node, Burn(n) \/ Reboot(n)
  PROVE  /\ pc' = [pc EXCEPT ![n] = "waiting"]
         /\ receiveFifo' = [receiveFifo EXCEPT ![n] = <<>>] /\ stored' = [stored EXCEPT ![n] = 0]
         /\ header' = [header EXCEPT ![n] = NoHeader] /\ tmp' = [tmp EXCEPT ![n] = 0]
         /\ tx_fifo' = [tx_fifo EXCEPT ![n] = <<>>]
         /\ \E c : book' = [book EXCEPT ![n] = IF c THEN @ ELSE {}]
         /\ Happens
         /\ UNCHANGED <<sent, torn, typed, ever, failures, overflow>>
BY DEF Burn, Reboot, BootFrom, history

\* One step of a main loop that is no command.
Between(n) == \/ Start(n) \/ NoPacket(n) \/ PeekLength(n) \/ PeekHeader(n) \/ TakeContent(n)
              \/ TakePubKey(n) \/ packetReceivedSkip(n) \/ SkipStore(n)

LEMMA StepCases ==
  ASSUME [Next]_vars
  PROVE  \/ UNCHANGED vars
         \/ \E n \in Node : \/ Between(n) \/ handleReceived(n) \/ Burn(n) \/ Reboot(n)
                            \/ processIncomingProtocol(n) /\ ~Burn(n)
BY DEF Next, main, Between

\* The packet the main loop works on is there.
LEMMA HeadIsSendable ==
  ASSUME Ring, NEW n \in Node, Len(receiveFifo[n]) >= 1
  PROVE  /\ Head(receiveFifo[n]) \in Sendable /\ Head(receiveFifo[n]) = receiveFifo[n][1]
         /\ Tail(receiveFifo[n]) \in Seq(Sendable) /\ Len(Tail(receiveFifo[n])) = Len(receiveFifo[n]) - 1
<1>1. receiveFifo[n] \in Seq(Sendable)
  BY DEF Ring
<1>2. receiveFifo[n] # <<>>
  BY EmptySeq
<1> QED
  BY <1>1, <1>2, HeadTailProperties, LenProperties

LEMMA InitIInv == Init => IInv
<1> SUFFICES ASSUME Init PROVE IInv
  OBVIOUS
<1>1. Keys
  BY BoundsAssumption DEF Init, Keys, Pair, Junk, SessionKey
<1>2. Loops
  BY DEF Init, Loops, Places
<1>5. Messages /\ Lines
  BY EmptySeq DEF Init, Messages, Lines
<1>6. Room
  BY EmptySeq DEF Init, Room
<1>3. Ring
  BY EmptySeq DEF Init, Ring, Waiting, AtPacket, Header, NoHeader
<1>4. Counted
  <2>1. Drawn = {2} \cup {3}
    BY NodesAssumption DEF Init, Drawn, Node, Zeros
  <2>2. IsFiniteSet({2}) /\ Cardinality({2}) = 1
    BY FS_Singleton
  <2>3. Cardinality({2} \cup {3}) = 2
    BY <2>2, FS_AddElement
  <2> QED
    BY <2>1, <2>3, EmptySeq, BoundsAssumption DEF Init, Counted
<1> QED
  BY <1>1, <1>2, <1>3, <1>4, <1>5, <1>6 DEF IInv

LEMMA LoopsStep == IInv /\ [Next]_vars => Loops'
<1> SUFFICES ASSUME IInv, [Next]_vars PROVE Loops'
  OBVIOUS
<1>1. ASSUME NEW n \in Node, Between(n) PROVE Loops'
  BY <1>1 DEF Between, Start, NoPacket, PeekLength, PeekHeader, TakeContent, TakePubKey, packetReceivedSkip,
              SkipStore, Goes, Places, keyVars, sesVars, history, IInv, Loops
<1>2. ASSUME NEW n \in Node, handleReceived(n) PROVE Loops'
  BY <1>2 DEF handleReceived, keyVars, sesVars, IInv, Loops
<1>3. ASSUME NEW n \in Node, Burn(n) \/ Reboot(n) PROVE Loops'
  BY <1>3 DEF Burn, Reboot, BootFrom, Places, history, IInv, Loops
<1>4. ASSUME NEW n \in Node, processIncomingProtocol(n), ~Burn(n) PROVE Loops'
  BY <1>4 DEF processIncomingProtocol, NoCommand, AnswerOnly, processGenKeys, processSetID, processSetPassword,
       processCommitConfig, processAuth, processPublicKey, processPublicKeyUpdate, processSendMessage,
       Serves, Places, keyVars, sesVars, history, IInv, Loops
<1>5. CASE UNCHANGED vars
  BY <1>5 DEF vars, keyVars, sesVars, history, IInv, Loops
<1> QED
  BY <1>1, <1>2, <1>3, <1>4, <1>5, StepCases

\* Keys, and what is sent: nothing but commands changes the latter.
LEMMA KeysStep == IInv /\ [Next]_vars => Keys' /\ Messages'
<1> SUFFICES ASSUME IInv, [Next]_vars PROVE Keys' /\ Messages'
  OBVIOUS
<1>1. ASSUME NEW n \in Node, NEW g \in Pair PROVE {pair[n], g} \in SessionKey
  BY DEF IInv, Keys, SessionKey
<1>2. ASSUME UNCHANGED <<pair, book, ever, typed, sent>> PROVE Keys' /\ Messages'
  BY <1>2 DEF IInv, Keys, Messages
<1>3. ASSUME NEW n \in Node, Between(n) PROVE Keys' /\ Messages'
  <2>1. CASE TakePubKey(n)
    <3>1. PICK g \in (IF Head(receiveFifo[n]).type = "pubkey" THEN Head(receiveFifo[n]).key ELSE {})
                     \cup (IF header[n].spoilt THEN {Junk} ELSE {}) : book' = [book EXCEPT ![n] = {pair[n], g}]
      BY <2>1 DEF TakePubKey, saveSSKFor
    <3>2. Head(receiveFifo[n]) \in Sendable
      BY <2>1, HeadIsSendable DEF TakePubKey, Goes, IInv, Ring, Waiting, AtPacket
    <3>3. g \in Pair
      BY <3>1, <3>2, JunkIsPair DEF Sendable
    <3> QED
      BY <1>1, <2>1, <3>1, <3>3 DEF TakePubKey, history, IInv, Keys, Messages
  <2>2. ~TakePubKey(n) => UNCHANGED <<pair, book, ever, typed, sent>>
    BY <1>3, Zenon DEF Between, Start, NoPacket, PeekLength, PeekHeader, TakeContent, packetReceivedSkip,
              SkipStore, keyVars, history
  <2> QED
    BY <1>2, <2>1, <2>2
<1>4. ASSUME NEW n \in Node, handleReceived(n) PROVE Keys' /\ Messages'
  BY <1>2, <1>4 DEF handleReceived, keyVars
<1>5. ASSUME NEW n \in Node, Burn(n) \/ Reboot(n) PROVE Keys' /\ Messages'
  <2>1. pair' \in [Node -> Pair]
    <3>1. Blank \in Pair
      BY BoundsAssumption DEF Blank, Pair, Junk
    <3> QED
      BY <1>5, <3>1 DEF Burn, Reboot, IInv, Keys
  <2>2. book' \in [Node -> SessionKey]
    BY <1>5, BootFrame DEF IInv, Keys, SessionKey
  <2> QED
    BY <1>5, <2>1, <2>2, BootFrame DEF IInv, Keys, Messages
<1>6. ASSUME NEW n \in Node, processGenKeys(n) PROVE Keys' /\ Messages'
  <2>1. PICK g \in {Zeros, FreshPair} : /\ pair' = [pair EXCEPT ![n] = g]
                                        /\ ever' = [ever EXCEPT ![n] = @ \cup {g}]
    BY <1>6 DEF processGenKeys, sha204_getRandom32
  <2>2. g \in Pair
    BY <1>6, <2>1, FreshIsPair DEF processGenKeys, IInv
  <2> QED
    BY <1>6, <2>1, <2>2 DEF processGenKeys, IInv, Keys, Messages
<1>7. ASSUME NEW n \in Node, processPublicKey(n) PROVE Keys' /\ Messages'
  <2>1. PICK g \in ever[Peer(n)] : book' = [book EXCEPT ![n] = {pair[n], g}]
    BY <1>7 DEF processPublicKey, saveSSKFor
  <2>2. g \in Pair
    BY PeerOfPeer DEF IInv, Keys
  <2> QED
    BY <1>1, <1>7, <2>1, <2>2 DEF processPublicKey, history, IInv, Keys, Messages
<1>8. ASSUME NEW n \in Node, NEW p \in Sendable, queuePacket(n, p) PROVE sent' \in [Node -> SUBSET Sendable]
  BY <1>8, TornIsSendable DEF queuePacket, IInv, Messages
<1>9. ASSUME NEW n \in Node, processPublicKeyUpdate(n) PROVE Keys' /\ Messages'
  <2>1. PubKey(n) \in Sendable
    BY DEF PubKey, Sendable, IInv, Keys
  <2> QED
    BY <1>8, <1>9, <2>1 DEF processPublicKeyUpdate, keyVars, history, IInv, Keys, Messages
<1>10. ASSUME NEW n \in Node, processSendMessage(n) PROVE Keys' /\ Messages'
  <2>1. PICK len \in Lengths :
             /\ typed' = [typed EXCEPT ![n] = Append(@, len)]
             /\ queuePacket(n, Content(n, Len(typed[n]) + 1, PayloadLength(len)))
    BY <1>10 DEF processSendMessage
  <2>2. Content(n, Len(typed[n]) + 1, PayloadLength(len)) \in Sendable
    BY DEF Content, Sendable, IInv, Keys, Messages
  <2>3. Append(typed[n], len) \in Seq(Lengths)
    BY AppendProperties DEF IInv, Messages
  <2> QED
    BY <1>8, <1>10, <2>1, <2>2, <2>3 DEF processSendMessage, keyVars, history, IInv, Keys, Messages
<1>11. ASSUME NEW n \in Node, processIncomingProtocol(n), ~Burn(n) PROVE Keys' /\ Messages'
  BY <1>2, <1>6, <1>7, <1>9, <1>10, <1>11 DEF processIncomingProtocol, NoCommand, AnswerOnly, processSetID,
       processSetPassword, processCommitConfig, processAuth, keyVars, history
<1>12. CASE UNCHANGED vars
  BY <1>2, <1>12 DEF vars, keyVars, history
<1> QED
  BY <1>3, <1>4, <1>5, <1>11, <1>12, StepCases

LEMMA LinesStep == IInv /\ [Next]_vars => Lines' /\ Room'
<1> SUFFICES ASSUME IInv, [Next]_vars PROVE Lines' /\ Room'
  OBVIOUS
<1>1. ASSUME NEW n \in Node, NEW q \in Seq(Line), tx_fifo' = [tx_fifo EXCEPT ![n] = q], Len(q) <= 2,
             NEW place \in Places, pc' = [pc EXCEPT ![n] = place],
             place \in {"packet", "peek", "work"} => Len(q) <= 1, place = "waiting" => Len(q) = 0
      PROVE  Lines' /\ Room'
  <2>1. Lines'
    BY <1>1 DEF IInv, Lines
  <2>2. ASSUME NEW m \in Node
        PROVE  /\ m = n => tx_fifo'[m] = q /\ pc'[m] = place
               /\ m # n => tx_fifo'[m] = tx_fifo[m] /\ pc'[m] = pc[m]
    BY <1>1 DEF IInv, Lines, Loops
  <2>3. Room'
    BY <1>1, <2>2 DEF IInv, Room
  <2> QED
    BY <2>1, <2>3
<1>2. ASSUME UNCHANGED <<pc, tx_fifo>> PROVE Lines' /\ Room'
  BY <1>2 DEF IInv, Lines, Room
<1>3. \A n \in Node : /\ tx_fifo[n] \in Seq(Line) /\ Len(tx_fifo[n]) \in Nat
                      /\ tx_fifo = [tx_fifo EXCEPT ![n] = tx_fifo[n]] /\ pc = [pc EXCEPT ![n] = pc[n]]
  BY LenProperties DEF IInv, Lines, Loops
<1>4. ASSUME NEW n \in Node, TakeContent(n) PROVE Lines' /\ Room'
  <2> DEFINE p == Head(receiveFifo[n])
             told == returnReceivedMessage(p, MessageLength(header[n].len))
  <2>1. PICK line \in {Answer, told} :
           /\ host_tx_queueMessage(n, tx_fifo[n], line)
           /\ line # Answer => p.type = "content" /\ p.len = header[n].len
    BY <1>4 DEF TakeContent
  <2>2. PICK place \in {"skip", "spilled"} : Goes(n, "work", place)
    BY <1>4 DEF TakeContent
  <2>3. line \in Line
    <3>1. CASE line # Answer
      <4>1. p \in Sendable
        BY <2>2, HeadIsSendable DEF Goes, IInv, Ring, Waiting, AtPacket
      <4>2. PICK l \in Lengths : p.len = PayloadLength(l) /\ p.no \in Nat
        BY <2>1, <3>1, <4>1 DEF Sendable
      <4>3. told = [what |-> "received", no |-> p.no, len |-> l + 6]
        BY <2>1, <3>1, <4>2, LengthComesBack
      <4> QED
        BY <2>1, <3>1, <4>2, <4>3 DEF Line
    <3> QED
      BY <3>1, AnswerIsLine
  <2>4. Append(tx_fifo[n], line) \in Seq(Line) /\ Len(Append(tx_fifo[n], line)) = Len(tx_fifo[n]) + 1
    BY <1>3, <2>3, AppendProperties
  <2>5. Len(tx_fifo[n]) <= 1
    BY <2>2 DEF Goes, IInv, Room
  <2> DEFINE q == Append(tx_fifo[n], line)
  <2>6. q \in Seq(Line) /\ Len(q) <= 2 /\ tx_fifo' = [tx_fifo EXCEPT ![n] = q]
    BY <1>3, <2>1, <2>4, <2>5 DEF host_tx_queueMessage
  <2> HIDE DEF q
  <2> QED
    BY <1>1, <2>2, <2>6, Zenon DEF Goes, Places
<1>5. ASSUME NEW n \in Node, Between(n), ~TakeContent(n) PROVE Lines' /\ Room'
  <2>1. UNCHANGED tx_fifo
    BY <1>5, Zenon DEF Between, Start, NoPacket, PeekLength, PeekHeader, TakePubKey, packetReceivedSkip, SkipStore
  <2>2. PICK place \in Places :
           /\ pc' = [pc EXCEPT ![n] = place] /\ place # "waiting"
           /\ place \in {"packet", "peek", "work"} => pc[n] \in {"packet", "peek", "work"}
    BY <1>5 DEF Between, Start, NoPacket, PeekLength, PeekHeader, TakePubKey, packetReceivedSkip, SkipStore,
                Goes, Places
  <2>3. Len(tx_fifo[n]) <= 2 /\ (place \in {"packet", "peek", "work"} => Len(tx_fifo[n]) <= 1)
    BY <2>2 DEF IInv, Room
  <2> QED
    BY <1>1, <1>3, <2>1, <2>2, <2>3
<1>6. ASSUME NEW n \in Node, handleReceived(n) PROVE Lines' /\ Room'
  BY <1>2, <1>6 DEF handleReceived
<1>7. ASSUME NEW n \in Node, Burn(n) \/ Reboot(n) PROVE Lines' /\ Room'
  <2>1. \E q \in Seq(Line) : q = <<>> /\ Len(q) = 0
    BY EmptySeq
  <2>2. PICK q \in Seq(Line) : tx_fifo' = [tx_fifo EXCEPT ![n] = q] /\ Len(q) = 0
    BY <1>7, <2>1, BootFrame, Zenon
  <2>3. pc' = [pc EXCEPT ![n] = "waiting"] /\ "waiting" \in Places
    BY <1>7, BootFrame DEF Places
  <2>4. Len(q) <= 2 /\ Len(q) <= 1
    BY <2>2
  <2> QED
    BY <1>1, <2>2, <2>3, <2>4, Zenon
<1>8. ASSUME NEW n \in Node, processIncomingProtocol(n), ~Burn(n) PROVE Lines' /\ Room'
  <2>1. <<>> \in Seq(Line) /\ Append(<<>>, Answer) \in Seq(Line) /\ Len(<<>>) <= 1 /\ Len(Append(<<>>, Answer)) <= 1
    BY AnswerIsLine, EmptySeq, AppendProperties
  <2>2. \/ tx_fifo' = [tx_fifo EXCEPT ![n] = <<>>]
        \/ tx_fifo' = [tx_fifo EXCEPT ![n] = Append(<<>>, Answer)]
    BY <1>8, CommandFrame DEF Replies, host_tx_queueMessage, host_tx_processQueue
  <2>3. PICK q \in Seq(Line) : tx_fifo' = [tx_fifo EXCEPT ![n] = q] /\ Len(q) <= 1
    BY <2>1, <2>2, Zenon
  <2>4. pc' = [pc EXCEPT ![n] = "packet"] /\ "packet" \in Places
    BY <1>8, CommandFrame DEF Serves, Places
  <2>5. Len(q) <= 2
    BY <2>3, LenProperties
  <2> QED
    BY <1>1, <2>3, <2>4, <2>5
<1>9. CASE UNCHANGED vars
  BY <1>2, <1>9 DEF vars
<1> QED
  BY <1>4, <1>5, <1>6, <1>7, <1>8, <1>9, StepCases

\* The main loop's two halves of stored--, and what the interrupt counts meanwhile.
LEMMA RingStep == IInv /\ [Next]_vars => Ring'
<1> SUFFICES ASSUME IInv, [Next]_vars PROVE Ring'
  OBVIOUS
<1>1. ASSUME NEW n \in Node, NEW q \in Seq(Sendable), NEW s \in 0 .. 255, NEW t \in 0 .. 255, NEW h \in Header,
             NEW place \in Places, pc' = [pc EXCEPT ![n] = place],
             receiveFifo' = [receiveFifo EXCEPT ![n] = q], stored' = [stored EXCEPT ![n] = s],
             tmp' = [tmp EXCEPT ![n] = t], header' = [header EXCEPT ![n] = h],
             place # "count" => s <= Len(q),
             place \in AtPacket => Len(q) >= 1,
             place \in AtPacket /\ s = 0 => Len(q) >= 256,
             place = "count" => (t + 255) % 256 <= Len(q)
      PROVE  Ring'
  <2>1. /\ receiveFifo' \in [Node -> Seq(Sendable)] /\ stored' \in [Node -> 0 .. 255]
        /\ tmp' \in [Node -> 0 .. 255] /\ header' \in [Node -> Header]
    BY <1>1 DEF IInv, Ring
  <2>2. ASSUME NEW m \in Node
        PROVE  /\ m = n => pc'[m] = place /\ receiveFifo'[m] = q /\ stored'[m] = s /\ tmp'[m] = t
               /\ m # n => pc'[m] = pc[m] /\ receiveFifo'[m] = receiveFifo[m] /\ stored'[m] = stored[m] /\ tmp'[m] = tmp[m]
    BY <1>1 DEF IInv, Ring, Loops
  <2>3. ASSUME NEW m \in Node PROVE Waiting(m)'
    BY <1>1, <2>2, <2>3 DEF IInv, Ring, Waiting
  <2> QED
    BY <2>1, <2>3 DEF Ring
<1>2. ASSUME NEW n \in Node
      PROVE  /\ pc = [pc EXCEPT ![n] = pc[n]] /\ pc[n] \in Places
             /\ receiveFifo = [receiveFifo EXCEPT ![n] = receiveFifo[n]] /\ receiveFifo[n] \in Seq(Sendable)
             /\ Len(receiveFifo[n]) \in Nat
             /\ stored = [stored EXCEPT ![n] = stored[n]] /\ stored[n] \in 0 .. 255
             /\ tmp = [tmp EXCEPT ![n] = tmp[n]] /\ tmp[n] \in 0 .. 255
             /\ header = [header EXCEPT ![n] = header[n]] /\ header[n] \in Header
             /\ Waiting(n)
  BY LenProperties DEF IInv, Ring, Loops
<1>3. ASSUME NEW n \in Node, NEW place \in Places, pc' = [pc EXCEPT ![n] = place],
             UNCHANGED <<receiveFifo, stored, header, tmp>>, pc[n] # "count", place # "count",
             place \in AtPacket => pc[n] \in AtPacket
      PROVE  Ring'
  <2> DEFINE q == receiveFifo[n]
             s == stored[n]
             t == tmp[n]
             h == header[n]
  <2>1. /\ q \in Seq(Sendable) /\ s \in 0 .. 255 /\ t \in 0 .. 255 /\ h \in Header
        /\ receiveFifo' = [receiveFifo EXCEPT ![n] = q] /\ stored' = [stored EXCEPT ![n] = s]
        /\ tmp' = [tmp EXCEPT ![n] = t] /\ header' = [header EXCEPT ![n] = h]
    BY <1>2, <1>3
  <2>2. /\ s <= Len(q) /\ (place \in AtPacket => Len(q) >= 1)
        /\ place \in AtPacket /\ s = 0 => Len(q) >= 256
    BY <1>2, <1>3 DEF Waiting
  <2>3. place # "count" => s <= Len(q)
    BY <2>2
  <2>4. place = "count" => (t + 255) % 256 <= Len(q)
    BY <1>3
  <2>5. pc' = [pc EXCEPT ![n] = place] /\ place \in Places
    BY <1>3
  <2> HIDE DEF q, s, t, h
  <2> QED
    BY <1>1, <2>1, <2>2, <2>3, <2>4, <2>5, Zenon
<1>4. ASSUME NEW n \in Node, Start(n) \/ NoPacket(n) \/ TakeContent(n) \/ TakePubKey(n) PROVE Ring'
  <2>1. UNCHANGED <<receiveFifo, stored, header, tmp>>
    BY <1>4 DEF Start, NoPacket, TakeContent, TakePubKey, rxVars
  <2>2. PICK place \in Places : /\ pc' = [pc EXCEPT ![n] = place] /\ pc[n] # "count" /\ place # "count"
                                /\ place \in AtPacket => pc[n] \in AtPacket
    BY <1>4 DEF Start, NoPacket, TakeContent, TakePubKey, Goes, Places, AtPacket
  <2> QED
    BY <1>3, <2>1, <2>2
<1>5. ASSUME NEW n \in Node, PeekLength(n) \/ PeekHeader(n) PROVE Ring'
  <2>1. PICK place \in {"peek", "work"} : pc' = [pc EXCEPT ![n] = place]
    BY <1>5 DEF PeekLength, PeekHeader, Goes
  <2>2. pc[n] # "count" /\ Len(receiveFifo[n]) >= 1 /\ (stored[n] = 0 => Len(receiveFifo[n]) >= 256)
    <3>1. CASE PeekLength(n)
      <4>1. pc[n] = "packet" /\ stored[n] # 0
        BY <3>1 DEF PeekLength, Goes
      <4>2. stored[n] <= Len(receiveFifo[n]) /\ stored[n] \in 0 .. 255 /\ Len(receiveFifo[n]) \in Nat
        BY <1>2, <4>1 DEF Waiting
      <4>3. Len(receiveFifo[n]) >= 1
        BY <4>1, <4>2, CountUp, Zenon
      <4> QED
        BY <4>1, <4>3
    <3>2. CASE PeekHeader(n)
      <4>1. pc[n] = "peek"
        BY <3>2 DEF PeekHeader, Goes
      <4> QED
        BY <1>2, <4>1 DEF Waiting, AtPacket
    <3> QED
      BY <1>5, <3>1, <3>2
  <2>3. Head(receiveFifo[n]).len \in 0 .. 255 /\ Head(receiveFifo[n]).type \in {"content", "pubkey"}
    BY <2>2, HeadIsSendable, SendableLength DEF IInv
  <2>4. PICK h \in Header : header' = [header EXCEPT ![n] = h]
    <3> DEFINE a == [header[n] EXCEPT !.len = Head(receiveFifo[n]).len]
               b == [header[n] EXCEPT !.type = Head(receiveFifo[n]).type]
    <3>1. header[n] \in Header
      BY <1>2
    <3>2. a \in Header /\ b \in Header
      BY <2>3, <3>1 DEF Header
    <3>3. header' = [header EXCEPT ![n] = a] \/ header' = [header EXCEPT ![n] = b]
      BY <1>5 DEF PeekLength, PeekHeader
    <3> QED
      BY <3>2, <3>3, Zenon
  <2>5. UNCHANGED <<receiveFifo, stored, tmp>>
    BY <1>5 DEF PeekLength, PeekHeader
  <2>6. stored[n] <= Len(receiveFifo[n])
    BY <1>2, <2>2 DEF Waiting
  <2> DEFINE q == receiveFifo[n]
             s == stored[n]
             t == tmp[n]
  <2>7. /\ q \in Seq(Sendable) /\ s \in 0 .. 255 /\ t \in 0 .. 255
        /\ receiveFifo' = [receiveFifo EXCEPT ![n] = q] /\ stored' = [stored EXCEPT ![n] = s]
        /\ tmp' = [tmp EXCEPT ![n] = t]
    BY <1>2, <2>5
  <2>8. s <= Len(q) /\ Len(q) >= 1 /\ (s = 0 => Len(q) >= 256) /\ place \in Places /\ place # "count"
    BY <2>1, <2>2, <2>6 DEF Places
  <2> HIDE DEF q, s, t
  <2> QED
    BY <1>1, <2>1, <2>4, <2>7, <2>8
<1>6. ASSUME NEW n \in Node, packetReceivedSkip(n) PROVE Ring'
  <2> DEFINE q == Tail(receiveFifo[n])
             t == stored[n]
  <2>1. /\ pc[n] = "skip" /\ pc' = [pc EXCEPT ![n] = "count"] /\ header' = [header EXCEPT ![n] = NoHeader]
        /\ receiveFifo' = [receiveFifo EXCEPT ![n] = q] /\ tmp' = [tmp EXCEPT ![n] = t]
        /\ stored' = [stored EXCEPT ![n] = t]
    BY <1>2, <1>6 DEF packetReceivedSkip, Goes
  <2>2. /\ Len(receiveFifo[n]) >= 1 /\ t <= Len(receiveFifo[n]) /\ (t = 0 => Len(receiveFifo[n]) >= 256)
        /\ t \in 0 .. 255
    BY <1>2, <2>1 DEF Waiting, AtPacket
  <2>3. q \in Seq(Sendable) /\ Len(q) = Len(receiveFifo[n]) - 1
    BY <2>2, HeadIsSendable DEF IInv
  <2> HIDE DEF q, t
  <2>4. (t + 255) % 256 <= Len(q)
    <3>1. CASE t = 0
      BY <1>2, <2>2, <2>3, <3>1
    <3>2. CASE t \in 1 .. 255
      <4>1. (t + 255) % 256 = t - 1
        BY <3>2
      <4>2. Len(receiveFifo[n]) \in Nat
        BY <1>2
      <4> QED
        BY <2>2, <2>3, <3>2, <4>1, <4>2
    <3> QED
      BY <2>2, <3>1, <3>2
  <2>5. NoHeader \in Header /\ "count" \in Places /\ "count" \notin AtPacket
    BY DEF NoHeader, Header, Places, AtPacket
  <2> QED
    BY <1>1, <2>1, <2>2, <2>3, <2>4, <2>5
<1>7. ASSUME NEW n \in Node, SkipStore(n) PROVE Ring'
  <2> DEFINE q == receiveFifo[n]
             s == (tmp[n] + 255) % 256
             h == header[n]
  <2>1. /\ pc[n] = "count" /\ pc' = [pc EXCEPT ![n] = "command"] /\ header' = [header EXCEPT ![n] = h]
        /\ receiveFifo' = [receiveFifo EXCEPT ![n] = q] /\ tmp' = [tmp EXCEPT ![n] = 0]
        /\ stored' = [stored EXCEPT ![n] = s]
    BY <1>2, <1>7 DEF SkipStore, StoreStored, Goes
  <2>2. q \in Seq(Sendable) /\ h \in Header /\ s <= Len(q)
    BY <1>2, <2>1 DEF Waiting
  <2>4. s \in 0 .. 255
    <3>1. tmp[n] \in 0 .. 255
      BY <1>2
    <3> QED
      BY <3>1
  <2> HIDE DEF q, s, h
  <2>3. "command" \in Places /\ "command" \notin AtPacket
    BY DEF Places, AtPacket
  <2>5. 0 \in 0 .. 255 /\ "command" # "count"
    OBVIOUS
  <2> QED
    BY <1>1, <2>1, <2>2, <2>3, <2>4, <2>5, Zenon
<1>8. ASSUME NEW n \in Node, handleReceived(n) PROVE Ring'
  <2>1. PICK p \in sent[Peer(n)] : receiveFifo' = [receiveFifo EXCEPT ![n] = Overwrite(receiveFifo[n], p)]
    BY <1>8 DEF handleReceived
  <2> DEFINE q == Overwrite(receiveFifo[n], p)
             s == (stored[n] + 1) % 256
             t == tmp[n]
             h == [header[n] EXCEPT !.spoilt = @ \/ Spoils(n)]
             place == pc[n]
  <2>2. p \in Sendable
    BY <2>1, PeerOfPeer DEF IInv, Messages
  <2>3. q \in Seq(Sendable) /\ Len(q) = Len(receiveFifo[n]) + 1
    BY <1>2, <2>2, OverwriteMembers
  <2>4. /\ pc' = [pc EXCEPT ![n] = place] /\ place \in Places /\ tmp' = [tmp EXCEPT ![n] = t] /\ t \in 0 .. 255
        /\ stored' = [stored EXCEPT ![n] = s] /\ s \in 0 .. 255
        /\ receiveFifo' = [receiveFifo EXCEPT ![n] = q]
    <3>1. pc' = pc /\ tmp' = tmp /\ stored' = [stored EXCEPT ![n] = s]
      BY <1>8 DEF handleReceived
    <3>2. stored[n] \in 0 .. 255
      BY <1>2
    <3>3. s \in 0 .. 255
      BY <3>2
    <3> HIDE DEF s
    <3> QED
      BY <1>2, <2>1, <3>1, <3>3
  <2>5. h \in Header /\ header' = [header EXCEPT ![n] = h]
    <3> DEFINE b == header[n].spoilt \/ Spoils(n)
    <3>1. b \in BOOLEAN /\ header[n] \in Header
      BY <1>2 DEF Header
    <3>2. header' = [header EXCEPT ![n] = [header[n] EXCEPT !.spoilt = b]]
      BY <1>8, Zenon DEF handleReceived
    <3> HIDE DEF b
    <3>3. [header[n] EXCEPT !.spoilt = b] \in Header
      BY <3>1 DEF Header
    <3> QED
      BY <3>2, <3>3 DEF b
  <2> HIDE DEF q, s, t, h
  <2>7. /\ place # "count" => s <= Len(q)
        /\ place \in AtPacket => Len(q) >= 1
        /\ place \in AtPacket /\ s = 0 => Len(q) >= 256
        /\ place = "count" => (t + 255) % 256 <= Len(q)
    <3>1. "count" \notin AtPacket
      BY DEF AtPacket
    <3>2. stored[n] \in 0 .. 255 /\ Len(receiveFifo[n]) \in Nat
      BY <1>2
    <3>3. place = "count" => (t + 255) % 256 <= Len(receiveFifo[n])
      BY <1>2 DEF Waiting, t
    <3>4. place # "count" => stored[n] <= Len(receiveFifo[n])
      BY <1>2 DEF Waiting
    <3>5. place = "count" => (t + 255) % 256 <= Len(q)
      BY <2>3, <2>4, <3>2, <3>3, CountKept, Zenon
    <3>6. place # "count" => s <= Len(q) /\ (s = 0 => Len(q) >= 256)
      BY <2>3, <3>2, <3>4, CountUp, Zenon DEF s
    <3> QED
      BY <2>3, <3>1, <3>2, <3>5, <3>6
  <2> QED
    BY <1>1, <2>3, <2>4, <2>5, <2>7
<1>9. ASSUME NEW n \in Node, Burn(n) \/ Reboot(n) PROVE Ring'
  <2>1. \E q \in Seq(Sendable) : q = <<>> /\ Len(q) = 0
    BY EmptySeq
  <2>2. PICK q \in Seq(Sendable) : receiveFifo' = [receiveFifo EXCEPT ![n] = q] /\ Len(q) = 0
    BY <1>9, <2>1, BootFrame, Zenon
  <2>3. /\ pc' = [pc EXCEPT ![n] = "waiting"] /\ header' = [header EXCEPT ![n] = NoHeader]
        /\ stored' = [stored EXCEPT ![n] = 0] /\ tmp' = [tmp EXCEPT ![n] = 0]
    BY <1>9, BootFrame
  <2>4. NoHeader \in Header /\ "waiting" \in Places /\ "waiting" \notin AtPacket /\ "waiting" # "count"
    BY DEF NoHeader, Header, Places, AtPacket
  <2>5. 0 \in 0 .. 255 /\ 0 <= Len(q)
    BY <2>2
  <2> QED
    BY <1>1, <2>2, <2>3, <2>4, <2>5, Zenon
<1>10. ASSUME NEW n \in Node, processIncomingProtocol(n), ~Burn(n) PROVE Ring'
  <2>1. /\ pc' = [pc EXCEPT ![n] = "packet"] /\ pc[n] = "command" /\ "packet" \in Places /\ "packet" \notin AtPacket
        /\ UNCHANGED <<receiveFifo, stored, header, tmp>>
    BY <1>10, CommandFrame DEF Serves, Places, AtPacket
  <2> QED
    BY <1>3, <2>1
<1>11. CASE UNCHANGED vars
  BY <1>11 DEF vars, rxVars, IInv, Ring, Waiting
<1> QED
  BY <1>4, <1>5, <1>6, <1>7, <1>8, <1>9, <1>10, <1>11, StepCases DEF Between

\* Pairs are drawn and messages accepted one at a time, and each is an event.
LEMMA CountedStep == IInv /\ [Next]_vars => Counted'
<1> SUFFICES ASSUME IInv, [Next]_vars PROVE Counted'
  OBVIOUS
<1>1. /\ IsFiniteSet(Drawn) /\ Cardinality(Drawn) \in Nat /\ Cardinality(Drawn) <= 2 + events
      /\ events \in 0 .. MaxEvents
      /\ \A n \in Node : Len(typed[n]) \in Nat /\ Len(typed[n]) <= events
  BY DrawnIsFinite, LenProperties DEF IInv, Messages, Counted
<1>2. ASSUME Happens PROVE events' = events + 1 /\ events' \in 0 .. MaxEvents
  BY <1>1, <1>2, BoundsAssumption DEF Happens
<1>3. ASSUME UNCHANGED <<typed, ever>>, UNCHANGED events \/ Happens PROVE Counted'
  <2>1. events' \in 0 .. MaxEvents /\ events <= events'
    BY <1>1, <1>2, <1>3
  <2>2. Drawn' = Drawn
    BY <1>3 DEF Drawn
  <2> QED
    BY <1>1, <1>3, <2>1, <2>2 DEF Counted
<1>4. ASSUME NEW n \in Node, Between(n) \/ handleReceived(n) \/ Burn(n) \/ Reboot(n) PROVE Counted'
  <2>1. CASE Between(n)
    <3>1. UNCHANGED <<typed, ever, events>>
      BY <2>1, Zenon DEF Between, Start, NoPacket, PeekLength, PeekHeader, TakeContent, TakePubKey,
                         packetReceivedSkip, SkipStore, history
    <3> QED
      BY <1>3, <3>1
  <2>2. CASE handleReceived(n)
    BY <1>3, <2>2 DEF handleReceived
  <2>3. CASE Burn(n) \/ Reboot(n)
    BY <1>3, <2>3, BootFrame
  <2> QED
    BY <1>4, <2>1, <2>2, <2>3
<1>5. ASSUME NEW n \in Node, processGenKeys(n) PROVE Counted'
  <2>1. PICK g \in {Zeros, FreshPair} : ever' = [ever EXCEPT ![n] = @ \cup {g}]
    BY <1>5 DEF processGenKeys, sha204_getRandom32
  <2>2. Drawn' = Drawn \/ Drawn' = Drawn \cup {g}
    BY <2>1 DEF Drawn, IInv, Keys, Node
  <2>3. Cardinality(Drawn') \in Nat /\ Cardinality(Drawn') <= Cardinality(Drawn) + 1
    <3>1. Cardinality(Drawn \cup {g}) \in {Cardinality(Drawn), Cardinality(Drawn) + 1}
      BY <1>1, FS_AddElement
    <3>2. Cardinality(Drawn') \in {Cardinality(Drawn), Cardinality(Drawn) + 1}
      BY <2>2, <3>1
    <3>3. Cardinality(Drawn) \in Nat
      BY <1>1
    <3> QED
      BY <3>2, <3>3
  <2>4. events' = events + 1 /\ events' \in 0 .. MaxEvents /\ typed' = typed
    BY <1>2, <1>5 DEF processGenKeys
  <2> QED
    BY <1>1, <2>3, <2>4 DEF Counted
<1>6. ASSUME NEW n \in Node, processSendMessage(n) PROVE Counted'
  <2>1. PICK len \in Lengths : typed' = [typed EXCEPT ![n] = Append(@, len)]
    BY <1>6 DEF processSendMessage
  <2>2. typed \in [Node -> Seq(Lengths)] /\ Len(Append(typed[n], len)) = Len(typed[n]) + 1
    BY AppendProperties DEF IInv, Messages
  <2>3. events' = events + 1 /\ events' \in 0 .. MaxEvents /\ ever' = ever
    BY <1>2, <1>6 DEF processSendMessage, history
  <2>4. \A m \in Node : Len(typed'[m]) = IF m = n THEN Len(typed[n]) + 1 ELSE Len(typed[m])
    BY <2>1, <2>2
  <2>5. Drawn' = Drawn
    BY <2>3 DEF Drawn
  <2> QED
    BY <1>1, <2>3, <2>4, <2>5 DEF Counted
<1>7. ASSUME NEW n \in Node, processIncomingProtocol(n), ~Burn(n) PROVE Counted'
  BY <1>3, <1>5, <1>6, <1>7 DEF processIncomingProtocol, NoCommand, AnswerOnly, processSetID,
       processSetPassword, processCommitConfig, processAuth, processPublicKey, processPublicKeyUpdate, history
<1>8. CASE UNCHANGED vars
  BY <1>3, <1>8 DEF vars, history
<1> QED
  BY <1>4, <1>7, <1>8, StepCases

LEMMA IInvAlways == Spec => []IInv
<1>1. IInv /\ [Next]_vars => IInv'
  BY LoopsStep, KeysStep, LinesStep, RingStep, CountedStep DEF IInv
<1> QED
  BY InitIInv, <1>1, PTL DEF Spec

\* The counts of receiveFifo that the interrupt and the main loop take from each
\* other leave packets unread, but no slot is handled that holds no packet: for
\* rings of any size.
THEOREM CountedPacketsAreThere == Spec => []CountedAreThere
<1>1. IInv => CountedAreThere
  BY DEF IInv, Ring, Waiting, CountedAreThere
<1> QED
  BY <1>1, IInvAlways, PTL

-----------------------------------------------------------------------------
(* Flags and ids. *)

Config == /\ has \in [Node -> SUBSET Components] /\ overflow \in BOOLEAN /\ torn \in BOOLEAN
          /\ my_address \in [Node -> Node \cup {NoId}] /\ \A n \in Node : my_address[n] \in {n, NoId}

LEMMA ConfigAlways == Spec => []Config
<1>1. Init => Config
  BY DEF Init, Config, Node, Components
<1>2. Config /\ [Next]_vars => Config'
  <2> SUFFICES ASSUME Config, [Next]_vars PROVE Config'
    OBVIOUS
  <2>1. ASSUME NEW n \in Node, Between(n) PROVE Config'
    <3>1. UNCHANGED <<has, overflow, torn, my_address>>
      BY <2>1, Zenon DEF Between, Start, NoPacket, PeekLength, PeekHeader, TakeContent, TakePubKey,
                         packetReceivedSkip, SkipStore, sesVars, keyVars, history
    <3> QED
      BY <3>1 DEF Config
  <2>2. ASSUME NEW n \in Node, processIncomingProtocol(n), ~Burn(n) PROVE Config'
    <3>1. torn' \in BOOLEAN /\ overflow' = overflow
      BY <2>2, CommandFrame DEF processIncomingProtocol, NoCommand, AnswerOnly, processGenKeys, processSetID,
         processSetPassword, processCommitConfig, processAuth, processPublicKey, processPublicKeyUpdate,
         processSendMessage, queuePacket, Config
    <3>2. has' = has \/ \E c \in Components : Flag(n, c)
      BY <2>2 DEF processIncomingProtocol, NoCommand, AnswerOnly, processGenKeys, processSetID,
         processSetPassword, processCommitConfig, processAuth, processPublicKey, processPublicKeyUpdate,
         processSendMessage, keyVars, Components
    <3>3. my_address' = my_address \/ my_address' = [my_address EXCEPT ![n] = n]
      BY <2>2 DEF processIncomingProtocol, NoCommand, AnswerOnly, processGenKeys, processSetID, setRoutingId,
         processSetPassword, processCommitConfig, processAuth, processPublicKey, processPublicKeyUpdate,
         processSendMessage, sesVars
    <3> QED
      BY <3>1, <3>2, <3>3 DEF Config, Flag
  <2>3. ASSUME NEW n \in Node, Burn(n) \/ Reboot(n) PROVE Config'
    BY <2>3 DEF Burn, Reboot, BootFrom, history, Config
  <2>4. ASSUME NEW n \in Node, handleReceived(n) PROVE Config'
    BY <2>4 DEF handleReceived, sesVars, keyVars, Config
  <2>5. CASE UNCHANGED vars
    BY <2>5 DEF vars, sesVars, keyVars, history, Config
  <2> QED
    BY <2>1, <2>2, <2>3, <2>4, <2>5, StepCases
<1> QED
  BY <1>1, <1>2, PTL DEF Spec

\* Authenticated implies configured, at every point of every run: a burn takes both
\* away, a boot and a wrong password the first, and nothing but a burn the second.
THEOREM AuthenticatedNodesAreConfigured == Spec => []AuthenticatedIsConfigured
<1>1. Init => AuthenticatedIsConfigured
  BY DEF Init, AuthenticatedIsConfigured
<1>2. IInv /\ AuthenticatedIsConfigured /\ [Next]_vars => AuthenticatedIsConfigured'
  <2> SUFFICES ASSUME IInv, AuthenticatedIsConfigured, [Next]_vars PROVE AuthenticatedIsConfigured'
    OBVIOUS
  <2>1. ASSUME UNCHANGED <<authenticated, configured>> PROVE AuthenticatedIsConfigured'
    BY <2>1 DEF AuthenticatedIsConfigured
  <2>2. ASSUME NEW n \in Node, Start(n) \/ Burn(n) \/ Reboot(n) PROVE AuthenticatedIsConfigured'
    BY <2>2 DEF Start, Burn, Reboot, BootFrom, keyVars, IInv, Loops, AuthenticatedIsConfigured
  <2>3. ASSUME NEW n \in Node, processAuth(n) PROVE AuthenticatedIsConfigured'
    BY <2>3 DEF processAuth, keyVars, IInv, Loops, AuthenticatedIsConfigured
  <2>4. ASSUME NEW n \in Node, processCommitConfig(n) PROVE AuthenticatedIsConfigured'
    BY <2>4 DEF processCommitConfig, sesVars, IInv, Loops, AuthenticatedIsConfigured
  <2>5. ASSUME NEW n \in Node, Between(n), ~Start(n) PROVE AuthenticatedIsConfigured'
    <3>1. UNCHANGED <<authenticated, configured>>
      BY <2>5, Zenon DEF Between, NoPacket, PeekLength, PeekHeader, TakeContent, TakePubKey,
                         packetReceivedSkip, SkipStore, sesVars, keyVars
    <3> QED
      BY <2>1, <3>1
  <2>6. ASSUME NEW n \in Node, processIncomingProtocol(n), ~Burn(n) PROVE AuthenticatedIsConfigured'
    BY <2>1, <2>3, <2>4, <2>6 DEF processIncomingProtocol, NoCommand, AnswerOnly, processGenKeys, processSetID,
       processSetPassword, processPublicKey, processPublicKeyUpdate, processSendMessage, sesVars, keyVars
  <2>7. ASSUME NEW n \in Node, handleReceived(n) PROVE AuthenticatedIsConfigured'
    BY <2>1, <2>7 DEF handleReceived, sesVars, keyVars
  <2>8. CASE UNCHANGED vars
    BY <2>1, <2>8 DEF vars, sesVars, keyVars
  <2> QED
    BY <2>2, <2>5, <2>6, <2>7, <2>8, StepCases
<1> QED
  BY <1>1, <1>2, IInvAlways, PTL DEF Spec

-----------------------------------------------------------------------------
(* What messages and lines say: the second invariant. *)

\* The packets and the lines there can be when these messages were typed.
SentBy(l) == {p \in Sendable : p.type = "content" => p.no \in 1 .. Len(l) /\ p.len = PayloadLength(l[p.no])}
Told(l)   == {r \in Line : IF r.what = "received" THEN r.no \in 1 .. Len(l) /\ r.len = l[r.no] + 6 ELSE r.no = 0}

AsTyped == \A n \in Node : /\ sent[n] \subseteq SentBy(typed[n])
                           /\ receiveFifo[n] \in Seq(SentBy(typed[Peer(n)]))
                           /\ tx_fifo[n] \in Seq(Told(typed[Peer(n)]))

\* What was typed stays typed.
LEMMA TypedStays ==
  ASSUME NEW l \in Seq(Lengths), NEW x \in Lengths
  PROVE  SentBy(l) \subseteq SentBy(Append(l, x)) /\ Told(l) \subseteq Told(Append(l, x))
<1>1. /\ Len(l) \in Nat /\ Len(Append(l, x)) = Len(l) + 1
      /\ \A i \in 1 .. Len(l) : i \in 1 .. Len(l) + 1 /\ Append(l, x)[i] = l[i]
  BY AppendProperties, LenProperties
<1> DEFINE m == Append(l, x)
<1>2. Len(m) = Len(l) + 1 /\ \A i \in 1 .. Len(l) : i \in 1 .. Len(m) /\ m[i] = l[i]
  BY <1>1
<1> HIDE DEF m
<1>3. SentBy(l) \subseteq SentBy(m) /\ Told(l) \subseteq Told(m)
  BY <1>2 DEF SentBy, Told
<1> QED
  BY <1>3 DEF m

LEMMA SeqGrows == ASSUME NEW S, NEW T, S \subseteq T, NEW q \in Seq(S) PROVE q \in Seq(T)
<1>1. q \in [1 .. Len(q) -> S] /\ Len(q) \in Nat
  BY LenProperties
<1>2. q \in [1 .. Len(q) -> T]
  BY <1>1
<1> QED
  BY <1>1, <1>2

LEMMA AsTypedStep == IInv /\ AsTyped /\ [Next]_vars => AsTyped'
<1> SUFFICES ASSUME IInv, AsTyped, [Next]_vars PROVE AsTyped'
  OBVIOUS
<1>1. ASSUME UNCHANGED <<typed, sent>>, NEW n \in Node,
             NEW r \in Seq(SentBy(typed[Peer(n)])), receiveFifo' = [receiveFifo EXCEPT ![n] = r],
             NEW q \in Seq(Told(typed[Peer(n)])), tx_fifo' = [tx_fifo EXCEPT ![n] = q]
      PROVE  AsTyped'
  <2>1. ASSUME NEW m \in Node
        PROVE  /\ m = n => receiveFifo'[m] = r /\ tx_fifo'[m] = q
               /\ m # n => receiveFifo'[m] = receiveFifo[m] /\ tx_fifo'[m] = tx_fifo[m]
    BY <1>1 DEF IInv, Ring, Lines
  <2>2. \A m \in Node : /\ sent'[m] = sent[m] /\ typed'[m] = typed[m] /\ typed'[Peer(m)] = typed[Peer(m)]
    BY <1>1
  <2> QED
    BY <1>1, <2>1, <2>2, Zenon DEF AsTyped
<1>2. ASSUME NEW n \in Node
      PROVE  /\ receiveFifo[n] \in Seq(SentBy(typed[Peer(n)])) /\ tx_fifo[n] \in Seq(Told(typed[Peer(n)]))
             /\ receiveFifo = [receiveFifo EXCEPT ![n] = receiveFifo[n]]
             /\ tx_fifo = [tx_fifo EXCEPT ![n] = tx_fifo[n]]
  BY DEF AsTyped, IInv, Ring, Lines
<1>3. \A l : <<>> \in Seq(Told(l)) /\ Append(<<>>, Answer) \in Seq(Told(l)) /\ Answer \in Told(l)
  <2>1. \A l : Answer \in Told(l)
    BY AnswerIsLine DEF Told, Answer
  <2> QED
    BY <2>1, EmptySeq, AppendProperties
<1>4. ASSUME NEW n \in Node, TakeContent(n) PROVE AsTyped'
  <2> DEFINE p == Head(receiveFifo[n])
             l == typed[Peer(n)]
             told == returnReceivedMessage(p, MessageLength(header[n].len))
  <2>1. PICK line \in {Answer, told} :
           /\ host_tx_queueMessage(n, tx_fifo[n], line)
           /\ line # Answer => p.type = "content" /\ p.len = header[n].len
    BY <1>4 DEF TakeContent
  <2>2. line \in Told(l)
    <3>1. CASE line # Answer
      <4>1. Len(receiveFifo[n]) >= 1
        BY <1>4 DEF TakeContent, Goes, IInv, Ring, Waiting, AtPacket
      <4>2. p = receiveFifo[n][1] /\ receiveFifo[n] \in Seq(SentBy(l)) /\ p \in Sendable
        BY <1>2, <4>1, HeadIsSendable DEF IInv
      <4>3. p \in SentBy(l)
        BY <4>1, <4>2, ElementOfSeq, LenProperties
      <4>4. p.no \in 1 .. Len(l) /\ p.len = PayloadLength(l[p.no])
        BY <2>1, <3>1, <4>3 DEF SentBy
      <4>5. l \in Seq(Lengths)
        BY PeerOfPeer DEF IInv, Messages
      <4>6. l[p.no] \in Lengths /\ p.no \in Nat
        BY <4>4, <4>5, ElementOfSeq
      <4>7. told = [what |-> "received", no |-> p.no, len |-> l[p.no] + 6]
        BY <2>1, <3>1, <4>4, <4>6, LengthComesBack
      <4>8. told \in Line
        BY <4>6, <4>7 DEF Line
      <4> QED
        BY <2>1, <3>1, <4>4, <4>7, <4>8 DEF Told
    <3> QED
      BY <1>3, <3>1
  <2>3. Append(tx_fifo[n], line) \in Seq(Told(l)) /\ tx_fifo' = [tx_fifo EXCEPT ![n] = Append(tx_fifo[n], line)]
    BY <1>2, <2>1, <2>2, AppendProperties DEF host_tx_queueMessage
  <2>4. UNCHANGED <<typed, sent, receiveFifo>>
    BY <1>4 DEF TakeContent, rxVars
  <2> QED
    BY <1>1, <1>2, <2>3, <2>4
<1>5. ASSUME NEW n \in Node, packetReceivedSkip(n) PROVE AsTyped'
  <2>1. Len(receiveFifo[n]) >= 1
    BY <1>5 DEF packetReceivedSkip, Goes, IInv, Ring, Waiting, AtPacket
  <2>2. receiveFifo[n] # <<>>
    BY <2>1, EmptySeq
  <2>3. Tail(receiveFifo[n]) \in Seq(SentBy(typed[Peer(n)]))
    BY <1>2, <2>2, HeadTailProperties
  <2>4. UNCHANGED <<typed, sent, tx_fifo>> /\ receiveFifo' = [receiveFifo EXCEPT ![n] = Tail(receiveFifo[n])]
    BY <1>5 DEF packetReceivedSkip
  <2> QED
    BY <1>1, <1>2, <2>3, <2>4
<1>6. ASSUME UNCHANGED <<typed, sent, tx_fifo, receiveFifo>> PROVE AsTyped'
  BY <1>6 DEF AsTyped
<1>7. ASSUME NEW n \in Node, Between(n) PROVE AsTyped'
  <2>1. ~TakeContent(n) /\ ~packetReceivedSkip(n) => UNCHANGED <<typed, sent, tx_fifo, receiveFifo>>
    BY <1>7, Zenon DEF Between, Start, NoPacket, PeekLength, PeekHeader, TakePubKey, SkipStore, rxVars
  <2> QED
    BY <1>4, <1>5, <1>6, <2>1
<1>8. ASSUME NEW n \in Node, handleReceived(n) PROVE AsTyped'
  <2>1. PICK p \in sent[Peer(n)] : receiveFifo' = [receiveFifo EXCEPT ![n] = Overwrite(receiveFifo[n], p)]
    BY <1>8 DEF handleReceived
  <2>2. p \in SentBy(typed[Peer(n)])
    BY <2>1, PeerOfPeer DEF AsTyped
  <2>3. Overwrite(receiveFifo[n], p) \in Seq(SentBy(typed[Peer(n)]))
    BY <1>2, <2>2, OverwriteMembers
  <2>4. UNCHANGED <<typed, sent, tx_fifo>>
    BY <1>8 DEF handleReceived
  <2> QED
    BY <1>1, <1>2, <2>1, <2>3, <2>4
<1>9. ASSUME NEW n \in Node, Burn(n) \/ Reboot(n) PROVE AsTyped'
  <2>1. \A S : <<>> \in Seq(S)
    BY EmptySeq
  <2>2. PICK r \in Seq(SentBy(typed[Peer(n)])) : receiveFifo' = [receiveFifo EXCEPT ![n] = r]
    BY <1>9, <2>1, BootFrame, Zenon
  <2>3. PICK q \in Seq(Told(typed[Peer(n)])) : tx_fifo' = [tx_fifo EXCEPT ![n] = q]
    BY <1>9, <2>1, BootFrame, Zenon
  <2>4. UNCHANGED <<typed, sent>>
    BY <1>9, BootFrame
  <2> QED
    BY <1>1, <2>2, <2>3, <2>4
<1>10. ASSUME NEW n \in Node, Replies(n) \/ tx_fifo' = [tx_fifo EXCEPT ![n] = host_tx_processQueue(n)]
       PROVE  \E q : tx_fifo' = [tx_fifo EXCEPT ![n] = q] /\ \A l : q \in Seq(Told(l))
  <2>1. \/ tx_fifo' = [tx_fifo EXCEPT ![n] = <<>>]
        \/ tx_fifo' = [tx_fifo EXCEPT ![n] = Append(<<>>, Answer)]
    BY <1>10 DEF Replies, host_tx_queueMessage, host_tx_processQueue
  <2> QED
    BY <1>3, <2>1, Zenon
<1>11. ASSUME NEW n \in Node, processSendMessage(n) PROVE AsTyped'
  <2>1. PICK x \in Lengths :
             /\ typed' = [typed EXCEPT ![n] = Append(@, x)]
             /\ queuePacket(n, Content(n, Len(typed[n]) + 1, PayloadLength(x)))
    BY <1>11 DEF processSendMessage
  <2> DEFINE l == Append(typed[n], x)
             p == Content(n, Len(typed[n]) + 1, PayloadLength(x))
  <2>2. PICK q : tx_fifo' = [tx_fifo EXCEPT ![n] = q] /\ \A k : q \in Seq(Told(k))
    BY <1>10, <1>11 DEF processSendMessage
  <2>3. UNCHANGED receiveFifo
    BY <1>11 DEF processSendMessage, rxVars
  <2>4. typed[n] \in Seq(Lengths) /\ l \in Seq(Lengths) /\ Len(l) = Len(typed[n]) + 1 /\ l[Len(typed[n]) + 1] = x
        /\ Len(typed[n]) \in Nat
    BY AppendProperties, LenProperties DEF IInv, Messages
  <2>5. p \in SentBy(l) /\ Torn(p) \in SentBy(l)
    <3>1. p \in Sendable /\ p.type = "content" /\ p.no = Len(typed[n]) + 1 /\ p.len = PayloadLength(x)
      BY <2>4 DEF Content, Sendable, IInv, Keys
    <3>2. Torn(p) \in Sendable /\ Torn(p).no = p.no /\ Torn(p).len = p.len
      BY <3>1, TornIsSendable
    <3>3. p.no \in 1 .. Len(l) /\ p.len = PayloadLength(l[p.no])
      BY <2>4, <3>1
    <3> HIDE DEF p, l
    <3> QED
      BY <3>1, <3>2, <3>3 DEF SentBy
  <2>6. SentBy(typed[n]) \subseteq SentBy(l) /\ Told(typed[n]) \subseteq Told(l)
    BY <2>4, TypedStays
  <2>7. \A m \in Node : /\ sent'[m] \subseteq sent[m] \cup (IF m = n THEN {p, Torn(p)} ELSE {})
                        /\ typed'[m] = IF m = n THEN l ELSE typed[m]
                        /\ tx_fifo'[m] = IF m = n THEN q ELSE tx_fifo[m]
    BY <2>1, <2>2 DEF queuePacket, IInv, Messages, Lines
  <2> HIDE DEF p, l
  <2>8. ASSUME NEW m \in Node PROVE sent'[m] \subseteq SentBy(typed'[m])
    BY <2>5, <2>6, <2>7 DEF AsTyped
  <2>9. ASSUME NEW m \in Node
        PROVE  /\ SentBy(typed[m]) \subseteq SentBy(typed'[m]) /\ Told(typed[m]) \subseteq Told(typed'[m])
    BY <2>6, <2>7
  <2>10. ASSUME NEW m \in Node
         PROVE receiveFifo'[m] \in Seq(SentBy(typed'[Peer(m)])) /\ tx_fifo'[m] \in Seq(Told(typed'[Peer(m)]))
    <3>1. receiveFifo[m] \in Seq(SentBy(typed'[Peer(m)])) /\ tx_fifo[m] \in Seq(Told(typed'[Peer(m)]))
      BY <1>2, <2>9, SeqGrows, PeerOfPeer
    <3> QED
      BY <2>2, <2>3, <2>7, <3>1
  <2> QED
    BY <2>8, <2>10 DEF AsTyped
<1>12. ASSUME NEW n \in Node, processPublicKeyUpdate(n) PROVE AsTyped'
  <2>1. PICK q : tx_fifo' = [tx_fifo EXCEPT ![n] = q] /\ \A k : q \in Seq(Told(k))
    BY <1>10, <1>12 DEF processPublicKeyUpdate
  <2>2. UNCHANGED <<receiveFifo, typed>> /\ queuePacket(n, PubKey(n))
    BY <1>12 DEF processPublicKeyUpdate, rxVars
  <2>3. PubKey(n) \in SentBy(typed[n]) /\ Torn(PubKey(n)) \in SentBy(typed[n])
    <3>1. PubKey(n) \in Sendable /\ PubKey(n).type = "pubkey"
      BY DEF PubKey, Sendable, IInv, Keys
    <3> QED
      BY <3>1, TornIsSendable DEF SentBy
  <2>4. ASSUME NEW m \in Node PROVE sent'[m] \subseteq SentBy(typed'[m])
    <3>1. sent'[m] \subseteq sent[m] \cup (IF m = n THEN {PubKey(n), Torn(PubKey(n))} ELSE {})
      BY <2>2 DEF queuePacket, IInv, Messages
    <3> QED
      BY <2>2, <2>3, <3>1 DEF AsTyped
  <2>5. ASSUME NEW m \in Node PROVE tx_fifo'[m] \in Seq(Told(typed'[Peer(m)]))
    BY <1>2, <2>1, <2>2 DEF IInv, Lines
  <2> QED
    BY <1>2, <2>2, <2>4, <2>5 DEF AsTyped
<1>13. ASSUME NEW n \in Node, processIncomingProtocol(n), ~Burn(n) PROVE AsTyped'
  <2>1. PICK q : tx_fifo' = [tx_fifo EXCEPT ![n] = q] /\ \A k : q \in Seq(Told(k))
    BY <1>10, <1>13, CommandFrame
  <2>2. CASE UNCHANGED <<typed, sent>>
    BY <1>1, <1>2, <1>13, <2>1, <2>2, CommandFrame
  <2> QED
    BY <1>11, <1>12, <1>13, <2>2 DEF processIncomingProtocol, NoCommand, AnswerOnly, processGenKeys,
       processSetID, processSetPassword, processCommitConfig, processAuth, processPublicKey
<1>14. CASE UNCHANGED vars
  BY <1>6, <1>14 DEF vars, rxVars
<1> QED
  BY <1>7, <1>8, <1>9, <1>13, <1>14, StepCases

LEMMA AsTypedAlways == Spec => []AsTyped
<1>1. Init => AsTyped
  BY EmptySeq DEF Init, AsTyped
<1> QED
  BY <1>1, AsTypedStep, IInvAlways, PTL DEF Spec

\* A line with a message says what the other host typed, with its length, whatever
\* the network did to the packets and wherever the interrupt came in; for messages
\* of any length and queues of any size.
THEOREM MessagesArriveIntact == Spec => []MessagesIntact
<1>1. IInv /\ AsTyped => MessagesIntact
  <2> SUFFICES ASSUME IInv, AsTyped, NEW n \in Node, NEW i \in DOMAIN tx_fifo[n], tx_fifo[n][i].what = "received"
               PROVE  /\ tx_fifo[n][i].no \in DOMAIN typed[Peer(n)]
                      /\ tx_fifo[n][i].len
                         = returnReceivedMessage(tx_fifo[n][i], typed[Peer(n)][tx_fifo[n][i].no]).len
    BY DEF MessagesIntact
  <2> DEFINE l == typed[Peer(n)]
             r == tx_fifo[n][i]
  <2>1. tx_fifo[n] \in Seq(Told(l)) /\ l \in Seq(Lengths)
    BY PeerOfPeer DEF AsTyped, IInv, Messages
  <2>2. r \in Told(l)
    BY <2>1, LenProperties, ElementOfSeq
  <2>3. r.no \in 1 .. Len(l) /\ r.len = l[r.no] + 6 /\ 1 .. Len(l) = DOMAIN l
    BY <2>1, <2>2, LenProperties DEF Told
  <2>4. returnReceivedMessage(r, l[r.no]) = [what |-> "received", no |-> r.no, len |-> l[r.no] + 6]
    BY <2>1, <2>3, ElementOfSeq, LengthComesBack
  <2> QED
    BY <2>3, <2>4
<1> QED
  BY <1>1, IInvAlways, AsTypedAlways, PTL

-----------------------------------------------------------------------------
(* Lengths of the lines: the third invariant. *)

Short == {r \in Line : r.len <= ReplySize}
Long  == {r \in Line : r.what = "received" /\ ~(r.len <= ReplySize)}
Fits  == \A n \in Node : IF pc[n] = "spilled" THEN \E q \in Seq(Short), r \in Long : tx_fifo[n] = Append(q, r)
                                              ELSE tx_fifo[n] \in Seq(Short)

\* A line that is too long is the last, for the main loop goes no further.
LEMMA FitsStep == ASSUME ReplySize >= 67 PROVE IInv /\ Fits /\ [Next]_vars => Fits'
<1> SUFFICES ASSUME IInv, Fits, [Next]_vars PROVE Fits'
  OBVIOUS
<1>1. ASSUME NEW n \in Node, NEW place \in Places, NEW q, tx_fifo' = [tx_fifo EXCEPT ![n] = q],
             pc' = [pc EXCEPT ![n] = place],
             IF place = "spilled" THEN \E s \in Seq(Short), r \in Long : q = Append(s, r) ELSE q \in Seq(Short)
      PROVE  Fits'
  <2>1. ASSUME NEW m \in Node
        PROVE  /\ m = n => tx_fifo'[m] = q /\ pc'[m] = place
               /\ m # n => tx_fifo'[m] = tx_fifo[m] /\ pc'[m] = pc[m]
    BY <1>1 DEF IInv, Lines, Loops
  <2>2. ASSUME NEW m \in Node
        PROVE  IF pc'[m] = "spilled" THEN \E s \in Seq(Short), r \in Long : tx_fifo'[m] = Append(s, r)
                                     ELSE tx_fifo'[m] \in Seq(Short)
    <3>1. CASE m = n
      BY <1>1, <2>1, <3>1
    <3>2. CASE m # n
      BY <2>1, <3>2 DEF Fits
    <3> QED
      BY <3>1, <3>2
  <2> QED
    BY <2>2 DEF Fits, Short, Long
<1>2. Answer \in Short /\ <<>> \in Seq(Short) /\ Append(<<>>, Answer) \in Seq(Short)
  <2>1. Answer.len = 67
    BY DEF Answer, returnPublicKey, hostMsg_terminate, hostMsg_addBuffer, hostMsg_addHexBuffer,
           protocolAddReplyPrefix
  <2>2. Answer \in Short
    BY <2>1, AnswerIsLine DEF Short
  <2> QED
    BY <2>2, EmptySeq, AppendProperties
<1>3. ASSUME NEW n \in Node, pc[n] # "spilled", UNCHANGED tx_fifo,
             NEW place \in Places, place # "spilled", pc' = [pc EXCEPT ![n] = place]
      PROVE  Fits'
  <2>1. tx_fifo[n] \in Seq(Short) /\ tx_fifo' = [tx_fifo EXCEPT ![n] = tx_fifo[n]]
    BY <1>3 DEF Fits, IInv, Lines
  <2> QED
    BY <1>1, <1>3, <2>1
<1>4. ASSUME NEW n \in Node, TakeContent(n) PROVE Fits'
  <2> DEFINE p == Head(receiveFifo[n])
             told == returnReceivedMessage(p, MessageLength(header[n].len))
  <2>1. pc[n] = "work" /\ tx_fifo[n] \in Seq(Short)
    BY <1>4 DEF TakeContent, Goes, Fits
  <2>2. CASE /\ tx_fifo' = [tx_fifo EXCEPT ![n] = Append(tx_fifo[n], Answer)]
             /\ pc' = [pc EXCEPT ![n] = "skip"]
    <3>1. Append(tx_fifo[n], Answer) \in Seq(Short)
      BY <1>2, <2>1, AppendProperties
    <3>2. "skip" \in Places /\ "skip" # "spilled"
      BY DEF Places
    <3> QED
      BY <1>1, <2>2, <3>1, <3>2
  <2>3. CASE /\ p.type = "content" /\ p.len = header[n].len
             /\ tx_fifo' = [tx_fifo EXCEPT ![n] = Append(tx_fifo[n], told)]
             /\ pc' = [pc EXCEPT ![n] = IF told.len <= ReplySize THEN "skip" ELSE "spilled"]
    <3>1. told \in Line /\ told.what = "received"
      <4>1. p \in Sendable
        BY <2>1, HeadIsSendable DEF IInv, Ring, Waiting, AtPacket
      <4>2. PICK l \in Lengths : p.len = PayloadLength(l) /\ p.no \in Nat
        BY <2>3, <4>1 DEF Sendable
      <4>3. told = [what |-> "received", no |-> p.no, len |-> l + 6]
        BY <2>3, <4>2, LengthComesBack
      <4> QED
        BY <4>2, <4>3 DEF Line
    <3>2. CASE told.len <= ReplySize
      <4>1. Append(tx_fifo[n], told) \in Seq(Short)
        BY <2>1, <3>1, <3>2, AppendProperties DEF Short
      <4>2. "skip" \in Places /\ "skip" # "spilled" /\ pc' = [pc EXCEPT ![n] = "skip"]
        BY <2>3, <3>2 DEF Places
      <4> QED
        BY <1>1, <2>3, <4>1, <4>2
    <3>3. CASE ~(told.len <= ReplySize)
      <4>1. told \in Long
        BY <3>1, <3>3 DEF Long
      <4>2. "spilled" \in Places /\ pc' = [pc EXCEPT ![n] = "spilled"]
        BY <2>3, <3>3 DEF Places
      <4>3. \E s \in Seq(Short), r \in Long : Append(tx_fifo[n], told) = Append(s, r)
        BY <2>1, <4>1
      <4> QED
        BY <1>1, <2>3, <4>2, <4>3
    <3> QED
      BY <3>2, <3>3
  <2> QED
    BY <1>4, <2>2, <2>3 DEF TakeContent, Goes, host_tx_queueMessage
<1>5. ASSUME NEW n \in Node, Between(n), ~TakeContent(n) PROVE Fits'
  <2>1. UNCHANGED tx_fifo
    BY <1>5, Zenon DEF Between, Start, NoPacket, PeekLength, PeekHeader, TakePubKey, packetReceivedSkip, SkipStore
  <2>2. PICK place \in Places : pc' = [pc EXCEPT ![n] = place] /\ place # "spilled" /\ pc[n] # "spilled"
    BY <1>5 DEF Between, Start, NoPacket, PeekLength, PeekHeader, TakePubKey, packetReceivedSkip, SkipStore,
                Goes, Places
  <2> QED
    BY <1>3, <2>1, <2>2
<1>6. ASSUME UNCHANGED <<pc, tx_fifo>> PROVE Fits'
  BY <1>6 DEF Fits, Short, Long
<1>7. ASSUME NEW n \in Node, Burn(n) \/ Reboot(n) PROVE Fits'
  <2>1. /\ tx_fifo' = [tx_fifo EXCEPT ![n] = <<>>] /\ pc' = [pc EXCEPT ![n] = "waiting"]
        /\ "waiting" \in Places /\ "waiting" # "spilled"
    BY <1>7, BootFrame DEF Places
  <2> QED
    BY <1>1, <1>2, <2>1, Zenon
<1>8. ASSUME NEW n \in Node, processIncomingProtocol(n), ~Burn(n) PROVE Fits'
  <2>1. \/ tx_fifo' = [tx_fifo EXCEPT ![n] = <<>>]
        \/ tx_fifo' = [tx_fifo EXCEPT ![n] = Append(<<>>, Answer)]
    BY <1>8, CommandFrame DEF Replies, host_tx_queueMessage, host_tx_processQueue
  <2>2. pc' = [pc EXCEPT ![n] = "packet"] /\ "packet" \in Places /\ "packet" # "spilled"
    BY <1>8, CommandFrame DEF Serves, Places
  <2> QED
    BY <1>1, <1>2, <2>1, <2>2, Zenon
<1>9. ASSUME NEW n \in Node, handleReceived(n) PROVE Fits'
  BY <1>6, <1>9 DEF handleReceived
<1>10. CASE UNCHANGED vars
  BY <1>6, <1>10 DEF vars
<1> QED
  BY <1>4, <1>5, <1>7, <1>8, <1>9, <1>10, StepCases

LEMMA FitsAlways == ASSUME ReplySize >= 67 PROVE Spec => []Fits
<1>1. Init => Fits
  BY EmptySeq DEF Init, Fits
<1>2. IInv /\ Fits /\ [Next]_vars => Fits'
  BY FitsStep
<1> QED
  BY <1>1, <1>2, IInvAlways, PTL DEF Spec

\* tx_fifo never holds more lines than it has slots, and every line fits its buffer
\* of 200 characters, except the one of a message of 195 characters, with which the
\* main loop ends: for messages of any length that the host can type.
THEOREM RepliesAlwaysFit == ASSUME ReplySlots >= 2, ReplySize = 200
                            PROVE  Spec => []RepliesFit
<1>1. IInv /\ AsTyped /\ Fits => RepliesFit
  <2> SUFFICES ASSUME IInv, AsTyped, Fits, NEW n \in Node
               PROVE  /\ Len(tx_fifo[n]) <= ReplySlots
                      /\ \A i \in DOMAIN tx_fifo[n] : \/ tx_fifo[n][i].len <= ReplySize
                                                      \/ TooLong(n, tx_fifo[n][i])
    BY DEF RepliesFit
  <2>1. Len(tx_fifo[n]) <= ReplySlots
    <3>1. Len(tx_fifo[n]) \in Nat /\ Len(tx_fifo[n]) <= 2
      BY LenProperties DEF IInv, Lines, Room
    <3> QED
      BY <3>1, SizesAssumption
  <2>2. ASSUME NEW i \in DOMAIN tx_fifo[n]
        PROVE  tx_fifo[n][i].len <= ReplySize \/ TooLong(n, tx_fifo[n][i])
    <3>1. CASE pc[n] # "spilled"
      <4>1. tx_fifo[n] \in Seq(Short)
        BY <3>1 DEF Fits
      <4>2. tx_fifo[n][i] \in Short
        BY <2>2, <4>1, LenProperties, ElementOfSeq
      <4> QED
        BY <4>2 DEF Short
    <3>2. CASE pc[n] = "spilled"
      <4>1. PICK q \in Seq(Short), r \in Long : tx_fifo[n] = Append(q, r)
        BY <3>2 DEF Fits
      <4>2. /\ Len(q) \in Nat /\ Len(tx_fifo[n]) = Len(q) + 1 /\ DOMAIN tx_fifo[n] = 1 .. Len(q) + 1
            /\ tx_fifo[n][Len(q) + 1] = r /\ \A j \in 1 .. Len(q) : tx_fifo[n][j] = q[j] /\ q[j] \in Short
        <5>1. q \in Seq(Short \cup Long) /\ r \in Short \cup Long
          BY SeqGrows
        <5> QED
          BY <4>1, <5>1, AppendProperties, LenProperties, ElementOfSeq
      <4>3. CASE i \in 1 .. Len(q)
        BY <4>2, <4>3 DEF Short
      <4>4. CASE i = Len(q) + 1
        <5> DEFINE l == typed[Peer(n)]
        <5>1. tx_fifo[n] \in Seq(Told(l)) /\ l \in Seq(Lengths)
          BY PeerOfPeer DEF AsTyped, IInv, Messages
        <5>2. r \in Told(l)
          BY <2>2, <4>2, <4>4, <5>1, LenProperties, ElementOfSeq
        <5>3. r.what = "received" /\ ~(r.len <= 200) /\ r.no \in 1 .. Len(l) /\ r.len = l[r.no] + 6
          BY <5>2 DEF Long, Told
        <5>4. l[r.no] \in 1 .. 195
          BY <5>1, <5>3, ElementOfSeq, LengthAssumption
        <5>5. \A k \in 1 .. 195 : ~(k + 6 <= 200) => k = 195
          OBVIOUS
        <5>6. l[r.no] = 195
          BY <5>3, <5>4, <5>5
        <5> QED
          BY <3>2, <4>2, <4>4, <5>3, <5>6 DEF TooLong
      <4> QED
        BY <2>2, <4>2, <4>3, <4>4
    <3> QED
      BY <3>1, <3>2
  <2> QED
    BY <2>1, <2>2
<1>2. Spec => []Fits
  BY FitsAlways
<1> QED
  BY <1>1, <1>2, IInvAlways, AsTypedAlways, PTL

-----------------------------------------------------------------------------
\* Every packet, line, key, flag and counter is one the code can hold, however much
\* happens: a message's number never exceeds the messages typed.
THEOREM TypeCorrect == Spec => []TypeOK
<1>1. IInv /\ AsTyped /\ Config => TypeOK
  <2> SUFFICES ASSUME IInv, AsTyped, Config PROVE TypeOK
    OBVIOUS
  <2>1. ASSUME NEW n \in Node, NEW p \in SentBy(typed[n]) PROVE p \in Packet
    <3>1. p \in Sendable /\ p.len \in 0 .. 255 /\ p.type \in {"content", "pubkey"}
      BY SendableLength DEF SentBy
    <3>2. Len(typed[n]) \in Nat /\ Len(typed[n]) <= events /\ events \in 0 .. MaxEvents
      BY LenProperties DEF IInv, Messages, Counted
    <3>3. p.no \in 0 .. MaxEvents
      <4>1. CASE p.type = "content"
        <5>1. p.no \in 1 .. Len(typed[n])
          BY <4>1 DEF SentBy
        <5> QED
          BY <3>2, <5>1, BoundsAssumption
      <4>2. CASE p.type = "pubkey"
        <5>1. p.no = 0
          BY <3>1, <4>2 DEF Sendable
        <5> QED
          BY <5>1, BoundsAssumption
      <4> QED
        BY <3>1, <4>1, <4>2
    <3>4. p.key \in SessionKey
      <4>1. \A g \in Pair : {g} = {g, g}
        OBVIOUS
      <4> QED
        BY <3>1, <4>1 DEF Sendable, SessionKey
    <3>5. p = [type |-> p.type, key |-> p.key, no |-> p.no, len |-> p.len]
      BY <3>1 DEF Sendable
    <3> QED
      BY <3>1, <3>3, <3>4, <3>5 DEF Packet
  <2>2. ASSUME NEW n \in Node, NEW r \in Told(typed[n]) PROVE r \in Reply
    <3>1. r \in Line
      BY DEF Told
    <3>2. Len(typed[n]) \in Nat /\ Len(typed[n]) <= events /\ events \in 0 .. MaxEvents
      BY LenProperties DEF IInv, Messages, Counted
    <3>3. r.no \in 0 .. MaxEvents
      <4>1. r.no = 0 \/ r.no \in 1 .. Len(typed[n])
        BY DEF Told
      <4> QED
        BY <3>2, <4>1, BoundsAssumption
    <3>4. r.len \in 0 .. 255
      <4>1. returnPublicKey = 67
        BY DEF returnPublicKey, hostMsg_terminate, hostMsg_addBuffer, hostMsg_addHexBuffer, protocolAddReplyPrefix
      <4>2. \A l \in Lengths : l \in 1 .. 195
        BY LengthAssumption
      <4>3. r.len = returnPublicKey \/ \E l \in Lengths : r.len = l + 6
        BY <3>1 DEF Line
      <4> QED
        BY <4>1, <4>2, <4>3
    <3> QED
      BY <3>1, <3>3, <3>4 DEF Line, Reply
  <2>3. ASSUME NEW n \in Node
        PROVE  /\ my_address[n] \in {n, NoId}
               /\ \A p \in sent[n] : p \in Packet
               /\ \A i \in DOMAIN receiveFifo[n] : receiveFifo[n][i] \in Packet
               /\ \A i \in DOMAIN tx_fifo[n] : tx_fifo[n][i] \in Reply
    <3>1. Peer(n) \in Node
      BY PeerOfPeer
    <3>2. /\ sent[n] \subseteq SentBy(typed[n]) /\ receiveFifo[n] \in Seq(SentBy(typed[Peer(n)]))
          /\ tx_fifo[n] \in Seq(Told(typed[Peer(n)]))
      BY DEF AsTyped
    <3>3. \A i \in DOMAIN receiveFifo[n] : receiveFifo[n][i] \in SentBy(typed[Peer(n)])
      BY <3>2, LenProperties, ElementOfSeq
    <3>4. \A i \in DOMAIN tx_fifo[n] : tx_fifo[n][i] \in Told(typed[Peer(n)])
      BY <3>2, LenProperties, ElementOfSeq
    <3> QED
      BY <2>1, <2>2, <3>1, <3>2, <3>3, <3>4 DEF Config
  <2>4. /\ pc \in [Node -> Places] /\ authenticated \in [Node -> BOOLEAN] /\ configured \in [Node -> BOOLEAN]
        /\ has \in [Node -> SUBSET Components] /\ pair \in [Node -> Pair] /\ book \in [Node -> SessionKey]
        /\ stored \in [Node -> 0..255] /\ tmp \in [Node -> 0..255] /\ header \in [Node -> Header]
    BY DEF IInv, Loops, Keys, Ring, Config
  <2> QED
    BY <2>3, <2>4 DEF TypeOK
<1> QED
  BY <1>1, IInvAlways, AsTypedAlways, ConfigAlways, PTL

-----------------------------------------------------------------------------
(* The slot at work, and whose keys messages are encrypted with: the fourth    *)
(* invariant.                                                                 *)

\* As long as the ring was never written when it was full, the main loop works on
\* the packet whose length and header it copied.
HeaderIsHead ==
    ~overflow => \A n \in Node :
        /\ ~header[n].spoilt
        /\ pc[n] \in {"peek", "work"} => header[n].len = Head(receiveFifo[n]).len
        /\ pc[n] = "work" => header[n].type = Head(receiveFifo[n]).type

LEMMA HeaderStep == IInv /\ Config /\ HeaderIsHead /\ [Next]_vars => HeaderIsHead'
<1> SUFFICES ASSUME IInv, Config, HeaderIsHead, [Next]_vars PROVE HeaderIsHead'
  OBVIOUS
<1>1. ASSUME ~overflow, NEW n \in Node, NEW place, pc' = [pc EXCEPT ![n] = place],
             NEW q \in Seq(Sendable), receiveFifo' = [receiveFifo EXCEPT ![n] = q],
             NEW h \in Header, header' = [header EXCEPT ![n] = h], ~h.spoilt,
             place \in {"peek", "work"} => h.len = Head(q).len, place = "work" => h.type = Head(q).type
      PROVE  HeaderIsHead'
  <2>1. ASSUME NEW m \in Node
        PROVE  /\ m = n => receiveFifo'[m] = q /\ pc'[m] = place /\ header'[m] = h
               /\ m # n => receiveFifo'[m] = receiveFifo[m] /\ pc'[m] = pc[m] /\ header'[m] = header[m]
    BY <1>1 DEF IInv, Ring, Loops
  <2>2. ASSUME NEW m \in Node
        PROVE  /\ ~header'[m].spoilt
               /\ pc'[m] \in {"peek", "work"} => header'[m].len = Head(receiveFifo'[m]).len
               /\ pc'[m] = "work" => header'[m].type = Head(receiveFifo'[m]).type
    <3>1. CASE m = n
      BY <1>1, <2>1, <3>1
    <3>2. CASE m # n
      BY <1>1, <2>1, <3>2 DEF HeaderIsHead
    <3> QED
      BY <3>1, <3>2
  <2> QED
    BY <2>2 DEF HeaderIsHead
<1>2. ASSUME NEW n \in Node
      PROVE  /\ receiveFifo[n] \in Seq(Sendable) /\ receiveFifo = [receiveFifo EXCEPT ![n] = receiveFifo[n]]
             /\ header[n] \in Header /\ header = [header EXCEPT ![n] = header[n]]
             /\ pc = [pc EXCEPT ![n] = pc[n]]
             /\ ~overflow => /\ ~header[n].spoilt
                             /\ pc[n] \in {"peek", "work"} => header[n].len = Head(receiveFifo[n]).len
                             /\ pc[n] = "work" => header[n].type = Head(receiveFifo[n]).type
  BY DEF IInv, Ring, Loops, HeaderIsHead
<1>3. ASSUME ~overflow, NEW n \in Node, UNCHANGED <<receiveFifo, header>>, NEW place, pc' = [pc EXCEPT ![n] = place],
             place \notin {"peek", "work"}
      PROVE  HeaderIsHead'
  <2>1. place # "work"
    BY <1>3
  <2>2. receiveFifo' = [receiveFifo EXCEPT ![n] = receiveFifo[n]] /\ header' = [header EXCEPT ![n] = header[n]]
    BY <1>2, <1>3
  <2> QED
    BY <1>1, <1>2, <1>3, <2>1, <2>2, Zenon
<1>4. ASSUME ~overflow, NEW n \in Node, PeekLength(n) \/ PeekHeader(n) PROVE HeaderIsHead'
  <2> DEFINE p == Head(receiveFifo[n])
  <2>1. /\ (pc[n] = "packet" /\ stored[n] # 0) \/ pc[n] = "peek"
        /\ UNCHANGED receiveFifo
    BY <1>4 DEF PeekLength, PeekHeader, Goes
  <2>2. Len(receiveFifo[n]) >= 1
    <3>1. CASE pc[n] = "peek"
      BY <3>1 DEF IInv, Ring, Waiting, AtPacket
    <3>2. CASE pc[n] = "packet" /\ stored[n] # 0
      <4>1. stored[n] \in 0 .. 255 /\ Len(receiveFifo[n]) \in Nat /\ stored[n] <= Len(receiveFifo[n])
        BY <1>2, <3>2, LenProperties DEF IInv, Ring, Waiting
      <4> QED
        BY <3>2, <4>1, CountUp, Zenon
    <3> QED
      BY <2>1, <3>1, <3>2
  <2>3. p.len \in 0 .. 255 /\ p.type \in {"content", "pubkey"}
    BY <2>2, HeadIsSendable, SendableLength DEF IInv
  <2>4. receiveFifo' = [receiveFifo EXCEPT ![n] = receiveFifo[n]]
    BY <1>2, <2>1
  <2>5. CASE PeekLength(n)
    <3> DEFINE h == [header[n] EXCEPT !.len = p.len]
    <3>1. h \in Header /\ ~h.spoilt /\ h.len = p.len
      BY <1>2, <1>4, <2>3 DEF Header
    <3>2. header' = [header EXCEPT ![n] = h] /\ pc' = [pc EXCEPT ![n] = "peek"] /\ "peek" # "work"
      BY <2>5 DEF PeekLength, Goes
    <3> HIDE DEF h
    <3> QED
      BY <1>1, <1>2, <1>4, <2>4, <3>1, <3>2, Zenon
  <2>6. CASE PeekHeader(n)
    <3> DEFINE h == [header[n] EXCEPT !.type = p.type]
    <3>1. pc[n] = "peek"
      BY <2>6 DEF PeekHeader, Goes
    <3>2. h \in Header /\ ~h.spoilt /\ h.len = p.len /\ h.type = p.type
      BY <1>2, <1>4, <2>3, <3>1 DEF Header
    <3>3. header' = [header EXCEPT ![n] = h] /\ pc' = [pc EXCEPT ![n] = "work"]
      BY <2>6 DEF PeekHeader, Goes
    <3> HIDE DEF h
    <3> QED
      BY <1>1, <1>2, <1>4, <2>4, <3>2, <3>3
  <2> QED
    BY <1>4, <2>5, <2>6
<1>5. NoHeader \in Header /\ ~NoHeader.spoilt
  BY DEF NoHeader, Header
<1>6. ASSUME ~overflow, NEW n \in Node, packetReceivedSkip(n) PROVE HeaderIsHead'
  <2>1. Len(receiveFifo[n]) >= 1
    BY <1>6 DEF packetReceivedSkip, Goes, IInv, Ring, Waiting, AtPacket
  <2>2. Tail(receiveFifo[n]) \in Seq(Sendable)
    BY <2>1, HeadIsSendable DEF IInv
  <2>3. /\ receiveFifo' = [receiveFifo EXCEPT ![n] = Tail(receiveFifo[n])] /\ header' = [header EXCEPT ![n] = NoHeader]
        /\ pc' = [pc EXCEPT ![n] = "count"] /\ "count" \notin {"peek", "work"} /\ "count" # "work"
    BY <1>6 DEF packetReceivedSkip, Goes
  <2> QED
    BY <1>1, <1>5, <1>6, <2>2, <2>3, Zenon
<1>7. ASSUME ~overflow, NEW n \in Node, Between(n) PROVE HeaderIsHead'
  <2>1. ASSUME Start(n) \/ NoPacket(n) \/ TakeContent(n) \/ TakePubKey(n) \/ SkipStore(n) PROVE HeaderIsHead'
    <3>1. UNCHANGED <<receiveFifo, header>>
      BY <2>1 DEF Start, NoPacket, TakeContent, TakePubKey, SkipStore, rxVars
    <3>2. PICK place : pc' = [pc EXCEPT ![n] = place] /\ place \notin {"peek", "work"}
      BY <2>1 DEF Start, NoPacket, TakeContent, TakePubKey, SkipStore, Goes
    <3> QED
      BY <1>3, <1>7, <3>1, <3>2
  <2> QED
    BY <1>4, <1>6, <1>7, <2>1 DEF Between
<1>8. ASSUME NEW n \in Node, handleReceived(n), ~overflow' PROVE HeaderIsHead'
  <2>1. PICK p \in sent[Peer(n)] : receiveFifo' = [receiveFifo EXCEPT ![n] = Overwrite(receiveFifo[n], p)]
    BY <1>8 DEF handleReceived
  <2>2. p \in Sendable
    BY <2>1, PeerOfPeer DEF IInv, Messages
  <2>3. ~overflow /\ ~(Len(receiveFifo[n]) >= Slots) /\ Len(receiveFifo[n]) \in Nat
    BY <1>2, <1>8, LenProperties DEF handleReceived, Config
  <2>4. Len(receiveFifo[n]) < Slots
    BY <2>3, SizesAssumption
  <2> DEFINE q == Append(receiveFifo[n], p)
  <2>5. q \in Seq(Sendable) /\ receiveFifo' = [receiveFifo EXCEPT ![n] = q]
    <3>1. receiveFifo[n] \in Seq(Sendable)
      BY <1>2
    <3>2. Overwrite(receiveFifo[n], p) = q
      BY <2>2, <2>4, <3>1, OverwriteAppends
    <3>3. q \in Seq(Sendable)
      BY <2>2, <3>1, AppendProperties
    <3> QED
      BY <2>1, <3>2, <3>3
  <2>6. pc[n] \in {"peek", "work"} => Len(receiveFifo[n]) >= 1 /\ Head(q) = Head(receiveFifo[n]) /\ ~Spoils(n)
    <3> SUFFICES ASSUME pc[n] \in {"peek", "work"}
                 PROVE  Len(receiveFifo[n]) >= 1 /\ Head(q) = Head(receiveFifo[n]) /\ ~Spoils(n)
      OBVIOUS
    <3>1. Len(receiveFifo[n]) >= 1
      BY DEF IInv, Ring, Waiting, AtPacket
    <3>2. Head(q) = Head(receiveFifo[n])
      BY <1>2, <2>2, <3>1, AppendProperties, LenProperties
    <3>3. \A l \in 1 .. Slots - 1 : l % Slots # 0
      BY SizesAssumption
    <3>4. Len(receiveFifo[n]) \in 1 .. Slots - 1
      BY <2>3, <2>4, <3>1, SizesAssumption
    <3> QED
      BY <3>1, <3>2, <3>3, <3>4 DEF Spoils
  <2>7. ~Spoils(n)
    BY <2>6 DEF Spoils
  <2> DEFINE h == [header[n] EXCEPT !.spoilt = @ \/ Spoils(n)]
  <2>8. header' = [header EXCEPT ![n] = h] /\ pc' = [pc EXCEPT ![n] = pc[n]]
    BY <1>2, <1>8, Zenon DEF handleReceived
  <2>9. h \in Header /\ ~h.spoilt /\ h.len = header[n].len /\ h.type = header[n].type
    BY <1>2, <2>3, <2>7 DEF Header
  <2>10. /\ pc[n] \in {"peek", "work"} => h.len = Head(q).len
         /\ pc[n] = "work" => h.type = Head(q).type
    BY <1>2, <2>3, <2>6, <2>9
  <2> HIDE DEF h, q
  <2> QED
    BY <1>1, <2>3, <2>5, <2>8, <2>9, <2>10, Zenon
<1>9. ASSUME ~overflow, NEW n \in Node, Burn(n) \/ Reboot(n) PROVE HeaderIsHead'
  <2>1. \A S : <<>> \in Seq(S)
    BY EmptySeq
  <2>2. PICK q \in Seq(Sendable) : receiveFifo' = [receiveFifo EXCEPT ![n] = q]
    BY <1>9, <2>1, BootFrame, Zenon
  <2>3. /\ header' = [header EXCEPT ![n] = NoHeader] /\ pc' = [pc EXCEPT ![n] = "waiting"]
        /\ "waiting" \notin {"peek", "work"} /\ "waiting" # "work"
    BY <1>9, BootFrame
  <2> QED
    BY <1>1, <1>5, <1>9, <2>2, <2>3, Zenon
<1>10. ASSUME ~overflow, NEW n \in Node, processIncomingProtocol(n), ~Burn(n) PROVE HeaderIsHead'
  <2>1. pc' = [pc EXCEPT ![n] = "packet"] /\ "packet" \notin {"peek", "work"} /\ UNCHANGED <<receiveFifo, header>>
    BY <1>10, CommandFrame DEF Serves
  <2> QED
    BY <1>3, <1>10, <2>1
<1>11. CASE UNCHANGED vars
  BY <1>11 DEF vars, rxVars, history, HeaderIsHead
<1>12. ASSUME overflow', overflow' \in BOOLEAN PROVE HeaderIsHead'
  BY <1>12 DEF HeaderIsHead
<1>13. ASSUME overflow, ~UNCHANGED vars PROVE overflow'
  BY <1>13 DEF Next, main, processIncomingProtocol, NoCommand, AnswerOnly, processGenKeys, processSetID,
     processSetPassword, processCommitConfig, processAuth, processPublicKey, processPublicKeyUpdate,
     processSendMessage, Burn, Reboot, BootFrom, Start, NoPacket, PeekLength, PeekHeader, TakeContent, TakePubKey,
     packetReceivedSkip, SkipStore, handleReceived, history
<1>14. overflow \in BOOLEAN
  BY DEF Config
<1> QED
  BY <1>7, <1>8, <1>9, <1>10, <1>11, <1>12, <1>13, <1>14, StepCases DEF HeaderIsHead

LEMMA HeaderAlways == Spec => []HeaderIsHead
<1>1. Init => HeaderIsHead
  BY DEF Init, HeaderIsHead, NoHeader
<1> QED
  BY <1>1, HeaderStep, IInvAlways, ConfigAlways, PTL DEF Spec

\* While no pair in use is replaced and no packet is sent half written, every packet
\* there is was encrypted with the one session key there can be, or carries the one
\* public key its sender has had.
Shared    == {pair[A], pair[B]}
Honest(n) == {p \in Sendable : p.key = IF p.type = "content" THEN Shared ELSE {pair[n]}}
Quiet     == ~replaced /\ ~overflow /\ ~torn
KeysShared(n) == /\ ever[n] = {pair[n]}
                 /\ book[n] \in {{}, Shared}
                 /\ sent[n] \subseteq Honest(n)
                 /\ receiveFifo[n] \in Seq(Honest(Peer(n)))
Undisturbed == Quiet => \A n \in Node : KeysShared(n)

LEMMA SharedByBoth == ASSUME NEW n \in Node PROVE {pair[n], pair[Peer(n)]} = Shared
BY PeerOfPeer DEF Shared, Node

\* Nothing is undone: what disturbed the keys once has disturbed them.
LEMMA QuietBefore == ASSUME IInv, Config, [Next]_vars, Quiet' PROVE Quiet
<1>1. replaced \in BOOLEAN /\ overflow \in BOOLEAN /\ torn \in BOOLEAN
  BY DEF IInv, Loops, Config
<1>2. ASSUME NEW n \in Node, Between(n) PROVE UNCHANGED <<replaced, overflow, torn>>
  BY <1>2, Zenon DEF Between, Start, NoPacket, PeekLength, PeekHeader, TakeContent, TakePubKey,
                     packetReceivedSkip, SkipStore, history
<1>3. ASSUME NEW n \in Node, handleReceived(n) PROVE UNCHANGED <<replaced, torn>> /\ (overflow => overflow')
  BY <1>3 DEF handleReceived
<1>4. ASSUME NEW n \in Node, Burn(n) \/ Reboot(n) PROVE UNCHANGED <<overflow, torn>> /\ (replaced => replaced')
  <2>1. UNCHANGED <<overflow, torn>>
    BY <1>4, BootFrame
  <2>2. replaced => replaced'
    BY <1>1, <1>4, Zenon DEF Burn, Reboot, history
  <2> QED
    BY <2>1, <2>2
<1>5. ASSUME NEW n \in Node, processIncomingProtocol(n), ~Burn(n)
      PROVE  UNCHANGED overflow /\ (torn => torn') /\ (replaced => replaced')
  BY <1>1, <1>5, CommandFrame DEF processIncomingProtocol, NoCommand, AnswerOnly, processGenKeys, processSetID,
     processSetPassword, processCommitConfig, processAuth, processPublicKey, processPublicKeyUpdate,
     processSendMessage, queuePacket, history
<1>6. CASE UNCHANGED vars
  BY <1>6 DEF vars, history, Quiet
<1> QED
  BY <1>1, <1>2, <1>3, <1>4, <1>5, <1>6, StepCases DEF Quiet

LEMMA UndisturbedStep == IInv /\ Config /\ HeaderIsHead /\ Undisturbed /\ [Next]_vars => Undisturbed'
<1> SUFFICES ASSUME IInv, Config, HeaderIsHead, Undisturbed, [Next]_vars, Quiet', Quiet,
                    \A n \in Node : KeysShared(n)
             PROVE  \A m \in Node : KeysShared(m)'
  BY QuietBefore DEF Undisturbed
<1>1. ASSUME NEW n \in Node
      PROVE  /\ ever[n] = {pair[n]} /\ book[n] \in {{}, Shared} /\ sent[n] \subseteq Honest(n)
             /\ receiveFifo[n] \in Seq(Honest(Peer(n)))
  BY DEF KeysShared
<1>2. ASSUME UNCHANGED <<pair, ever>>,
             \A m \in Node : /\ book'[m] \in {{}, Shared} /\ sent'[m] \subseteq Honest(m)
                             /\ receiveFifo'[m] \in Seq(Honest(Peer(m)))
      PROVE  \A m \in Node : KeysShared(m)'
  <2>1. Shared' = Shared /\ \A m \in Node : Honest(m)' = Honest(m)
    BY <1>2 DEF Shared, Honest
  <2>2. ASSUME NEW m \in Node
        PROVE  /\ ever'[m] = {pair'[m]} /\ book'[m] \in {{}, Shared'} /\ sent'[m] \subseteq Honest(m)'
               /\ receiveFifo'[m] \in Seq(Honest(Peer(m))')
    <3>1. ever'[m] = {pair'[m]}
      BY <1>1, <1>2
    <3>2. book'[m] \in {{}, Shared'} /\ sent'[m] \subseteq Honest(m)'
      BY <1>2, <2>1
    <3>3. Honest(Peer(m))' = Honest(Peer(m))
      BY <2>1, PeerOfPeer
    <3>4. receiveFifo'[m] \in Seq(Honest(Peer(m)))
      BY <1>2
    <3>5. receiveFifo'[m] \in Seq(Honest(Peer(m))')
      BY <3>3, <3>4, Zenon
    <3> QED
      BY <3>1, <3>2, <3>5
  <2> QED
    BY <2>2 DEF KeysShared
<1>3. ASSUME UNCHANGED <<pair, ever, sent>>,
             UNCHANGED book \/ \E n \in Node, k \in {{}, Shared} : book' = [book EXCEPT ![n] = k],
             UNCHANGED receiveFifo \/ \E n \in Node : \E q \in Seq(Honest(Peer(n))) : receiveFifo' = [receiveFifo EXCEPT ![n] = q]
      PROVE  \A m \in Node : KeysShared(m)'
  <2>1. ASSUME NEW m \in Node PROVE book'[m] \in {{}, Shared}
    BY <1>1, <1>3 DEF IInv, Keys
  <2>2. ASSUME NEW m \in Node PROVE receiveFifo'[m] \in Seq(Honest(Peer(m)))
    <3>1. CASE UNCHANGED receiveFifo
      BY <1>1, <3>1
    <3>2. CASE \E n \in Node : \E q \in Seq(Honest(Peer(n))) : receiveFifo' = [receiveFifo EXCEPT ![n] = q]
      <4>1. PICK n \in Node : \E q \in Seq(Honest(Peer(n))) : receiveFifo' = [receiveFifo EXCEPT ![n] = q]
        BY <3>2
      <4>3. PICK q \in Seq(Honest(Peer(n))) : receiveFifo' = [receiveFifo EXCEPT ![n] = q]
        BY <4>1
      <4>2. receiveFifo'[m] = IF m = n THEN q ELSE receiveFifo[m]
        BY <4>3 DEF IInv, Ring
      <4> QED
        BY <1>1, <4>2
    <3> QED
      BY <1>3, <3>1, <3>2
  <2> QED
    BY <1>1, <1>2, <1>3, <2>1, <2>2
<1>4. ASSUME NEW n \in Node, Between(n) PROVE \A m \in Node : KeysShared(m)'
  <2>1. CASE TakePubKey(n)
    <3> DEFINE p == Head(receiveFifo[n])
    <3>1. /\ pc[n] = "work" /\ header[n].type = "pubkey" /\ ~overflow
          /\ UNCHANGED <<pair, ever, sent, receiveFifo>>
      BY <2>1 DEF TakePubKey, Goes, rxVars, history, Quiet
    <3>2. ~header[n].spoilt /\ p.type = "pubkey"
      BY <3>1 DEF HeaderIsHead
    <3>3. PICK g \in p.key : book' = [book EXCEPT ![n] = {pair[n], g}]
      BY <2>1, <3>2 DEF TakePubKey, saveSSKFor
    <3>4. Len(receiveFifo[n]) >= 1 /\ p = receiveFifo[n][1]
      BY <3>1, HeadIsSendable DEF IInv, Ring, Waiting, AtPacket
    <3>5. p \in Honest(Peer(n))
      BY <1>1, <3>4, ElementOfSeq, LenProperties
    <3>6. g = pair[Peer(n)]
      BY <3>2, <3>3, <3>5 DEF Honest
    <3>7. {pair[n], g} = Shared
      BY <3>6, SharedByBoth
    <3> QED
      BY <1>3, <3>1, <3>3, <3>7
  <2>2. CASE packetReceivedSkip(n)
    <3>1. /\ pc[n] = "skip" /\ receiveFifo' = [receiveFifo EXCEPT ![n] = Tail(receiveFifo[n])]
          /\ UNCHANGED <<pair, ever, sent, book>>
      BY <2>2 DEF packetReceivedSkip, Goes, keyVars, history
    <3>2. Len(receiveFifo[n]) >= 1
      BY <3>1 DEF IInv, Ring, Waiting, AtPacket
    <3>3. receiveFifo[n] # <<>>
      BY <3>2, EmptySeq
    <3>4. Tail(receiveFifo[n]) \in Seq(Honest(Peer(n)))
      BY <1>1, <3>3, HeadTailProperties
    <3> QED
      BY <1>3, <3>1, <3>4
  <2>3. ~TakePubKey(n) /\ ~packetReceivedSkip(n) => UNCHANGED <<pair, ever, sent, book, receiveFifo>>
    BY <1>4, Zenon DEF Between, Start, NoPacket, PeekLength, PeekHeader, TakeContent, SkipStore,
                       rxVars, keyVars, history
  <2> QED
    BY <1>3, <2>1, <2>2, <2>3
<1>5. ASSUME NEW n \in Node, handleReceived(n) PROVE \A m \in Node : KeysShared(m)'
  <2>1. PICK p \in sent[Peer(n)] : receiveFifo' = [receiveFifo EXCEPT ![n] = Overwrite(receiveFifo[n], p)]
    BY <1>5 DEF handleReceived
  <2>2. p \in Honest(Peer(n))
    BY <1>1, <2>1, PeerOfPeer
  <2>3. Overwrite(receiveFifo[n], p) \in Seq(Honest(Peer(n)))
    BY <1>1, <2>2, OverwriteMembers
  <2>4. UNCHANGED <<pair, ever, sent, book>>
    BY <1>5 DEF handleReceived, keyVars
  <2> QED
    BY <1>3, <2>1, <2>3, <2>4
<1>6. ASSUME NEW n \in Node, Reboot(n) PROVE \A m \in Node : KeysShared(m)'
  <2>1. \A S : <<>> \in Seq(S)
    BY EmptySeq
  <2>2. PICK q \in Seq(Honest(Peer(n))) : receiveFifo' = [receiveFifo EXCEPT ![n] = q]
    BY <1>6, <2>1, BootFrame, Zenon
  <2>3. UNCHANGED <<pair, ever, sent>>
    BY <1>6 DEF Reboot, BootFrom, history
  <2>4. UNCHANGED book \/ book' = [book EXCEPT ![n] = {}]
    BY <1>6, BootFrame DEF IInv, Keys
  <2> QED
    BY <1>3, <2>2, <2>3, <2>4
<1>7. ASSUME NEW n \in Node, Burn(n) \/ processGenKeys(n) PROVE FALSE
  <2>1. replaced'
    BY <1>1, <1>7 DEF Burn, processGenKeys
  <2> QED
    BY <2>1 DEF Quiet
<1>8. ASSUME NEW n \in Node, processPublicKey(n) PROVE \A m \in Node : KeysShared(m)'
  <2>1. PICK g \in ever[Peer(n)] : book' = [book EXCEPT ![n] = {pair[n], g}]
    BY <1>8 DEF processPublicKey, saveSSKFor
  <2>2. {pair[n], g} = Shared
    BY <1>1, <2>1, PeerOfPeer, SharedByBoth
  <2>3. UNCHANGED <<pair, ever, sent, receiveFifo>>
    BY <1>8 DEF processPublicKey, rxVars, history
  <2> QED
    BY <1>3, <2>1, <2>2, <2>3
<1>9. ASSUME NEW n \in Node, NEW p \in Honest(n), queuePacket(n, p), UNCHANGED <<pair, ever, book, receiveFifo>>
      PROVE  \A m \in Node : KeysShared(m)'
  <2>1. ~torn'
    BY DEF Quiet
  <2>2. UNCHANGED sent \/ sent' = [sent EXCEPT ![n] = @ \cup {p}]
    BY <1>9, <2>1 DEF queuePacket
  <2>3. ASSUME NEW m \in Node PROVE sent'[m] \subseteq Honest(m)
    BY <1>1, <1>9, <2>2 DEF IInv, Messages
  <2> QED
    BY <1>1, <1>2, <1>9, <2>3
<1>10. ASSUME NEW n \in Node, processPublicKeyUpdate(n) PROVE \A m \in Node : KeysShared(m)'
  <2>1. PubKey(n) \in Honest(n)
    BY DEF PubKey, Honest, Sendable, IInv, Keys
  <2> QED
    BY <1>9, <1>10, <2>1 DEF processPublicKeyUpdate, keyVars, rxVars, history
<1>11. ASSUME NEW n \in Node, processSendMessage(n) PROVE \A m \in Node : KeysShared(m)'
  <2>1. PICK x \in Lengths : queuePacket(n, Content(n, Len(typed[n]) + 1, PayloadLength(x)))
    BY <1>11 DEF processSendMessage
  <2>2. book[n] = Shared
    BY <1>1, <1>11 DEF processSendMessage
  <2>3. Content(n, Len(typed[n]) + 1, PayloadLength(x)) \in Honest(n)
    BY <2>2, LenProperties DEF Content, Honest, Sendable, IInv, Keys, Messages
  <2> QED
    BY <1>9, <1>11, <2>1, <2>3 DEF processSendMessage, keyVars, rxVars, history
<1>12. ASSUME NEW n \in Node, processIncomingProtocol(n), ~Burn(n) PROVE \A m \in Node : KeysShared(m)'
  BY <1>3, <1>7, <1>8, <1>10, <1>11, <1>12 DEF processIncomingProtocol, NoCommand, AnswerOnly,
     processSetID, processSetPassword, processCommitConfig, processAuth, keyVars, rxVars, history
<1>13. CASE UNCHANGED vars
  BY <1>3, <1>13 DEF vars, keyVars, rxVars, history
<1> QED
  BY <1>4, <1>5, <1>6, <1>7, <1>12, <1>13, StepCases

LEMMA UndisturbedAlways == Spec => []Undisturbed
<1>1. Init => Undisturbed
  BY EmptySeq DEF Init, Undisturbed, KeysShared
<1> QED
  BY <1>1, UndisturbedStep, IInvAlways, ConfigAlways, HeaderAlways, PTL DEF Spec

\* Nodes that hold session keys read each other's messages for as long as no key
\* pair in use was replaced, receiveFifo never overflowed and no packet was sent
\* half written: whatever was lost, came twice or came late, and wherever in
\* reading a packet the interrupt came in.
THEOREM FailuresNeedReplacedKeys == Spec => []FailureMeansReplaced
<1>1. Init => FailureMeansReplaced
  BY DEF Init, FailureMeansReplaced
<1>2. IInv /\ Config /\ HeaderIsHead /\ Undisturbed /\ FailureMeansReplaced /\ [Next]_vars => FailureMeansReplaced'
  <2> SUFFICES ASSUME IInv, Config, HeaderIsHead, Undisturbed, FailureMeansReplaced, [Next]_vars,
                      Quiet', Quiet, ~failures
               PROVE  ~failures'
    BY QuietBefore DEF FailureMeansReplaced, Quiet
  <2>1. ASSUME NEW n \in Node, TakeContent(n) PROVE ~failures'
    <3> DEFINE p == Head(receiveFifo[n])
    <3>1. pc[n] = "work" /\ header[n].type = "content" /\ ~overflow
      BY <2>1 DEF TakeContent, Goes, Quiet
    <3>2. ~header[n].spoilt /\ p.type = "content" /\ header[n].len = p.len
      BY <3>1 DEF HeaderIsHead
    <3>3. receiveFifo[n] \in Seq(Honest(Peer(n))) /\ book[n] \in {{}, Shared}
      BY DEF Undisturbed, KeysShared
    <3>4. Len(receiveFifo[n]) >= 1 /\ p = receiveFifo[n][1]
      BY <3>1, HeadIsSendable DEF IInv, Ring, Waiting, AtPacket
    <3>5. p \in Honest(Peer(n))
      BY <3>3, <3>4, ElementOfSeq, LenProperties
    <3>6. book[n] # {} => p.key = book[n]
      BY <3>2, <3>3, <3>5 DEF Honest
    <3> QED
      BY <2>1, <3>2, <3>6 DEF TakeContent
  <2>2. ASSUME NEW n \in Node, Between(n), ~TakeContent(n) PROVE UNCHANGED failures
    BY <2>2, Zenon DEF Between, Start, NoPacket, PeekLength, PeekHeader, TakePubKey, packetReceivedSkip,
                       SkipStore, history
  <2>3. ASSUME NEW n \in Node, handleReceived(n) PROVE UNCHANGED failures
    BY <2>3 DEF handleReceived
  <2>4. ASSUME NEW n \in Node, Burn(n) \/ Reboot(n) PROVE UNCHANGED failures
    BY <2>4, BootFrame
  <2>5. ASSUME NEW n \in Node, processIncomingProtocol(n), ~Burn(n) PROVE UNCHANGED failures
    BY <2>5, CommandFrame
  <2>6. CASE UNCHANGED vars
    BY <2>6 DEF vars, history
  <2> QED
    BY <2>1, <2>2, <2>3, <2>4, <2>5, <2>6, StepCases
<1> QED
  BY <1>1, <1>2, IInvAlways, ConfigAlways, HeaderAlways, UndisturbedAlways, PTL DEF Spec

=============================================================================
