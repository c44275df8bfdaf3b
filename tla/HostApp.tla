------------------------------- MODULE HostApp -------------------------------
(***************************************************************************)
(* The application (app/main.c) of two nodes, each with a host: the        *)
(* commands, their gates and replies, session keys, encrypted messages and *)
(* public key packets, while the timer interrupt hands packets over at any *)
(* point of the main loop.                                                 *)
(*                                                                         *)
(* The way from one node to the other, sendFifo and the network, is the    *)
(* set of the packets that were queued: a packet goes out once, again      *)
(* (after a lost count, or since forward tries again and nobody tells      *)
(* copies apart), late, in any order, or never.  SendQueue and Routing say *)
(* which of these happens when.                                            *)
(*                                                                         *)
(* A key pair is a number: Blank is what an erased EEPROM holds, Zeros the *)
(* pair made when the random source fails, Junk stands for bytes taken for *)
(* a public key that are none, every other pair is fresh.  A session key   *)
(* is the set of the two pairs it is computed from, the same from both     *)
(* sides; {} is no key.                                                    *)
(***************************************************************************)
EXTENDS Integers, Sequences, FiniteSets

CONSTANTS A, B,          \* the nodes, which are their own ids
          NoId,          \* my_address = 0
          Slots,         \* PACKET_FIFO_SLOTS
          ReplySlots,    \* HOST_MSG_FIFO_SLOTS
          ReplySize,     \* HOST_MSG_BUF_SIZE
          Lengths,       \* lengths of the messages the hosts send
          Talkers,       \* bound of the model: the nodes whose hosts send messages
          MaxUnread,     \* bound of the model: packets that wait in receiveFifo
          MaxEvents      \* bound of the model: messages sent, public keys sent, key
                         \* pairs generated, restarts and burns, all together

ASSUME NodesAssumption  == A # B
ASSUME SizesAssumption  == Slots \in Nat \ {0} /\ ReplySlots \in Nat \ {0} /\ ReplySize \in Nat
ASSUME LengthAssumption == Lengths \subseteq 1..195
ASSUME BoundsAssumption == MaxEvents \in Nat /\ MaxUnread \in Nat /\ Talkers \subseteq {A, B}

VARIABLES
  pc,             \* where each main loop stands
  has, configured, \* the flags of the status page
  authenticated, my_address,
  pair,           \* the node's key pair
  book,           \* the session key stored for the other node
  sent,           \* the packets each node has queued for the other
  receiveFifo,    \* what lies between t and h: written and not skipped
  stored,         \* the count of receiveFifo, a byte
  header,         \* what packetReceivedPeek copied, and whether the slot has been
                  \* written again since
  tmp,            \* the register between the load and the store of stored--
  tx_fifo,
  typed,          \* history: lengths of the messages accepted from each host
  ever,           \* history: the pairs each node has had
  replaced,       \* history: a pair in use was replaced or erased
  failures,       \* history: a message could not be decrypted
  overflow,       \* history: receiveFifo was written when it was full
  torn,           \* history: a packet was sent while it was being written
  events          \* bound: how many have happened

keyVars  == <<has, configured, pair, book>>
sesVars  == <<authenticated, my_address>>
rxVars   == <<receiveFifo, stored, header, tmp>>
history  == <<ever, replaced, failures, overflow>>
vars     == <<pc, sesVars, keyVars, sent, torn, rxVars, tx_fifo, typed, history, events>>

Node == {A, B}
Peer(n) == CHOOSE m \in Node : m # n

Blank == 0
Zeros == 1
Junk  == MaxEvents + 4
Pair  == 0 .. Junk
SessionKey == {{}} \cup {{a, b} : a, b \in Pair}
Components == {"keys", "id", "password"}

Content(n, i, len) == [type |-> "content", key |-> book[n], no |-> i, len |-> len]
PubKey(n)          == [type |-> "pubkey", key |-> {pair[n]}, no |-> 0, len |-> 32]
Torn(p)            == [p EXCEPT !.key = {Junk}]

NoHeader == [type |-> "none", len |-> 0, spoilt |-> FALSE]

\* A node that was set up (k, i, h, a peer's key, c) and has just been switched on.
Init == /\ pc = [n \in Node |-> "waiting"]
        /\ has = [n \in Node |-> Components]
        /\ configured = [n \in Node |-> TRUE]
        /\ authenticated = [n \in Node |-> FALSE]
        /\ my_address = [n \in Node |-> n]
        /\ pair = [n \in Node |-> IF n = A THEN 2 ELSE 3]
        /\ book = [n \in Node |-> {}]
        /\ sent = [n \in Node |-> {}] /\ torn = FALSE
        /\ receiveFifo = [n \in Node |-> <<>>] /\ stored = [n \in Node |-> 0]
        /\ header = [n \in Node |-> NoHeader] /\ tmp = [n \in Node |-> 0]
        /\ tx_fifo = [n \in Node |-> <<>>]
        /\ typed = [n \in Node |-> <<>>]
        /\ ever = [n \in Node |-> {IF n = A THEN 2 ELSE 3}]
        /\ replaced = FALSE /\ failures = FALSE /\ overflow = FALSE
        /\ events = 0

-----------------------------------------------------------------------------
(* Replies.  A line is put together piece by piece, and only its length is   *)
(* kept: a prefix, what it says, a newline.  No piece looks for room.          *)

hostMsg_addBuffer(len, n)    == len + n
hostMsg_addHexBuffer(len, n) == len + 2 * n
hostMsg_terminate(len)       == hostMsg_addBuffer(len, 1)

protocolAddReplyPrefix   == hostMsg_addBuffer(0, 2)
protocolAddReceivePrefix == hostMsg_addBuffer(hostMsg_addHexBuffer(hostMsg_addBuffer(0, 2), 1), 1)

\* The longest of the answers is the public key.
returnPublicKey == hostMsg_terminate(hostMsg_addHexBuffer(protocolAddReplyPrefix, 32))
Answer == [what |-> "answer", no |-> 0, len |-> returnPublicKey]

returnReceivedMessage(p, len) ==
    [what |-> "received", no |-> p.no,
     len |-> hostMsg_terminate(hostMsg_addBuffer(protocolAddReceivePrefix, len))]

\* host_tx_queueMessage does not ask for room.
host_tx_queueMessage(n, q, r) == tx_fifo' = [tx_fifo EXCEPT ![n] = Append(q, r)]

-----------------------------------------------------------------------------
(* The lengths around a message. *)

ENCRYPTED_LENGTH(len) == len + 16
DECRYPTED_LENGTH(len) == (len + 256 - 16) % 256
NONCE == 24

\* Wrong on purpose: the nonce is not counted.
PayloadWithoutNonce(len) == ENCRYPTED_LENGTH(len)

PayloadLength(len) == (ENCRYPTED_LENGTH(len) + NONCE) % 256
MessageLength(plen) == DECRYPTED_LENGTH((plen + 256 - NONCE) % 256)

-----------------------------------------------------------------------------
(* The gates. *)

Ready(n) == authenticated[n] /\ configured[n]

\* Wrong on purpose: one line for each round of the loop.
host_tx_oneLine(n) == IF tx_fifo[n] = <<>> THEN <<>> ELSE Tail(tx_fifo[n])

\* What is left in tx_fifo when its lines have gone to the host, or nowhere if it
\* has closed the line.
host_tx_processQueue(n) == <<>>

\* The main loop comes to the host's commands when tx_fifo is worked off.
Serves(n) == /\ pc[n] = "command"
             /\ pc' = [pc EXCEPT ![n] = "packet"]

Happens == events < MaxEvents /\ events' = events + 1

Replies(n) == host_tx_queueMessage(n, host_tx_processQueue(n), Answer)

\* No line from the host, a line without a command, one that prints directly, or
\* arguments that p and u drop without a word.
NoCommand(n) == /\ Serves(n)
                /\ tx_fifo' = [tx_fifo EXCEPT ![n] = host_tx_processQueue(n)]
                /\ UNCHANGED <<sesVars, keyVars, sent, torn, rxVars, typed, history, events>>

\* A command that changes nothing and is answered: the gates of s, p, u, g:p and
\* g:i, what s refuses, i:FF, c without all components, and the queries.
AnswerOnly(n) == /\ Serves(n)
                 /\ Replies(n)
                 /\ UNCHANGED <<sesVars, keyVars, sent, torn, rxVars, typed, history, events>>

-----------------------------------------------------------------------------
(* The commands that change something. *)

Flag(n, c) == has' = [has EXCEPT ![n] = @ \cup {c}]

FreshPair == 2 + Cardinality((ever[A] \cup ever[B]) \ {Zeros})

\* What the random source makes of a pair: a failure leaves zeros.
sha204_getRandom32 == {Zeros, FreshPair}

\* processGenKeys does not look at what the random source returns.
processGenKeys(n) ==
    /\ Serves(n)
    /\ Happens
    /\ \E g \in sha204_getRandom32 :
          /\ pair' = [pair EXCEPT ![n] = g]
          /\ ever' = [ever EXCEPT ![n] = @ \cup {g}]
    /\ replaced' = (replaced \/ ever[n] # {} \/ book[n] # {})
    /\ UNCHANGED sesVars
    /\ Flag(n, "keys")
    /\ Replies(n)
    /\ UNCHANGED <<configured, book, sent, torn, rxVars, typed, failures, overflow>>

\* Wrong on purpose: FF is taken as well.
setRoutingIdAny(n) == \E id \in {n, 255} : my_address' = [my_address EXCEPT ![n] = id]

\* (Id 0, which is kept in RAM only and changes no flag, is in KeyStore.)
setRoutingId(n) == my_address' = [my_address EXCEPT ![n] = n]

processSetID(n) ==
    /\ Serves(n)
    /\ setRoutingId(n)
    /\ Flag(n, "id")
    /\ Replies(n)
    /\ UNCHANGED <<authenticated, configured, pair, book, sent, torn, rxVars, typed, history, events>>

processSetPassword(n) ==
    /\ Serves(n)
    /\ UNCHANGED sesVars
    /\ Flag(n, "password")
    /\ Replies(n)
    /\ UNCHANGED <<configured, pair, book, sent, torn, rxVars, typed, history, events>>

processCommitConfig(n) ==
    /\ Serves(n)
    /\ has[n] = Components
    /\ configured' = [configured EXCEPT ![n] = TRUE]
    /\ Replies(n)
    /\ UNCHANGED <<sesVars, has, pair, book, sent, torn, rxVars, typed, history, events>>

\* A wrong password takes the authentication back.
processAuth(n) ==
    /\ Serves(n)
    /\ configured[n]
    /\ \E right \in BOOLEAN : authenticated' = [authenticated EXCEPT ![n] = right]
    /\ Replies(n)
    /\ UNCHANGED <<my_address, keyVars, sent, torn, rxVars, typed, history, events>>

\* Wrong on purpose: the session key is made of the peer's key alone.
saveSSKForPublic(n, g) == book' = [book EXCEPT ![n] = {g}]

\* The session key is made of the private key of the moment.
saveSSKFor(n, g) == book' = [book EXCEPT ![n] = {pair[n], g}]

\* The host names a public key that the other node has, or had.
processPublicKey(n) ==
    /\ Serves(n) /\ Ready(n)
    /\ \E g \in ever[Peer(n)] : saveSSKFor(n, g)
    /\ Replies(n)
    /\ UNCHANGED <<sesVars, has, configured, pair, sent, torn, rxVars, typed, history, events>>

\* A refused packet is gone.  After a lost count the interrupt may send the slot
\* while queuePacket is still writing to it, half old and half new, before it sends
\* the packet (SendQueue; here from the second packet on, which is early by one).
queuePacket(n, p) ==
    \/ UNCHANGED <<sent, torn>>
    \/ sent' = [sent EXCEPT ![n] = @ \cup {p}] /\ UNCHANGED torn
    \/ sent[n] # {} /\ sent' = [sent EXCEPT ![n] = @ \cup {p, Torn(p)}] /\ torn' = TRUE

\* OK is the answer whether the packet was queued or not.  (A node whose id is 0
\* does send its key, from source 0: KeyStore says what becomes of it.)
processPublicKeyUpdate(n) ==
    /\ Serves(n) /\ Ready(n)
    /\ my_address[n] = n /\ Happens
    /\ queuePacket(n, PubKey(n))
    /\ Replies(n)
    /\ UNCHANGED <<sesVars, keyVars, rxVars, typed, history>>

\* The same for a message.
processSendMessage(n) ==
    /\ Serves(n) /\ Ready(n)
    /\ my_address[n] # NoId /\ book[n] # {}
    /\ n \in Talkers /\ Happens
    /\ \E len \in Lengths :
          /\ typed' = [typed EXCEPT ![n] = Append(@, len)]
          /\ queuePacket(n, Content(n, Len(typed[n]) + 1, PayloadLength(len)))
    /\ Replies(n)
    /\ UNCHANGED <<sesVars, keyVars, rxVars, history>>

-----------------------------------------------------------------------------
(* The rest of the main loop. *)

NoPacket(n) == /\ pc[n] = "packet"
               /\ stored[n] = 0
               /\ pc' = [pc EXCEPT ![n] = "command"]
               /\ UNCHANGED <<sesVars, keyVars, sent, torn, rxVars, tx_fifo, typed, history, events>>

Goes(n, from, to) == pc[n] = from /\ pc' = [pc EXCEPT ![n] = to]

\* packetReceivedPeek copies the length and then the header, and leaves the payload
\* where it is.
PeekLength(n) ==
    /\ Goes(n, "packet", "peek")
    /\ stored[n] # 0
    /\ header' = [header EXCEPT ![n].len = Head(receiveFifo[n]).len]
    /\ UNCHANGED <<sesVars, keyVars, sent, torn, receiveFifo, stored, tmp, tx_fifo, typed, history, events>>

PeekHeader(n) ==
    /\ Goes(n, "peek", "work")
    /\ header' = [header EXCEPT ![n].type = Head(receiveFifo[n]).type]
    /\ UNCHANGED <<sesVars, keyVars, sent, torn, receiveFifo, stored, tmp, tx_fifo, typed, history, events>>

\* A message is decrypted in its slot and handed to the host, or the host is told
\* that it cannot be read; so it is when the slot is written in the middle.  A line
\* that is longer than its buffer writes past its end, and nothing says what
\* happens then: the main loop stops here.
TakeContent(n) ==
    /\ header[n].type = "content"
    /\ LET p == Head(receiveFifo[n])
           readable == p.type = "content" /\ p.key = book[n] /\ p.len = header[n].len
           line == returnReceivedMessage(p, MessageLength(header[n].len))
       IN  \/ /\ readable
              /\ Goes(n, "work", IF line.len <= ReplySize THEN "skip" ELSE "spilled")
              /\ host_tx_queueMessage(n, tx_fifo[n], line)
              /\ UNCHANGED failures
           \/ /\ ~readable \/ header[n].spoilt
              /\ Goes(n, "work", "skip")
              /\ host_tx_queueMessage(n, tx_fifo[n], Answer)
              /\ failures' = (failures \/ book[n] # {})
    /\ UNCHANGED <<sesVars, keyVars, sent, torn, rxVars, typed, ever, replaced, overflow, events>>

\* A public key is stored as a session key at once, asked for or not: the one in the
\* slot, or what is there instead.
TakePubKey(n) ==
    /\ Goes(n, "work", "skip")
    /\ header[n].type = "pubkey"
    /\ LET p == Head(receiveFifo[n])
       IN  \E g \in (IF p.type = "pubkey" THEN p.key ELSE {}) \cup (IF header[n].spoilt THEN {Junk} ELSE {}) :
              saveSSKFor(n, g)
    /\ UNCHANGED <<sesVars, has, configured, pair, sent, torn, rxVars, tx_fifo, typed, history, events>>

\* The tail moves, and stored-- is a load and a store: what the interrupt counts in
\* between is lost.
packetReceivedSkip(n) ==
    /\ Goes(n, "skip", "count")
    /\ receiveFifo' = [receiveFifo EXCEPT ![n] = Tail(@)]
    /\ tmp' = [tmp EXCEPT ![n] = stored[n]]
    /\ header' = [header EXCEPT ![n] = NoHeader]
    /\ UNCHANGED <<sesVars, keyVars, sent, torn, stored, tx_fifo, typed, history, events>>

\* Wrong on purpose: the packet that was skipped still counts.
StoreUncounted(n) == stored' = [stored EXCEPT ![n] = tmp[n]]

StoreStored(n) == stored' = [stored EXCEPT ![n] = (tmp[n] + 255) % 256]

SkipStore(n) ==
    /\ Goes(n, "count", "command")
    /\ StoreStored(n)
    /\ tmp' = [tmp EXCEPT ![n] = 0]
    /\ UNCHANGED <<sesVars, keyVars, sent, torn, receiveFifo, header, tx_fifo, typed, history, events>>

-----------------------------------------------------------------------------
(* The timer interrupt, and power. *)

\* packet_fifo_write does not ask for room: when the ring is full the new packet
\* lands on the slot of the head, and is counted.
Overwrite(q, x) == [i \in 1 .. Len(q) + 1 |-> IF (Len(q) + 1 - i) % Slots = 0 THEN x ELSE q[i]]

\* The head's slot is written again while the main loop works on it.
Spoils(n) == pc[n] \in {"peek", "work"} /\ Len(receiveFifo[n]) % Slots = 0

\* do_routing finds a packet for this node: any the other one has queued.
handleReceived(n) ==
    /\ my_address[n] = n
    /\ Len(receiveFifo[n]) < MaxUnread
    /\ \E p \in sent[Peer(n)] : receiveFifo' = [receiveFifo EXCEPT ![n] = Overwrite(@, p)]
    /\ stored' = [stored EXCEPT ![n] = (@ + 1) % 256]
    /\ overflow' = (overflow \/ Len(receiveFifo[n]) >= Slots)
    /\ header' = [header EXCEPT ![n].spoilt = @ \/ Spoils(n)]
    /\ UNCHANGED <<pc, sesVars, keyVars, sent, torn, tmp, tx_fifo, typed, ever, replaced, failures, events>>

\* The node comes up with what the EEPROM holds and waits for its host; the
\* table is wiped unless it is configured.  The timer runs from here on.  What was
\* sent before may still be on its way.
BootFrom(n, conf, id) ==
    /\ pc' = [pc EXCEPT ![n] = "waiting"]
    /\ authenticated' = [authenticated EXCEPT ![n] = FALSE]
    /\ my_address' = [my_address EXCEPT ![n] = id]
    /\ book' = [book EXCEPT ![n] = IF conf THEN @ ELSE {}]
    /\ receiveFifo' = [receiveFifo EXCEPT ![n] = <<>>]
    /\ stored' = [stored EXCEPT ![n] = 0]
    /\ header' = [header EXCEPT ![n] = NoHeader]
    /\ tmp' = [tmp EXCEPT ![n] = 0]
    /\ tx_fifo' = [tx_fifo EXCEPT ![n] = <<>>]
    /\ Happens

Reboot(n) == /\ BootFrom(n, configured[n], IF "id" \in has[n] THEN n ELSE NoId)
             /\ UNCHANGED <<has, configured, pair, sent, torn, typed, history>>

\* Wrong on purpose: the memory is erased, but the node goes on without a reset.
BurnOnly(n) == /\ Serves(n)
               /\ has' = [has EXCEPT ![n] = {}]
               /\ configured' = [configured EXCEPT ![n] = FALSE]
               /\ tx_fifo' = [tx_fifo EXCEPT ![n] = host_tx_processQueue(n)]
               /\ Happens
               /\ UNCHANGED <<sesVars, pair, book, sent, torn, rxVars, typed, history>>

\* BURN: the memory is erased and the processor is reset.
Burn(n) == /\ pc[n] = "command"
           /\ BootFrom(n, FALSE, NoId)
           /\ has' = [has EXCEPT ![n] = {}]
           /\ configured' = [configured EXCEPT ![n] = FALSE]
           /\ pair' = [pair EXCEPT ![n] = Blank]
           /\ replaced' = (replaced \/ ever[n] # {})
           /\ UNCHANGED <<sent, torn, typed, ever, failures, overflow>>

Start(n) == /\ pc[n] = "waiting"
            /\ pc' = [pc EXCEPT ![n] = "command"]
            /\ authenticated' = [authenticated EXCEPT ![n] = FALSE]
            /\ UNCHANGED <<my_address, keyVars, sent, torn, rxVars, tx_fifo, typed, history, events>>

processIncomingProtocol(n) ==
    \/ NoCommand(n) \/ AnswerOnly(n)
    \/ processGenKeys(n) \/ processSetID(n) \/ processSetPassword(n)
    \/ processCommitConfig(n) \/ processAuth(n) \/ processPublicKey(n)
    \/ processPublicKeyUpdate(n) \/ processSendMessage(n) \/ Burn(n)

main(n) == \/ processIncomingProtocol(n)
           \/ NoPacket(n) \/ PeekLength(n) \/ PeekHeader(n)
           \/ TakeContent(n) \/ TakePubKey(n)
           \/ packetReceivedSkip(n) \/ SkipStore(n)

Next == \E n \in Node : Start(n) \/ main(n) \/ handleReceived(n) \/ Reboot(n)

Spec == Init /\ [][Next]_vars

-----------------------------------------------------------------------------
Packet == [type : {"content", "pubkey"}, key : SessionKey, no : 0..MaxEvents, len : 0..255]
Reply  == [what : {"answer", "received"}, no : 0..MaxEvents, len : 0..255]
Header == [type : {"none", "content", "pubkey"}, len : 0..255, spoilt : BOOLEAN]
Places == {"waiting", "command", "packet", "peek", "work", "skip", "count", "spilled"}

TypeOK == /\ pc \in [Node -> Places]
          /\ authenticated \in [Node -> BOOLEAN]
          /\ has \in [Node -> SUBSET Components] /\ configured \in [Node -> BOOLEAN]
          /\ pair \in [Node -> Pair] /\ book \in [Node -> SessionKey]
          /\ stored \in [Node -> 0..255] /\ tmp \in [Node -> 0..255] /\ header \in [Node -> Header]
          /\ \A n \in Node : /\ my_address[n] \in {n, NoId}
                             /\ \A p \in sent[n] : p \in Packet
                             /\ \A i \in DOMAIN receiveFifo[n] : receiveFifo[n][i] \in Packet
                             /\ \A i \in DOMAIN tx_fifo[n] : tx_fifo[n][i] \in Reply

\* host_tx_queueMessage never asks for room and a line is copied without a look at
\* its length.  There is room, because the loop empties the queue before it adds to
\* it, and every line fits but one: that of a message of 195 characters, which the
\* other host can type, and after which nothing is known of this node.
TooLong(n, r) == /\ pc[n] = "spilled" /\ r = tx_fifo[n][Len(tx_fifo[n])]
                 /\ r.what = "received" /\ typed[Peer(n)][r.no] = 195

RepliesFit == \A n \in Node : /\ Len(tx_fifo[n]) <= ReplySlots
                              /\ \A i \in DOMAIN tx_fifo[n] : LET r == tx_fifo[n][i]
                                                               IN  r.len <= ReplySize \/ TooLong(n, r)

\* A message on the last way to a host is one the other host typed, and as long as
\* it was, however often it was sent, in whatever order it came, and even when the
\* slot it is read from was written while the main loop was reading it.
MessagesIntact ==
    \A n \in Node : \A i \in DOMAIN tx_fifo[n] : LET r == tx_fifo[n][i] IN
        r.what = "received" => /\ r.no \in DOMAIN typed[Peer(n)]
                               /\ r.len = returnReceivedMessage(r, typed[Peer(n)][r.no]).len

\* Two nodes that hold session keys can read each other as long as no key pair in
\* use was replaced, whoever learnt the other's key first, from the host or from
\* the air, and whatever was sent before; unless receiveFifo, which is written
\* without asking for room, overflows, or sendFifo is sent from while it is written.
FailureMeansReplaced == failures => replaced \/ overflow \/ torn

\* Authenticated implies configured, through burning, boots and wrong passwords:
\* half of the gates ask for one of the two only.
AuthenticatedIsConfigured == \A n \in Node : authenticated[n] => configured[n]

\* Counts that get lost between the main loop's stored-- and the interrupt's
\* stored++ leave packets uncounted and unread, but never the other way round:
\* the main loop does not handle a slot that holds no packet, or one for the second time.
CountedAreThere == \A n \in Node : pc[n] # "count" => stored[n] <= Len(receiveFifo[n])
=============================================================================
