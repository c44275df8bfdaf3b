# TLA+ models and proofs of the EagleChat firmware

The firmware runs on an AVR XMEGA with an RFM69 radio and a USB link to a host.
Nodes send each other encrypted messages over routes they find on demand. This
directory holds TLA+ modules translated from the C code, TLC configurations that
check them on small instances, and proofs of the main results for every size.

`PROJECT.json` lists the components, the runs, the source lines of every
definition, the mutants that show each property can fail, the findings, the
hazards and the theorems. To run a check or a proof:

    tlc -config KeyStore.cfg MCKeyStore
    tlapm KeyStore_proofs.tla

## 1. The system

### Contexts of execution

| context | runs | touches |
|---|---|---|
| main loop (`app/main.c:567`) | host commands, packets read, key store, printing | `sendFifo` (writes), `receiveFifo` (reads), `rx_fifo` (reads), `tx_fifo`, key store |
| system timer interrupt (`do_routing`) | `handleReceived`, then `processSendQueue`; prints; blocks in `forward` | routing tables, `sendFifo` (reads), `receiveFifo` (writes), `RXFIFO` (reads), the radio |
| radio interrupt (`RFM69.cpp:470`) | one received frame | `RXFIFO` (writes), the ACK flag, the radio's mode |
| USB interrupt (`host_rx.c:63`, `cdc.c`) | characters of the host, the line opened and closed | `rx_fifo` (writes), `is_opened` |

`do_routing` guards itself with `busy`; nothing guards the queues between two
contexts. The demos call the same code from one loop.

### Components

| component | state | operations | what makes it correct |
|---|---|---|---|
| packet fifo, radio fifo, host message fifo (one ring, three sizes) | `data`, `h`, `t`, `stored` | init, isEmpty, isFull, write, read, peek, skip | a bounded FIFO queue as long as writers ask isFull |
| send queue | `sendFifo` | `queuePacket`, `processSendQueue` | no packet lost, repeated or reordered; refused only when full |
| host line input | line buffer, `rx_fifo` | `update_message`, `rx_callback`, peek, skip | lines arrive whole and in order; the one worked on is not disturbed |
| application, host output | flags, `authenticated`, `my_address`, session keys, `tx_fifo` | the host's commands, packets handled, replies sent | gates, replies that fit, messages as they were typed |
| host message conversions | none | hexadecimal to bytes and back | what is printed can be typed again |
| routing | routing table, the node's own request, recent request ids | handlers of RRQ, RUP, FAIL and content; forward; send queue | replies walk back the path of the request, routes lead to neighbours and not in circles, packets arrive |
| radio | mode, interrupt mask and level, chip FIFO, `RXFIFO`, ACK flag | send, ACK, receive, carrier sense, interrupt handler | no frame unnoticed, one user of the SPI, ACKs that were sent |
| key store | EEPROM pages, copies in RAM | load, set keys, id, password, commit, session keys, burn | EEPROM sound at every power cut; the keys and the table in RAM are its |
| SRAM message and packet buffers | two rings in one external SRAM, the chip's mode | push, pop, has_next | each hands back what was put in, whoever interrupts |
| USB serial | `is_opened`, the USB stack's buffer | print, read, open, close | prints end, whole or with the line closed |
| crypto, SHA204 | keys, random bytes | encrypt, decrypt, key pairs | lengths and which key reads what, in `HostApp` |
| configuration, USART, stack painting, `fifo_master_race`, software reset | none or hardware | wrappers | not modelled |

Main loop and timer interrupt share the two packet queues and the USB line; radio
interrupt and timer interrupt share `RXFIFO` and the SPI bus; USB interrupt and
main loop share `rx_fifo`. Nodes interact by frames: requests (RRQ) are broadcast,
everything else goes to one neighbour, which acknowledges it before it looks at it.

### What is hard

* `stored++` and `stored--` are a load and a store on this machine, in one
  context, while another context changes the same byte.
* `forward` blocks in the interrupt and meanwhile acknowledges nothing.
* A route request spreads in all directions; its copies come back, are answered
  each, and the answers overwrite each other's routes.
* Acknowledgements carry no id, and the flag they set outlives the wait.
* The radio's handler tests a mode that the main context writes after the chip's,
  and interrupts are masked, disabled and enabled in different functions.
* The EEPROM is written page by page and power may go at any page.
* The queues of received frames and packets are written without asking for room.
* A session key is computed from the private key of the moment, on either side.
* Both contexts wait in a loop for the host to take characters.

## 2. Modules

| module | of | extends |
|---|---|---|
| `SlotQueue` | what a queue of `Slots` places promises: Put when there is room, Take the oldest | |
| `RingFifo` | `packet_fifo.c`, and with it `radio/fifo.c` and `host_msg_fifo.c` | |
| `SendQueue` | `queuePacket` against `processSendQueue` | `RingFifo`, instance of `SlotQueue` |
| `HostRx` | `host_rx.c` against the main loop that works on its lines | `RingFifo` |
| `HostApp` | `app/main.c` of two nodes with their hosts | |
| `HostMsg` | the conversions of `host_msg_fifo.c` | |
| `Radio` | `RFM69.cpp` behind `radio.cpp` on two nodes | |
| `Routing` | `routing.c` on every node of a network, with the radio as one step | |
| `KeyStore` | `keys.c` and the commands of `main.c` that use it | |
| `SramBuffers` | `msgbuf.c` and `packetbuf.c` over `sram.c` and the chip | instance of `SlotQueue` |
| `UsbSerial` | `cdc.c`, used by the application and four demos | |
| `SendQueue_proofs` (with the lemmas on `RingFifo`), `KeyStore_proofs`, `HostText_proofs` (`HostMsg` and `UsbSerial`), `HostApp_proofs`, `HostRx_proofs`, `Routing_proofs`, `Radio_proofs`, `SramBuffers_proofs` | theorems | the module they are about |
| `MC...` | networks, inputs and symmetry for TLC | |

How they fit together: `Routing` is the program of `routing/main.c`, where the
queues are called from one loop, and `SendQueue` without preemption justifies the
sequences that stand for them there. In the application the timer interrupt comes
in between: `SendQueue` with preemption shows what that does to `sendFifo`, and
`HostApp` cuts the reading of `receiveFifo` and takes of the way between two nodes
only what is left then, that packets come once, again, late, or never;
`HostRx` ends where a line is handed to the main loop, which is where a command of
`HostApp` begins; `KeyStore` cuts the commands that write pages into page writes,
which are one step in `HostApp`; `HostMsg` has the conversions whose lengths
`HostApp` counts, and `MCHostApp` asserts that they agree; `Radio` is below the
one-step transmissions of `Routing`.

Definitions under a comment "Wrong on purpose" are mutants: a bug one might write
in that place. No specification uses them. Each checked property has one that
breaks it.

### SendQueue

`queuePacket` is cut at each access to the shared bytes: test of `stored`, test
of the offsets, copy, head, load of `stored`, store of `stored + 1`.
`processSendQueue` is one step because the main loop cannot interrupt the
interrupt. `Preempt` says whether the interrupt may fall between two of those
steps: `TRUE` in the application, `FALSE` in `routing/main.c`. A packet whose
destination has no route stays queued, which is no step here; `Routing` has the
conditions.

### HostRx

`cdc_rx_notify` is the arrival of a chunk, and what `rx_callback` does with it:
gather, look at the last character only, store the line if `rx_fifo` has room. The
main loop peeks, works, and skips, and skip's `stored--` is a load and a store,
between which the interrupt may come. The branch for a full buffer sets `len`
before it computes where to read; a chunk that fills more than the buffer then
goes past its end. Nothing in C says what happens next, so the model stops there
(`spilled`); no property says it does not happen. `tidy` names the hosts for which
`LinesAsTyped` is stated: one line or less in a chunk, and no line that is too long.

### HostApp

Per node a main loop (`pc`), the flags of the status page, the RAM-only
`authenticated`, the key pair and the session key for the other node. A command is
one action: gate, effect, reply. None of them looks at what the timer interrupt
changes, but `queuePacket`, for which see below.

A packet is read in steps, and the interrupt may come in before each of them: the
test of `stored`, the copy of the length, the copy of the header, the work in the
slot itself (decrypting the message there, or taking the public key), the move of
the tail with the load of `stored`, and the store. An interrupt between the last two
has its count lost. `receiveFifo` is what lies between `t` and `h`, and `stored` is a
byte of its own. When the interrupt writes the slot the main loop works on, which
it does in a full ring, `header` keeps that it was `spoilt`: the work may then go
well or badly, and a public key be junk. (The work is one step for what comes
before and after; what comes in its middle is that choice.)

The way to the other node is the set `sent` of what was queued, any member of which
may arrive at any time and any number of times: `forward` sends again what was
acknowledged late (`routing.c:166`), `handleReceived` keeps every copy
(`routing.c:510`), and a lost count sends a slot of `sendFifo` again. After a lost
count the interrupt may also send a slot that is being written, which `Torn` stands
for; `torn` is the history of that. The model is freer than the code here.

Random numbers are abstract: a fresh key
pair is a number not used before, and the pair that `SHA204` gives when it fails,
which nobody looks at, is `Zeros`. A session key is the set of the two pairs it is
computed from, so decryption succeeds exactly when both sides hold the same set.
Messages are told apart by their number and length. Whether a slot of the table
is free, and a node whose id is 0, are left to `KeyStore`, which has more than one peer.
A line that is longer than its buffer writes past the end, and the main loop of the
model stops there (`spilled`).

### Radio

A node's main context is a stack of labels, one for each place at which the
interrupt handler can come in: every access to the SPI disables the interrupt and
then enables it, whatever it was before. The handler runs to its end, as on the
machine. The chip has a mode, a FIFO, and the line DIO2, whose rising edge is the
interrupt; an edge while the pin is masked is lost. A frame on the air arrives,
is lost, or is corrupted; its reception may be cut off by a change of mode (`cut`),
and a short frame leaves the rest of itself behind (`rest`). A timeout may strike
at any time, also that of a chip that does not finish sending. There are two nodes,
so addresses and `SENDERID` are left out:
`Routing` has the part of `ACKReceived` that ignores who answered.
`fifo_read` has its race too: when the handler comes in within `stored--`, its count
is lost, and `lost` frames stay behind in `RXFIFO` (`ReadFrameRaced`). Two things
are left out. `setHighPowerRegs` writes two registers between the chip's mode and
`_mode`: it selects the chip and lets go of it, which leaves the level where it was,
and the handler can come in there as it can at the label `mode`. And a frame does
not arrive in the time between the two writes of the mode, which is much shorter
than the preamble.

Two ways to stop listening are in the code and have names: `Starved`, where the
handler waits (line 494) for bytes that do not come, with interrupts off, and
`Deaf`, where the rest of a short frame keeps DIO2 high and no edge ever comes.
`KeepsListening` says that there is no third.

### Routing

One set of variables per node: tables, queues, and where the node stands: `main`
(between two timer interrupts), `receive` (in `handleReceived`), `send` and
`wait` (in `forward`, with the call's arguments in `fwd`). One action per branch
of `handleReceived`, per outcome of `forward` and per outcome of
`processSendQueue`; each action takes a frame from `RXFIFO`, acknowledges it,
changes the tables and starts the next transmission, as the code does.

* A transmission is one step: each addressee hears it now or never. Carrier
  sense and SPI are in `Radio`. The radio is in standby from one frame to the
  next `receiveBegin`, so receptions fail in practice: `MaxLoss` of them do here.
* No time. A timeout may strike whenever `forward` waits. When the answer is
  certain to come, only `MaxEarly` may strike before it; when it cannot come (the
  frame was lost, or nodes wait for each other in a circle) they are free.
* `RXFIFO` and `receiveFifo` are written without asking isFull; `Overwrite` is
  what the ring does then.
* `count` bounds packets, requests, losses, early timeouts and restarts, and is
  read by nothing that models code.
* Public key packets take the path of content and are not told apart here.
* `Queue` and `Read` are one step each, as they are in the one loop of
  `routing/main.c`; what the timer interrupt of the application may do in their
  middle is in `SendQueue` and `HostApp`, and `Delivered` is not claimed of it.

### KeyStore

A handler changes RAM at once, since nothing else reads it meanwhile, and puts
into `todo` what the EEPROM will be after each of its page writes. `WritePage`
makes the next image real; `PowerCut` drops those that are left, and RAM.
`burn_memory` is the sequence of images in which one page after the other is
erased. The status page, the key pair, the table and one page per session key
are kept; the other pages of the EEPROM hold nothing. The write of one page is
atomic and succeeds (`nvm_write` is external and its only failure is an address
out of range). Keys, passwords and key pairs are model values; a session key is
the pair of the keys it is computed from. No node has the address 255, which
`processSetID` refuses; that the host's command for a peer's key converts any
number to a byte, and so could name the peer 255 (the mark of a free entry), is
left out.

### SramBuffers

The main thread stores and reads messages, an interrupt stores and reads packets,
as the two headers allow. A message takes two transactions, its length and its
bytes; the interrupt may come between any two, uses the chip and sets its mode.
The chip is modelled by what its three modes do to addresses; a transaction that
another one falls into is cut short. The module is an instance of `SlotQueue` for
the messages.

### UsbSerial

A character is only counted. What a context still has to print is a sequence of
calls, each a step per character; a call that waits for room is a step that needs
it. `tx` is what waits for the host, which may take it, close the line or open it
at any step. The program is the application, whose main loop the timer interrupt
suspends while it prints, or a demo, which has no timer.

## 3. Runs

| run | instance | shows |
|---|---|---|
| `send_queue_demo` | 4 slots (the source's), 2 packets, no preemption | `ImplementsQueue`, refusals only when full, empty exactly when empty |
| `send_queue_app` | the same with preemption | **violated**: isEmpty is wrong after a lost decrement |
| `host_rx` | 2 slots, lines of up to 4 characters, 2 letters, chunks of up to 4, 7 characters in all | lines are whole and in order; the one worked on is not disturbed; never more lines counted than stored |
| `host_app` | 2 nodes, 2 slots, messages of 194 and 195 bytes, 2 events, 3 packets waiting | messages arrive as long as they were typed, replies fit but for one, who fails to decrypt replaced a key, authenticated implies configured, no packet is counted that is not there |
| `radio` | a sender and a receiver, 3 frames, 2 faults | no frame unnoticed, one user of the SPI, ACKs earned, the receiver keeps listening |
| `line_routing` | line of 3, 2 destinations, 2 packets, 2 requests, 1 loss, 1 restart | the invariants of routing with faults |
| `delivery` | triangle of 3 running `routing/main.c`, `FORCE_HOPS`, 3 packets, fair | every packet queued is read, and never over the direct route |
| `stale_ack` | line of 3, 1 loss | **violated**: an ACK answers the wrong forward |
| `route_loop` | line of 4, no fault at all | **violated**: two relays route to each other |
| `key_store` | 2 slots, 3 peers, packets from 1 and from 0, 2 key pairs, 2 passwords, any number of power cuts | the seven properties of the key store |
| `sram_rings` | 2 pages of 3 bytes for each ring, chip pages of 4 | messages are a bounded FIFO queue, packets read back, whatever the interrupt does in between |
| `usb_serial` | 5 programs, buffer of 3, texts of 2, replies of 5 | replies whole, quiet soon after closing, every print ends |

### Why the bounds are enough, and where they are not

*Queues.* The offsets return to where they were after as many items as there are
slots, so any number of items in sequence is explored in full; two packets tell
order and duplication apart.

*Host lines.* The buffer has 5 places instead of 200 and the ring 2 slots; a line
that fits exactly, one that does not, a chunk of two lines, a full ring and a
lost increment all happen within 7 characters. After a lost increment a line stays
in the ring uncounted. `LinesAsTyped` is about the lines as they are stored: each is
one that was typed, whole, and they are in order.

*Application.* The lengths are the longest whose line to the host fits (prefix,
address, delimiter and terminator add 6 bytes to 194) and the longest that can be
typed (195, whose line has 201). `RepliesFit` names that line as its one exception.
Two events (messages, public keys, new key pairs, restarts, burns, in any mixture)
are enough, since a session key can be named by the host and a packet arrives any
number of times: a message sent and a pair replaced or a memory burnt, a message
and a public key in the ring together. Three packets waiting for 2 slots overflow
the ring, under the main loop's hands or not, and make counts get lost.
One node's host sends messages; both hosts give every other command. The proofs have
neither of these bounds.

*Radio.* Three frames are one in the handler, one in the chip and one on its way.
With two faults an ACK can be lost and a frame corrupted in one behaviour.

*Routing.* Three nodes are the least with a relay, and all handlers run on them.
Two destinations are what it takes to give up one request for another. Retries
are 2 instead of 10: one failure and the last one are the cases. The log of
request ids has 2 places instead of 20, so it wraps. Ids may coincide or differ.
`MaxHops` bounds how often a request is rebroadcast. It is a bound of the model:
a list that outgrows the frame, or a hop count that wraps after a long storm, is
left out, and no run says anything about them. Within the bound the properties of
the passing runs speak of each frame by itself; what longer requests do to the
routes is `route_loop`, with `MaxHops` = 5. With that bound and four nodes
`Delivered` fails as well, since a packet caught between two relays does not
arrive: the run `delivery` is about three nodes, where there is one relay. In the
triangle the direct request reaches the destination before the relayed one, which
is what `FORCE_HOPS` has to refuse.

*Key store.* Two slots and three peers make the table full; two key pairs and
two public keys make a replaced key visible. One peer that sends its key is as good
as another; address 0 is not, and is there. Power may be cut any number of
times. What is checked there is proved for all sizes.

*SRAM.* Pages of 3 bytes hold messages of 1 and 2 bytes and packets of 1 to 3, so a
page is filled to its last byte by each. The pages of the rings cross those of
the chip, as in the source, so the chip's modes make a difference. Two pages make a
ring full, empty, and wrap.

*USB.* The buffer is smaller than a reply, so a reply waits for room in its middle.

### Fairness

`Routing!FairSpec` asks weak fairness of `do_routing` and of `Read` on each node:
the loop of `routing/main.c` (lines 60 to 82) calls `handleReceived` and
`processSendQueue` (61, 63) and looks for a packet (65) in every round. It does not ask the host to send anything, and no fairness is
assumed of losses or restarts, which are excluded by their bounds in `delivery`.
Within `do_routing` it is the code that goes on, so weak fairness of the whole,
not of each branch, is enough.

`Radio!FairSpec` asks that each processor goes on (its program, its driver, its
handler, as one), and that a chip that is sending ends. It asks nothing of the air
and of the timeouts.

`UsbSerial!FairSpec` asks that a context that can take a step takes it. It asks
nothing of the host, which is why `PrintsEnd` names the host that stopped.

`CHECK_DEADLOCK FALSE` stands where the system may stop: in a network in which
everything is sent until a host sends more; in `Radio` when the sender has no more
frames and the receiver may be `Starved`; in `HostRx` when the host types nothing
more or the model ends at `spilled`.

## 4. Findings

1. `send_queue_app`: `stored++` of `packet_fifo_write` (main loop) and `stored--`
   of `packet_fifo_skip` (timer interrupt) race. A packet already sent is counted
   again. The mirrored race exists in `receiveFifo` (`packet_fifo.c:66`), in
   `rx_fifo` (`host_msg_fifo.c:45`) and in `RXFIFO` (`radio/fifo.c:38`), where an
   arrival is not counted and what came stays in the ring: a packet of the
   application may not be read until others come, and then one of those is not.
   `CountedAreThere` and `NeverOvercounts` state the half that holds.
2. `stale_ack`: `ACKReceived` looks at a flag only, and the flag may be the answer
   to an earlier frame.
3. `route_loop`: the destination answers every copy of a request, and relays do
   not log what they rebroadcast, so a request goes back and forth between two
   relays and the answer to it leaves a circle of routes. The description of the
   format has it answer only the copy with the lowest hopcount.

### Seen on the way, and no property of this project

Nothing in the repository says that these do not happen; most are in the models.

*Routing.* "Ignore RRQs directly from originator" (`routing.c:379`) is a test of the
hopcount. A node that restarted has forgotten the id of its own request and
rebroadcasts the copy a neighbour made; the destination hears it from the
originator, with a hopcount of 2, and answers over the direct route. So
`HopsForced` holds in `delivery`, which has no restarts, and not with
`MaxRestarts` = 1. The same happens without a restart when the ring has forgotten the
id (`routing.c:262`), which a loss, two early timeouts and four requests do to a ring
of one. Nor does `HopsForced` hold for a node that relays a reply for somebody else,
which enters the route in it, direct or not. What is true is proved in section 5: hops
are forced on the one node that asks while it knows its own requests.
`receiveFifo` is written without asking for room (`routing.c:510`):
the fifth unread packet replaces the oldest, which is `overflow` in `HostApp`. A
RUP for an earlier request is handled by its addressee as one in transit
(`routing.c:432,448`), and the node can enter a route to itself. The description
of RUP in `rrq_rup_format.txt` has a fixed LEN and ids of 2 bytes, the code pops a
stack and has ids of 1 byte.

*Keys.* Node id 0 marks a free table entry, a node whose id is 0 does send its key
(`main.c:161`), and nobody turns it down (`main.c:593`): `ssk_set_key` then
overwrites the key page that a free entry names, which is the page of slot 0
(`keys.c:74`), and the peer with that page loses its key. `OnlyOwnKeyChanges` names
this as the one other way for a peer's key to change. After `processGenKeys` the session keys stored before
are those of a key pair that is gone. A cut between the two page writes of a new
key pair leaves a public and a private key that do not belong together, with both
flags set. `set_node_id(0)` changes RAM only although `keys.h:66` says that setters
are backed by the EEPROM: the id is back to what it was after a restart, unless
another change of the status has stored the 0. `CacheIsCurrent` is about the keys and
the table, and claims nothing of the status.

*Application.* `sendEncryptedTo` does not look at `queuePacket`'s answer
(`main.c:135`): a refused message is answered with OK. A message of 195 characters
makes a line of 201 bytes in a buffer of 200. A full `receiveFifo` is written where
the main loop is reading: a message is decrypted from two halves and refused, or a
public key is made of two. An interrupt between the reads of `stored` and of the
offsets makes `queuePacket` refuse a packet for an empty queue (`packet_fifo.c:15`),
and the host is told OK. Messages are not told apart on their way, so the host may be
given one twice, or later ones first. The prefix of a received message has
the address in hexadecimal, the command that answers it takes decimals. Small
hexadecimal letters count as 0.

*Host lines.* After a lost count the ring holds a line more than it counts, and can
then be written over or out of order. A chunk that fills the buffer is read past
its end.

*USB.* With the buffer full and the host gone, or not taking characters, the timer
interrupt waits in `cdc_write_string` for ever, and so does everything else. `cdc_read_string`
waits in `getc` after the line is closed, and returns the longest string without an
end. The SRAM demo's `udi_cdc_putc` does not ask `is_opened`.

*SRAM.* `msgbuf.h` and `packetbuf.h` share the include guard `MSGBUG_H__`. The
packet demo reads a page of 256 bytes into a buffer of 128, and the message demo
asks for one more than fits. A message of length 0 hides those behind it.

## 5. Proofs

### SendQueue (no preemption)

From `SlotsAssumption` (1 to 255 slots) and `Preempt = FALSE`, for every set of
packets: `TypeCorrect`, `RefusalsAreJustified`, `EmptyIsExact` and
`SendQueueImplementsQueue`.

The lemmas on `RingFifo` say what a ring that is `Sound` holds (`Contents`, the
sequence of its slots from `t` on, `stored` of them), that isFull is exact in such a
ring, that a write appends to the contents and a skip drops the head. The invariant
follows `queuePacket`: until the head moves, the contents are
what is queued (`Settled`); between the move of the head and the store of the
count, they are once the ring is `Counted` (`Moved`). That is where preemption
would break it. The refinement maps `StoreStored` to Put, `Consume` to Take, and
every other step to a stutter.

### KeyStore

From the assumptions on the sizes, and for every number of slots from 1 to 60,
any peers, keys and passwords: `TypeCorrect`, `FlagsAreHonest`,
`ConfiguredIsAlwaysComplete`, `EntriesAlwaysHaveKeys`, `CachesAreCurrent`,
`OnlyOwnKeysChange`, `SavedKeysAreFound`. Any set of addresses may send keys, 0 too.

The invariant `IInv` says that the EEPROM *and every image in* `todo` is a
`SoundImage` (flags vouch for pages, configured means complete, entries lead to
keys), which is what a cut at any page needs, and that RAM `Mirrors` the last of
them. The lemmas `StatusWrite`, `PairWrite`, `KeyWrite`, `EntryWrite` say when one
page write keeps an image sound; each handler's proof is then the chain of its
writes in the order of the code. `MinIsMember` (a search finds a member) rests on
the well-foundedness of the naturals.

`OnlyOwnKeysChange` and `SavedKeysAreFound` are about two images, one before and one
after a write. Their invariant `KeysInv` says of each image in `todo` and the one
before it that they differ in the key being saved only, or that the table is gone,
and of the last image that the key being saved is found in it. A packet from address
0 is the case of `SaveFreeKeys`: it is one write of the page that a free entry names,
so the peer that changes has its entry on that page, and no other does.

### HostMsg

`ByteComesBack`: two digits written and read are the byte. `BufferComesBack`: a key
or a hash of any length that is printed and typed again is the same, which is how
public keys get from one node's host to the other's. `StringLeavesRoom`:
`hostMsg_addString` keeps the last place of a line free. `MCHostApp` asserts small
cases of all three.

### HostApp

For two different nodes, any number of slots, any lengths of messages up to 195 and
no bound that the proof uses on how much happens or waits:
`AuthenticatedNodesAreConfigured`, `CountedPacketsAreThere`, `MessagesArriveIntact`,
`FailuresNeedReplacedKeys`, `TypeCorrect`, and, with room for two replies and the
buffer of 200 characters of the code, `RepliesAlwaysFit`.

The invariant `IInv` is the types of the state together with

* `Waiting`: `stored` is no more than what is in the ring, nor is what the main loop
  is about to store; a packet that is being read is there. The count may wrap to 0
  while the main loop is at a packet, but then 256 of them wait.
* `Counted`: there are no more messages, and no more pairs, than there were events.
  `TypeOK` needs it, since it numbers messages up to `MaxEvents`; and a fresh pair
  can always be drawn.
* `Room`: no line waits while the main loop waits for input, at most one when it
  comes to a packet. This is why `host_tx_queueMessage` can do without isFull.

On top of it:

* `AsTyped`: a packet or a line with a number has the length of the message with
  that number, on the air, in `receiveFifo` and in `tx_fifo`, whatever was sent again
  or overwritten. `MessagesIntact` follows.
* `Fits`: only the line of a message of 195 characters is too long, and it is the
  last one.
* `HeaderIsHead`: until `receiveFifo` overflows, the header that was copied is still
  that of the slot the main loop works on.
* `Undisturbed`: as long as no pair in use was replaced, nothing overflowed and
  nothing was torn (`Quiet`), a node has had one public key, the other knows that one
  or none, and every packet sent or in `receiveFifo` is encrypted with the one key the
  two share. `FailureMeansReplaced` is not inductive without it: the packet that
  fails was encrypted long before.

### HostRx

For every set of characters, every size of buffer from 3 up, and fewer than 255
slots: `TypeCorrect`, `LineIsUndisturbed`, `CountsAreNeverInvented`,
`LinesArriveAsTyped`. The firmware
has 4 slots; with 255 the count of a full ring could reach 256 while a line is
being skipped, and wrap.

The count can fall short, because the interrupt's `stored++` can come between the
load and the store of the main loop's `stored--`. So the invariant bounds it from
above only, by `Gap`, the slots from `t` to `h`: `stored` is at most `Gap`, one more
between the move of the tail and the store of the count, and never 0 from peek to
skip. If the head then comes to the tail, isFull says so, and the slot the main loop
reads is not written. `Counted` says the same of the lines that are there.

`LinesArriveAsTyped` has an invariant of its own, `Typing`. `Gathered`: what the buffer
and the USB stack hold together is what was typed since the last line, or that line,
if what is still to be read ends it. `InOrder`: each line in the ring is the one typed
where `origin` says. `ReadAppends` is the lemma on the operators: reading a chunk that
fits puts it behind what was gathered.

### Routing

For every finite network, one-way links included, any traffic and any number of
packets, requests, losses, early timeouts and restarts: `TypeCorrect`,
`RepliesFollowTheirStack`, `RequestsTrackTheirPath`, `RoutesAreHeard`,
`FailuresAreSettled`, `ContentIsNeverInvented`, `HopsAreForced`. `RoutesLeadToNeighbours` adds that
links go both ways, without which it is false. The assumptions on the constants are
the source's: a hopcount is a byte and the list of a request no longer than a frame
(`MaxHops` at most 255), request ids are bytes, and an entry survives at least one
failure and at most 127 (`MAX_ACK_FAILURES` is 10).

A property of the frames that are received has to hold of those that will be sent.
So the invariant `IInv` says

* of every frame held by a node that it is `Sound` there: the list of a request is a
  path that ends at the sender; the stack of a reply has its next node on top, and
  what is below it is a path to the requester; content and failures name a packet
  that was queued;
* of a node in `forward` that its call is one that may be made: what it sends would
  be `Sound` where it goes;
* of the tables that an entry has no failures or all of them, but for the one entry
  `forward` is using, which has as many as there were retries;
* of each queue, also when it is overwritten, that it holds packets that were queued.

`HeldIsSound` and the lemmas on paths (`PathExtend` and those after it) carry the
first of these through the handlers, which extend a list or pop a stack.
`RoutesAreHeard` is inductive on top of that: an entry is made from the sender of a
frame, or from a stack whose top was checked.

`HopsAreForced` has two hypotheses, both needed (section 4): one node asks
(`OneAsker`), and it knows its own requests when it hears them relayed
(`KnowsOwnRequests`), as it does in every state of `delivery`. Restarts, losses and early timeouts are not excluded. The invariant
`HInv` says of every request and reply, held by a node or being sent, that it is
`Forced`: it is about the route asked for, neither end of that route is in its list,
and a reply with an empty list was not sent by the node it makes the route to. The
destination answers only a request with a list, so its reply has one; a relay is
neither end, and takes only itself off the list; so the node that asks hears the reply
from a relay. The other handlers take no next hop from a frame (`OthersKeepHops`).

### Radio

`TypeCorrect`, `ModeIsTheChips`, `NoAckCountsTwice`, `EveryFrameInterrupts`,
`SpiIsExclusive`, for any number of faults. The model is about as many frames as
`RXFIFO` holds, since it is written without asking for room (`FramesAssumption`);
the proofs use of that number only that it is one.

The difficulty is that the state of the chip is known only together with what the
main context has still to do. `Follows` says which labels can lie below a label,
and `Stack` that a stack is a chain of such pairs which sends one frame at most and
does not send what asks for an acknowledgement; `PopStack`, `PushStack` and the lemmas
after them say what a step does to such a stack. `QueueIsBounded` keeps `RXFIFO`
from overflowing, lost counts included. The invariant has five parts:

* `Tracks`: what the label on top says of `_mode`, the chip, the level and the mask.
  Between `WriteMode` and `StoreMode` only a chip in standby with an empty or cut
  FIFO can be at odds with a `_mode` of RX, which is where a handler starves.
* `Holding`: what may be in the FIFO in which mode, and that a frame in a receiver
  has its interrupt pending.
* `Counting`: while `ACK_RECEIVED` is set and `ACK_RECEIVED_CLEARED` is too, that is,
  when an acknowledgement was counted and one of the two flags not yet reset,
  nobody listens until `receiveBegin` has reset it. So the same flag is not counted
  a second time.
* `Earned`: acknowledgements counted, found and not counted, remembered, and in the
  sender's FIFO are together no more than were on the air.
* `Carried`: acknowledgements on the air or owed, frames at the receiver and frames
  under way are together no more than were sent.

### SramBuffers

For any number and size of pages of which two buffers fit the chip, any messages one
byte shorter than a page or less, and any packets no longer than a page:
`MessagesImplementQueue` and `PacketsComeBack`.

Both rest on `PagesApart`, that no two pages share a cell, of the same buffer or of
both, and on `WriteToPage`: in sequential mode what is written into a page lies there
in a row, and every other page is as it was. In byte mode, or with the address moved,
neither is so; hence `Alone`: during a transaction of the main thread interrupts are
off, the chip is in sequential mode and its address is where the main thread left it.

* `Ring` relates the two offsets and the count of the messages, at each label: while
  a message is stored it is not counted, and between the two stores of a read the
  count and the tail disagree by one (`First`, `Count`).
* `Kept`: every page counted holds a message, its length first. `Arriving` says the
  same of the page being written, as far as it has been.
* `PacketRing`: the pages of the other buffer hold the packets in `sent`, in order.

The refinement maps `StoreFilled`, where a message becomes one that is counted, to Put
and `ReadBytes`, where its bytes are in the reader's buffer, to Take. Every other step
of the main thread, and every step of the interrupt, is a stutter, since the messages
that lie in the pages (`Lined`) are the same before and after it.

### UsbSerial

For any lengths of texts, numbers and replies, and any room in the USB stack from two
characters up: `RepliesArriveWhole` and `ClosedLineIsQuiet`.

The invariant says which calls a context can have still to make. Of all but the
reply: only the first may have asked `is_opened` already (`Sound`), and in the
application, where the timer prints into the main loop's prints, none is a pair of
hexadecimal digits. So the characters asked for and not put (`Asked`) are two at most,
one in each context or two in the demo, and no more once the line is closed
(`Bounded`). Of the reply (`Reply`): it is alone in the main loop, never in the timer,
and what was put and what is left are its length. `MainIsSound` and `TimerIsSound`
go through all that is printed.

### Only model-checked

Liveness (`Delivered`, `KeepsListening`, `PrintsEnd`) stays with TLC: the prover handles neither fairness
nor ENABLED.

## 6. Not modelled, and the plan

Every safety property of the runs that are expected to pass is proved for every size,
`HopsForced` under the two hypotheses named in section 5.

Not modelled:

* Operations nobody calls: `sendWithRetry`, `setFrequency`, `sleep`, `encrypt`,
  `readTemperature`, `sendACK` of `RFM69.cpp`, `rcCalibration`, `readAllRegs`,
  `cdc_log_signed`, `debugPrintRecentRRQ`, `unset_status_flag`, `hostMsg_addInt`
  and `fifo_peek`.
* The ciphers (vendored) and the dialogue with the SHA204 chip (a vendor library);
  their outcomes are in `HostApp`.
* `RFM69registers.h` and `conf_clock.h`: names of registers and bits.
* `hop/main.c` and `radio/main.c` call `getNextFrame` with four arguments, and
  `keys/main.c` uses names `keys.c` no longer has: they do not compile against this
  tree. What `radio/main.c` does with the driver is in `Radio` all the same.
* `final_fifo` (an unused draft of the same ring), stack painting (reads raw
  memory), the protected register write of a reset, USART, the LED and reference
  demos (one driver on a board).
* Unplugging USB, and whatever follows bytes written past the line buffer.
