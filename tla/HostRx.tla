-------------------------------- MODULE HostRx --------------------------------
(***************************************************************************)
(* The host's lines (app/host_rx.c).  The USB interrupt gathers what the   *)
(* host sends in `msg' until a chunk ends with the end of a line, and then *)
(* stores the line in rx_fifo if there is room.  The main loop works on    *)
(* the oldest line where it lies, between peek and skip, and skip's        *)
(* `stored--' is a load and a store.                                       *)
(*                                                                         *)
(* A character is one of Char or End ('\r' or '\n').  A chunk that fills   *)
(* more than the buffer is read to one place before its end: bytes go past *)
(* it, and the model says nothing of what happens then.                    *)
(***************************************************************************)
EXTENDS RingFifo

CONSTANTS Char, End, Zero,
          BufSize,   \* HOST_MSG_BUF_SIZE
          MaxChunk,  \* bound of the model: characters in one USB packet
          MaxTyped   \* bound of the model: characters the host sends

Cell == Char \cup {End, Zero}
Line == UNION {[1 .. k -> Cell] : k \in 1 .. BufSize - 1}

ASSUME BufAssumption   == BufSize \in Nat /\ BufSize >= 3
ASSUME BoundAssumption == MaxChunk \in Nat /\ MaxTyped \in Nat
ASSUME ItemAssumption  == Line \subseteq Item

VARIABLES
  msg,     \* the line being gathered: the buffer and its length
  pending, \* what the USB stack has received and rx_callback has not read
  spilled, \* bytes went past the end of the buffer
  fifo,
  pc,      \* where the main loop stands
  item,    \* what the main loop saw at the slot when it peeked
  used,    \* what the slot held when the main loop was done with it
  tmp,     \* the register between the load and the store of `stored--'
  unread,  \* history: the lines stored and not yet skipped, oldest first
  origin,  \* history: for each of them, which line was the last one typed then
  typed,   \* history: the lines typed so far, and the one being typed
  partial,
  tidy,    \* history: every chunk so far held one line or less, and no line too long
  count    \* bound: characters sent

rxVars   == <<msg, pending, spilled>>
mainVars == <<pc, item, used, tmp>>
history  == <<typed, partial, tidy, count>>
vars     == <<rxVars, fifo, mainVars, unread, origin, history>>

Steps == {"idle", "working", "tail", "load", "store"}

\* hostMsg_fifo is the ring of RingFifo with slots of another size: a slot holds
\* the length and the characters of a line.
Stored(m) == [i \in 1 .. m.len |-> m.data[i - 1]]
hostMsg_fifo_init        == packet_fifo_init
hostMsg_fifo_write(f, m) == packet_fifo_write(f, Stored(m))
hostMsg_fifo_peek(f)     == packet_fifo_peek(f)
host_rx_isEmpty          == packet_fifo_isEmpty(fifo)
host_rx_isFull           == packet_fifo_isFull(fifo)

Init == /\ msg = [len |-> 0, data |-> [i \in 0 .. BufSize - 1 |-> Zero]]
        /\ pending = <<>> /\ spilled = FALSE
        /\ fifo = hostMsg_fifo_init
        /\ pc = "idle" /\ item = None /\ used = None /\ tmp = 0
        /\ unread = <<>> /\ origin = <<>>
        /\ typed = <<>> /\ partial = <<>> /\ tidy = TRUE /\ count = 0

-----------------------------------------------------------------------------
(* The USB interrupt. *)

Chunk == UNION {[1 .. k -> Char \cup {End}] : k \in 1 .. MaxChunk}

OneLineAtMost(c) == \A i \in 1 .. Len(c) - 1 : c[i] # End

\* The host sends a chunk, and cdc_rx_notify calls rx_callback.
cdc_rx_notify ==
    /\ pending = <<>> /\ ~spilled
    /\ \E c \in Chunk :
          /\ count + Len(c) <= MaxTyped
          /\ count' = count + Len(c)
          /\ pending' = c
          /\ tidy' = (tidy /\ OneLineAtMost(c) /\ Len(partial) + Len(c) <= BufSize - 2)
          /\ IF c[Len(c)] = End
             THEN /\ typed' = Append(typed, [partial \o c EXCEPT ![Len(partial \o c)] = Zero])
                  /\ partial' = <<>>
             ELSE partial' = partial \o c /\ UNCHANGED typed
    /\ UNCHANGED <<msg, spilled, fifo, mainVars, unread, origin>>

\* udi_cdc_read_buf: the first n characters that wait, from place k of the buffer
\* on; those that fall past the end of it are elsewhere.
Read(data, k, n) == [i \in DOMAIN data |-> IF i \in k .. k + n - 1 THEN pending[i - k + 1] ELSE data[i]]

\* Wrong on purpose: room is not asked for.
RoomUnasked == TRUE

Room == ~host_rx_isFull

\* Wrong on purpose: the next line is put behind the one just stored.
LenKept(m) == m

reset_message(m) == [m EXCEPT !.len = 0]

\* The line is stored, or dropped if there is no room, and the next one begins.
Complete(m) == /\ IF Room
                  THEN /\ fifo' = hostMsg_fifo_write(fifo, m)
                       /\ unread' = Append(unread, Stored(m))
                       /\ origin' = Append(origin, Len(typed))
                  ELSE UNCHANGED <<fifo, unread, origin>>
               /\ msg' = reset_message(m)

\* update_message and what rx_callback does with a line, when the chunk fits.
Gather ==
    /\ pending # <<>> /\ ~spilled
    /\ msg.len + Len(pending) - 1 < BufSize
    /\ LET len  == msg.len + Len(pending)
           data == Read(msg.data, msg.len, Len(pending))
       IN  \/ /\ len >= BufSize - 1
              /\ Complete([len |-> BufSize - 1, data |-> [data EXCEPT ![BufSize - 1] = Zero]])
           \/ /\ len < BufSize - 1 /\ data[len - 1] = End
              /\ Complete([len |-> len, data |-> [data EXCEPT ![len - 1] = Zero]])
           \/ /\ len < BufSize - 1 /\ data[len - 1] # End
              /\ msg' = [len |-> len, data |-> data]
              /\ UNCHANGED <<fifo, unread, origin>>
    /\ pending' = <<>>
    /\ UNCHANGED <<spilled, mainVars, history>>

\* When it does not, the line is cut, and rx_callback calls update_message again.
\* len is set before it is used as the place to read to.
Overfull ==
    /\ pending # <<>> /\ ~spilled
    /\ msg.len + Len(pending) - 1 >= BufSize
    /\ LET num_to_read == BufSize - msg.len - 1
       IN  /\ Complete([len |-> BufSize - 1, data |-> Read(msg.data, BufSize - 1, num_to_read)])
           /\ pending' = SubSeq(pending, num_to_read + 1, Len(pending))
           /\ spilled' = (num_to_read > 1)
    /\ UNCHANGED <<mainVars, history>>

rx_callback == Gather \/ Overfull

-----------------------------------------------------------------------------
(* The main loop, which stands still while the interrupt runs. *)

MainRuns == pending = <<>> /\ ~spilled

host_rx_peek == /\ MainRuns /\ pc = "idle"
                /\ ~host_rx_isEmpty
                /\ pc' = "working"
                /\ item' = hostMsg_fifo_peek(fifo)
                /\ UNCHANGED <<rxVars, fifo, used, tmp, unread, origin, history>>

\* The command is parsed where it lies.
Work == /\ MainRuns /\ pc = "working"
        /\ pc' = "tail"
        /\ used' = hostMsg_fifo_peek(fifo)
        /\ UNCHANGED <<rxVars, fifo, item, tmp, unread, origin, history>>

SkipTail == /\ MainRuns /\ pc = "tail"
            /\ pc' = "load"
            /\ fifo' = [fifo EXCEPT !.t = Advance(@)]
            /\ UNCHANGED <<rxVars, item, used, tmp, unread, origin, history>>

SkipLoad == /\ MainRuns /\ pc = "load"
            /\ pc' = "store"
            /\ tmp' = fifo.stored
            /\ UNCHANGED <<rxVars, fifo, item, used, unread, origin, history>>

Forget(q) == IF q = <<>> THEN q ELSE Tail(q)

\* Wrong on purpose: the count is left as it is.
SkipStoreUncounted == /\ MainRuns /\ pc = "store"
                      /\ pc' = "idle"
                      /\ unread' = Forget(unread) /\ origin' = Forget(origin)
                      /\ UNCHANGED <<rxVars, fifo, item, used, tmp, history>>

SkipStore == /\ MainRuns /\ pc = "store"
             /\ pc' = "idle"
             /\ fifo' = [fifo EXCEPT !.stored = (tmp + 255) % 256]
             /\ unread' = Forget(unread) /\ origin' = Forget(origin)
             /\ UNCHANGED <<rxVars, item, used, tmp, history>>

Main == host_rx_peek \/ Work \/ SkipTail \/ SkipLoad \/ SkipStore

Next == cdc_rx_notify \/ rx_callback \/ Main

Spec == Init /\ [][Next]_vars

-----------------------------------------------------------------------------
TypeOK == /\ msg \in [len : 0 .. BufSize - 2, data : [0 .. BufSize - 1 -> Cell]]
          /\ pending \in Seq(Char \cup {End})
          /\ spilled \in BOOLEAN
          /\ fifo \in Fifo
          /\ pc \in Steps
          /\ item \in Item \cup {None} /\ used \in Item \cup {None}
          /\ tmp \in 0..255
          /\ unread \in Seq(Line)

\* The slot the main loop works on keeps its line until the main loop is done
\* with it, whatever arrives meanwhile.
SlotUndisturbed == pc = "tail" => used = item

\* The ring never counts a line that is not there: between two rounds of the
\* main loop `stored' is at most the number of lines stored and not yet skipped.
\* (It may be less: an arrival between SkipLoad and SkipStore is not counted.)
NeverOvercounts == pc = "idle" => fifo.stored <= Len(unread)

\* As long as no chunk holds the end of a line anywhere but at its own end, and no
\* line is longer than BufSize - 3, each line stored is the line just typed, whole
\* and ended by the null character that strcmp and strtok stop at, in order.  (Only
\* the last character of a chunk is looked at: two lines in one chunk are one.)
LinesAsTyped == tidy => /\ ~spilled
                        /\ \A i \in DOMAIN unread : unread[i] = typed[origin[i]]
                        /\ \A i, j \in DOMAIN origin : i < j => origin[i] < origin[j]
=============================================================================
