----------------------------- MODULE SramBuffers ------------------------------
(***************************************************************************)
(* The two ring buffers kept in the external SRAM (msgbuf/msgbuf.c and     *)
(* packetbuf/packetbuf.c), the driver below them (sram/sram.c), and the    *)
(* chip.  Messages are stored and read by the main thread, packets by an   *)
(* interrupt: the headers allow each buffer one of the two.  What one SPI  *)
(* transaction does depends on the mode the chip was last set to, and a    *)
(* transaction that an interrupt's transaction falls into is cut short.    *)
(***************************************************************************)
EXTENDS Integers, Sequences

CONSTANTS MAX_PAGES, PAGE_SIZE,
          SRAM_SIZE,      \* SRAM_MAX_ADDRESS + 1
          CHIP_PAGE,      \* bytes in a page of the chip's page mode
          Messages, Packets, \* what is stored
          None            \* nothing read yet

PACKETBUF_MIN_ADDRESS == MAX_PAGES * PAGE_SIZE

ASSUME LayoutAssumption ==
    /\ MAX_PAGES \in Nat \ {0} /\ PAGE_SIZE \in Nat \ {0} /\ CHIP_PAGE \in Nat \ {0}
    /\ SRAM_SIZE \in Nat
    /\ PACKETBUF_MIN_ADDRESS + MAX_PAGES * PAGE_SIZE <= SRAM_SIZE
ASSUME MessagesAssumption == \A m \in Messages : m \in Seq(Nat) /\ Len(m) \in 1 .. PAGE_SIZE - 1
ASSUME PacketsAssumption  == \A p \in Packets : p \in Seq(Nat) /\ Len(p) <= PAGE_SIZE
ASSUME NoneAssumption     == None \notin Messages

VARIABLES
  mem, mode,     \* the chip: its cells and its mode
  cursor,        \* the address of the transaction it is selected for, -1 if none
  masked,        \* interrupts are off
  head_page, tail_page, filled,     \* the two buffers' own variables
  pc, msg,       \* where the main thread stands in msgbuf, and its argument
  dest,          \* the message last read
  sent,          \* history: the packets stored and not yet read, oldest first
  got            \* history: the packet last read, and the page it came as

chip   == <<mem, mode, cursor>>
rings  == <<head_page, tail_page, filled>>
packet == <<sent, got>>
vars   == <<chip, masked, rings, pc, msg, dest, packet>>

Buffer  == {"msgbuf", "packetbuf"}
Address == 0 .. SRAM_SIZE - 1

\* Wrong on purpose: both buffers begin at the same address.
BaseShared(b) == 0

Base(b) == IF b = "msgbuf" THEN 0 ELSE PACKETBUF_MIN_ADDRESS

PageAddress(b, page) == PAGE_SIZE * page + Base(b)

\* The chip is not selected; it powers up in byte mode, its cells in no known state.
sram_init == mem = [a \in Address |-> 0] /\ mode = "byte" /\ cursor = -1

\* msgbuf_init and packetbuf_init
init == /\ head_page = [b \in Buffer |-> 0]
        /\ tail_page = [b \in Buffer |-> 0]
        /\ filled = [b \in Buffer |-> 0]

Init == /\ sram_init
        /\ masked = FALSE
        /\ init
        /\ pc = "idle" /\ msg = <<>> /\ dest = None
        /\ sent = <<>> /\ got = [packet |-> <<>>, page |-> <<>>]

-----------------------------------------------------------------------------
(* The chip. *)

\* Where byte i (from 0) of a transaction that began at address a is: in byte mode
\* there is one byte only, in page mode the address wraps in its page.
Place(m, a, i) ==
    CASE m = "byte"       -> IF i = 0 THEN a ELSE -1
      [] m = "page"       -> ((a \div CHIP_PAGE) * CHIP_PAGE) + ((a + i) % CHIP_PAGE)
      [] m = "sequential" -> (a + i) % SRAM_SIZE

Written(cells, m, a, s) ==
    [c \in Address |-> IF \E i \in DOMAIN s : Place(m, a, i - 1) = c
                       THEN s[CHOOSE i \in DOMAIN s : /\ Place(m, a, i - 1) = c
                                                      /\ \A j \in DOMAIN s : Place(m, a, j - 1) = c => j <= i]
                       ELSE cells[c]]

ReadBack(cells, m, a, n) ==
    [i \in 1 .. n |-> IF Place(m, a, i - 1) = -1 THEN 0 ELSE cells[Place(m, a, i - 1)]]

sram_set_mode(m) == mode' = m

\* Wrong on purpose: interrupts stay on.
IrqLeftOn == UNCHANGED masked

cpu_irq_save    == masked' = TRUE
cpu_irq_restore == masked' = FALSE

NextPage(page) == (page + 1) % MAX_PAGES

-----------------------------------------------------------------------------
(* msgbuf, in the main thread. *)

Goto(from, to) == pc = from /\ pc' = to

msgbuf_next_length == IF filled["msgbuf"] > 0 THEN mem[PageAddress("msgbuf", tail_page["msgbuf"])] ELSE 0

\* msgbuf_store_message: a full buffer refuses the message.
Store == /\ Goto("idle", "storeLength")
         /\ filled["msgbuf"] # MAX_PAGES
         /\ msg' \in Messages
         /\ cpu_irq_save /\ sram_set_mode("sequential")
         /\ UNCHANGED <<mem, cursor, rings, dest, packet>>

Head_ == PageAddress("msgbuf", head_page["msgbuf"])
Tail_ == PageAddress("msgbuf", tail_page["msgbuf"])

StoreLength == /\ Goto("storeLength", "storeSelect")
               /\ mem' = Written(mem, mode, Head_, <<Len(msg)>>)
               /\ UNCHANGED <<mode, cursor, masked, rings, msg, dest, packet>>

\* A transaction: the chip is selected and told the address ...
StoreSelect == /\ Goto("storeSelect", "storeBytes")
               /\ cursor' = Head_ + 1
               /\ UNCHANGED <<mem, mode, masked, rings, msg, dest, packet>>

\* ... and takes the bytes if it is still selected.
StoreBytes == /\ Goto("storeBytes", "storeFilled")
              /\ mem' = IF cursor = -1 THEN mem ELSE Written(mem, mode, cursor, msg)
              /\ cursor' = -1
              /\ cpu_irq_restore
              /\ UNCHANGED <<mode, rings, msg, dest, packet>>

StoreFilled == /\ Goto("storeFilled", "storeHead")
               /\ filled' = [filled EXCEPT !["msgbuf"] = @ + 1]
               /\ UNCHANGED <<chip, masked, head_page, tail_page, msg, dest, packet>>

StoreHead == /\ Goto("storeHead", "idle")
             /\ head_page' = [head_page EXCEPT !["msgbuf"] = NextPage(@)]
             /\ msg' = <<>>
             /\ UNCHANGED <<chip, masked, tail_page, filled, dest, packet>>

\* msgbuf_read_message, after the caller has seen a length.
ReadMessage == /\ Goto("idle", "readSelect")
               /\ msgbuf_next_length # 0
               /\ filled["msgbuf"] # 0
               /\ cpu_irq_save /\ sram_set_mode("sequential")
               /\ UNCHANGED <<mem, cursor, rings, msg, dest, packet>>

ReadSelect == /\ Goto("readSelect", "readBytes")
              /\ cursor' = Tail_ + 1
              /\ UNCHANGED <<mem, mode, masked, rings, msg, dest, packet>>

ReadBytes == /\ Goto("readBytes", "readFilled")
             /\ dest' = IF cursor = -1 THEN <<>> ELSE ReadBack(mem, mode, cursor, mem[Tail_])
             /\ cursor' = -1
             /\ cpu_irq_restore
             /\ UNCHANGED <<mem, mode, rings, msg, packet>>

ReadFilled == /\ Goto("readFilled", "readTail")
              /\ filled' = [filled EXCEPT !["msgbuf"] = @ - 1]
              /\ UNCHANGED <<chip, masked, head_page, tail_page, msg, dest, packet>>

ReadTail == /\ Goto("readTail", "idle")
            /\ tail_page' = [tail_page EXCEPT !["msgbuf"] = NextPage(@)]
            /\ UNCHANGED <<chip, masked, head_page, filled, msg, dest, packet>>

main == \/ Store \/ StoreLength \/ StoreSelect \/ StoreBytes \/ StoreFilled \/ StoreHead
        \/ ReadMessage \/ ReadSelect \/ ReadBytes \/ ReadFilled \/ ReadTail

-----------------------------------------------------------------------------
(* packetbuf, in an interrupt, which leaves the chip deselected. *)

packetbuf_store_packet ==
    /\ ~masked
    /\ filled["packetbuf"] # MAX_PAGES
    /\ \E p \in Packets :
          /\ sram_set_mode("sequential")
          /\ mem' = Written(mem, mode', PageAddress("packetbuf", head_page["packetbuf"]), p)
          /\ sent' = Append(sent, p)
    /\ cursor' = -1
    /\ filled' = [filled EXCEPT !["packetbuf"] = @ + 1]
    /\ head_page' = [head_page EXCEPT !["packetbuf"] = NextPage(@)]
    /\ UNCHANGED <<masked, tail_page, pc, msg, dest, got>>

packetbuf_has_next == filled["packetbuf"] > 0

\* The whole page is read, however long the packet was.
packetbuf_read_packet ==
    /\ ~masked
    /\ packetbuf_has_next
    /\ sram_set_mode("sequential")
    /\ got' = [packet |-> Head(sent),
               page   |-> ReadBack(mem, mode', PageAddress("packetbuf", tail_page["packetbuf"]), PAGE_SIZE)]
    /\ sent' = Tail(sent)
    /\ cursor' = -1
    /\ filled' = [filled EXCEPT !["packetbuf"] = @ - 1]
    /\ tail_page' = [tail_page EXCEPT !["packetbuf"] = NextPage(@)]
    /\ UNCHANGED <<mem, masked, head_page, pc, msg, dest>>

Next == main \/ packetbuf_store_packet \/ packetbuf_read_packet

Spec == Init /\ [][Next]_vars

-----------------------------------------------------------------------------
\* The messages as they lie in the SRAM, oldest first.  Between taking the bytes
\* out and moving tail_page on, the first page is no longer one of them.
MessageAt(page) == [i \in 1 .. mem[PageAddress("msgbuf", page)] |-> mem[PageAddress("msgbuf", page) + i]]

Taken == pc \in {"readFilled", "readTail"}

Waiting == LET first == tail_page["msgbuf"] + (IF Taken THEN 1 ELSE 0)
               n     == filled["msgbuf"] - (IF pc = "readFilled" THEN 1 ELSE 0)
           IN  [i \in 1 .. n |-> MessageAt((first + i - 1) % MAX_PAGES)]

\* Messages are a bounded first in, first out queue that hands back what was put
\* in, byte for byte, whatever the interrupt does with the chip in between.
Queue == INSTANCE SlotQueue WITH q <- Waiting, out <- dest, Item <- Messages, Slots <- MAX_PAGES
MessagesAreQueue == Queue!Spec

\* A page read back begins with the packet that was stored in it.
PacketsReadBack == SubSeq(got.page, 1, Len(got.packet)) = got.packet
=============================================================================
