-------------------------- MODULE SramBuffers_proofs --------------------------
(***************************************************************************)
(* The two buffers of the external SRAM, for any number and size of pages  *)
(* that fit, any messages and any packets.  The interrupt shares the chip  *)
(* with the main thread, but never a page, and never falls into one of its *)
(* transactions; so a page holds what was stored in it until it is read.   *)
(***************************************************************************)
EXTENDS SramBuffers, SequenceTheorems, TLAPS

Page        == 0 .. MAX_PAGES - 1
Storing     == {"storeLength", "storeSelect", "storeBytes", "storeFilled"}
Transaction == {"storeLength", "storeSelect", "storeBytes", "readSelect", "readBytes"}
Labels      == Storing \cup Transaction \cup {"idle", "storeHead", "readFilled", "readTail"}

\* The page i places after page p, for i no greater than MAX_PAGES.
After(p, i) == IF p + i < MAX_PAGES THEN p + i ELSE p + i - MAX_PAGES

Cells(b, p) == PageAddress(b, p) .. PageAddress(b, p) + PAGE_SIZE - 1

\* What lies in the cells: a message in a page, n of them from page f on, a sequence
\* from address a on, a packet in a page.
MessageIn(cells, p) == [i \in 1 .. cells[PageAddress("msgbuf", p)] |-> cells[PageAddress("msgbuf", p) + i]]
Lined(cells, f, n)  == [i \in 1 .. n |-> MessageIn(cells, After(f, i - 1))]
Row(cells, a, s)    == \A i \in 1 .. Len(s) : cells[a + i - 1] = s[i]
Holds(cells, p, x)  == \A j \in 1 .. Len(x) : cells[PageAddress("packetbuf", p) + j - 1] = x[j]

TypeOK == /\ mem \in [Address -> Nat] /\ mode \in {"byte", "sequential"}
          /\ masked \in BOOLEAN
          /\ head_page \in [Buffer -> Page] /\ tail_page \in [Buffer -> Page]
          /\ filled \in [Buffer -> 0 .. MAX_PAGES]
          /\ pc \in Labels
          /\ pc \in Storing => msg \in Messages

\* Where the waiting messages begin, and how many there are.
First == After(tail_page["msgbuf"], IF Taken THEN 1 ELSE 0)
Count == filled["msgbuf"] - (IF pc = "readFilled" THEN 1 ELSE 0)

Ring == /\ Count \in 0 .. MAX_PAGES
        /\ head_page["msgbuf"] = After(First, IF pc = "storeHead" THEN Count - 1 ELSE Count)
        /\ pc \in Storing => Count < MAX_PAGES
        /\ pc \in {"storeHead", "readSelect", "readBytes"} => Count >= 1

Kept == \A i \in 1 .. Count : MessageIn(mem, After(First, i - 1)) \in Messages

\* Interrupts are off during a transaction, so the chip is as it was set.
Alone == /\ masked <=> pc \in Transaction
         /\ pc \in Transaction => mode = "sequential"
         /\ pc = "storeBytes" => cursor = Head_ + 1
         /\ pc = "readBytes" => cursor = Tail_ + 1

\* The message that is being stored.
Arriving == /\ pc \in {"storeSelect", "storeBytes"} => mem[Head_] = Len(msg)
            /\ pc = "storeFilled" => MessageIn(mem, head_page["msgbuf"]) = msg

PacketRing == /\ sent \in Seq(Packets)
              /\ filled["packetbuf"] = Len(sent)
              /\ head_page["packetbuf"] = After(tail_page["packetbuf"], Len(sent))
              /\ \A i \in 1 .. Len(sent) : Holds(mem, After(tail_page["packetbuf"], i - 1), sent[i])

MInv == TypeOK /\ Ring /\ Kept /\ Alone /\ Arriving
IInv == MInv /\ PacketRing /\ PacketsReadBack

-----------------------------------------------------------------------------
(* Pages. *)

LEMMA Positive == /\ MAX_PAGES \in Nat /\ MAX_PAGES >= 1 /\ PAGE_SIZE \in Nat /\ PAGE_SIZE >= 1
                  /\ SRAM_SIZE \in Nat
BY LayoutAssumption

LEMMA Modulo ==
  ASSUME NEW m \in Nat, m > 0, NEW a \in Nat, a < 2 * m
  PROVE  a % m = IF a < m THEN a ELSE a - m
OBVIOUS

LEMMA AfterStep ==
  ASSUME NEW p \in Page, NEW k \in 0 .. MAX_PAGES - 1
  PROVE  /\ After(p, k) \in Page /\ NextPage(p) \in Page
         /\ After(p, k + 1) = NextPage(After(p, k))
         /\ After(NextPage(p), k) = After(p, k + 1)
         /\ After(p, 0) = p /\ After(p, 1) = NextPage(p)
<1>1. MAX_PAGES \in Nat /\ MAX_PAGES >= 1
  BY Positive
<1>2. \A q \in Page : NextPage(q) = IF q + 1 < MAX_PAGES THEN q + 1 ELSE q + 1 - MAX_PAGES
  BY <1>1, Modulo DEF Page, NextPage
<1>3. After(p, k) \in Page /\ NextPage(p) \in Page
  BY <1>1, <1>2 DEF Page, After
<1> QED
  BY <1>1, <1>2, <1>3 DEF Page, After

LEMMA AfterInjective ==
  ASSUME NEW p \in Page, NEW j \in 0 .. MAX_PAGES - 1, NEW k \in 0 .. MAX_PAGES - 1, After(p, j) = After(p, k)
  PROVE  j = k
BY Positive DEF Page, After

LEMMA Multiple ==
  ASSUME NEW n \in Nat, NEW a \in Nat, NEW b \in Nat, a < b
  PROVE  n * a + n <= n * b
<1>1. n * (a + 1) <= n * b
  OBVIOUS
<1>2. n * (a + 1) = n * a + n
  OBVIOUS
<1> QED
  BY <1>1, <1>2

\* Every page is in the chip.
LEMMA PageInChip ==
  ASSUME NEW b \in Buffer, NEW p \in Page
  PROVE  /\ PageAddress(b, p) \in Nat
         /\ PageAddress(b, p) + PAGE_SIZE <= SRAM_SIZE
         /\ Cells(b, p) \subseteq Address
<1>1. /\ MAX_PAGES \in Nat /\ PAGE_SIZE \in Nat /\ SRAM_SIZE \in Nat /\ p \in Nat /\ p < MAX_PAGES
      /\ PAGE_SIZE >= 1
  BY Positive DEF Page
<1>2. PAGE_SIZE * p + PAGE_SIZE <= PAGE_SIZE * MAX_PAGES
  BY <1>1, Multiple
<1>3. PAGE_SIZE * MAX_PAGES = MAX_PAGES * PAGE_SIZE /\ MAX_PAGES * PAGE_SIZE \in Nat /\ PAGE_SIZE * p \in Nat
  BY <1>1
<1>4. MAX_PAGES * PAGE_SIZE + MAX_PAGES * PAGE_SIZE <= SRAM_SIZE
  BY LayoutAssumption DEF PACKETBUF_MIN_ADDRESS
<1>5. Base(b) = 0 \/ Base(b) = MAX_PAGES * PAGE_SIZE
  BY DEF Base, PACKETBUF_MIN_ADDRESS
<1> DEFINE l == MAX_PAGES * PAGE_SIZE
           a == PAGE_SIZE * p
<1>6. PageAddress(b, p) = a + Base(b)
  BY DEF PageAddress
<1> HIDE DEF l, a
<1>7. PageAddress(b, p) \in Nat /\ PageAddress(b, p) + PAGE_SIZE <= SRAM_SIZE
  BY <1>1, <1>2, <1>3, <1>4, <1>5, <1>6 DEF l, a
<1> QED
  BY <1>1, <1>7 DEF Cells, Address

\* No two pages share a cell, also not a page of each buffer.
LEMMA PagesApart ==
  ASSUME NEW b \in Buffer, NEW p \in Page, NEW c \in Buffer, NEW q \in Page, b # c \/ p # q,
         NEW x \in Cells(b, p)
  PROVE  x \notin Cells(c, q)
<1> DEFINE l == MAX_PAGES * PAGE_SIZE
           a == PAGE_SIZE * p
           d == PAGE_SIZE * q
<1>1. /\ MAX_PAGES \in Nat /\ PAGE_SIZE \in Nat /\ PAGE_SIZE >= 1
      /\ p \in Nat /\ p < MAX_PAGES /\ q \in Nat /\ q < MAX_PAGES
  BY Positive DEF Page
<1>2. a \in Nat /\ d \in Nat /\ l \in Nat /\ PAGE_SIZE * MAX_PAGES = l
  BY <1>1
<1>3. a + PAGE_SIZE <= l /\ d + PAGE_SIZE <= l
  BY <1>1, <1>2, Multiple
<1>4. PageAddress(b, p) = a + Base(b) /\ PageAddress(c, q) = d + Base(c)
  BY DEF PageAddress
<1>5. p # q => a + PAGE_SIZE <= d \/ d + PAGE_SIZE <= a
  BY <1>1, Multiple
<1>6. /\ Base(b) = (IF b = "msgbuf" THEN 0 ELSE l) /\ Base(c) = (IF c = "msgbuf" THEN 0 ELSE l)
  BY DEF Base, PACKETBUF_MIN_ADDRESS
<1>7. b # c => (b = "msgbuf" /\ c # "msgbuf") \/ (b # "msgbuf" /\ c = "msgbuf")
  BY DEF Buffer
<1> HIDE DEF l, a, d
<1>8. x \in Int /\ a + Base(b) <= x /\ x <= a + Base(b) + PAGE_SIZE - 1
  BY <1>1, <1>2, <1>4, <1>6 DEF Cells
<1>9. CASE b # c
  BY <1>1, <1>2, <1>3, <1>4, <1>6, <1>7, <1>8, <1>9 DEF Cells
<1>10. CASE b = c
  <2>1. p # q /\ Base(b) = Base(c) /\ Base(b) \in Nat
    BY <1>2, <1>6, <1>10
  <2> QED
    BY <1>1, <1>2, <1>4, <1>5, <1>8, <2>1 DEF Cells
<1> QED
  BY <1>9, <1>10

-----------------------------------------------------------------------------
(* The chip in sequential mode, before the last address. *)

LEMMA PlaceIsNext ==
  ASSUME NEW a \in Nat, NEW i \in Nat, a + i < SRAM_SIZE
  PROVE  Place("sequential", a, i) = a + i
<1>1. a + i \in Nat /\ SRAM_SIZE \in Nat /\ SRAM_SIZE > 0 /\ a + i < 2 * SRAM_SIZE
  BY Positive
<1>2. (a + i) % SRAM_SIZE = a + i
  BY <1>1, Modulo
<1> QED
  BY <1>2 DEF Place

\* What is written lies in a row, and nothing else changes.
LEMMA WrittenInRow ==
  ASSUME NEW cells \in [Address -> Nat], NEW a \in Nat, NEW s \in Seq(Nat), a + Len(s) <= SRAM_SIZE
  PROVE  /\ Written(cells, "sequential", a, s) \in [Address -> Nat]
         /\ \A i \in 1 .. Len(s) : Written(cells, "sequential", a, s)[a + i - 1] = s[i]
         /\ \A c \in Address : c \notin a .. a + Len(s) - 1 => Written(cells, "sequential", a, s)[c] = cells[c]
<1> DEFINE P(i) == Place("sequential", a, i - 1)
           W == Written(cells, "sequential", a, s)
           Last(i, c) == P(i) = c /\ \A j \in DOMAIN s : P(j) = c => j <= i
<1>1. Len(s) \in Nat /\ DOMAIN s = 1 .. Len(s) /\ \A i \in 1 .. Len(s) : s[i] \in Nat
  BY LenProperties
<1>2. SRAM_SIZE \in Nat
  BY Positive
<1>3. \A i \in 1 .. Len(s) : P(i) = a + i - 1 /\ a + i - 1 \in Address
  <2>1. ASSUME NEW i \in 1 .. Len(s) PROVE P(i) = a + i - 1 /\ a + i - 1 \in Address
    <3>1. i - 1 \in Nat /\ a + (i - 1) < SRAM_SIZE /\ a + (i - 1) = a + i - 1
      BY <1>1, <1>2, <2>1
    <3> QED
      BY <1>2, <3>1, PlaceIsNext DEF Address
  <2> QED
    BY <2>1
<1>4. W = [c \in Address |-> IF \E i \in DOMAIN s : P(i) = c THEN s[CHOOSE i \in DOMAIN s : Last(i, c)] ELSE cells[c]]
  BY DEF Written
<1> HIDE DEF P, W
<1>5. ASSUME NEW i \in 1 .. Len(s) PROVE W[a + i - 1] = s[i]
  <2>1. \A j \in 1 .. Len(s) : P(j) = a + i - 1 <=> j = i
    BY <1>1, <1>3, <1>5
  <2>2. \A j \in DOMAIN s : Last(j, a + i - 1) <=> j = i
    BY <1>1, <2>1
  <2>3. i \in DOMAIN s /\ (CHOOSE j \in DOMAIN s : Last(j, a + i - 1)) = i
    BY <1>1, <2>2
  <2>4. \E j \in DOMAIN s : P(j) = a + i - 1
    BY <2>1, <1>1
  <2> HIDE DEF Last
  <2> QED
    BY <1>3, <1>4, <2>3, <2>4
<1>6. ASSUME NEW c \in Address, c \notin a .. a + Len(s) - 1 PROVE W[c] = cells[c]
  <2>1. \A j \in DOMAIN s : P(j) # c
    BY <1>1, <1>3, <1>6
  <2> HIDE DEF Last
  <2> QED
    BY <1>4, <2>1
<1>7. W \in [Address -> Nat]
  <2>1. ASSUME NEW c \in Address PROVE W[c] \in Nat
    <3>1. CASE c \in a .. a + Len(s) - 1
      <4>1. c - a + 1 \in 1 .. Len(s) /\ a + (c - a + 1) - 1 = c
        BY <1>1, <1>2, <3>1
      <4> QED
        BY <1>1, <1>5, <4>1
    <3>2. CASE c \notin a .. a + Len(s) - 1
      BY <1>6, <3>2
    <3> QED
      BY <3>1, <3>2
  <2>2. DOMAIN W = Address /\ W = [c \in Address |-> W[c]]
    <3> HIDE DEF Last
    <3> QED
      BY <1>4
  <2> QED
    BY <2>1, <2>2
<1> QED
  BY <1>5, <1>6, <1>7 DEF W

LEMMA ReadInRow ==
  ASSUME NEW cells \in [Address -> Nat], NEW a \in Nat, NEW n \in Nat, a + n <= SRAM_SIZE
  PROVE  ReadBack(cells, "sequential", a, n) = [i \in 1 .. n |-> cells[a + i - 1]]
<1>1. ASSUME NEW i \in 1 .. n
      PROVE  Place("sequential", a, i - 1) = a + i - 1 /\ a + i - 1 # -1
  <2>1. i - 1 \in Nat /\ a + (i - 1) < SRAM_SIZE /\ a + (i - 1) = a + i - 1
    BY Positive, <1>1
  <2> QED
    BY <2>1, PlaceIsNext
<1> QED
  BY <1>1 DEF ReadBack

-----------------------------------------------------------------------------
(* Messages and packets in their pages. *)

LEMMA MessageFits ==
  ASSUME NEW cells \in [Address -> Nat], NEW p \in Page, MessageIn(cells, p) \in Messages
  PROVE  /\ cells[PageAddress("msgbuf", p)] \in 1 .. PAGE_SIZE - 1
         /\ cells[PageAddress("msgbuf", p)] = Len(MessageIn(cells, p))
<1>1. PageAddress("msgbuf", p) \in Address
  BY PageInChip, Positive DEF Buffer, Address
<1>2. cells[PageAddress("msgbuf", p)] \in Nat
  BY <1>1
<1>3. MessageIn(cells, p) \in Seq(Nat) /\ Len(MessageIn(cells, p)) \in 1 .. PAGE_SIZE - 1
  BY MessagesAssumption
<1>4. DOMAIN MessageIn(cells, p) = 1 .. cells[PageAddress("msgbuf", p)]
  BY DEF MessageIn
<1>5. DOMAIN MessageIn(cells, p) = 1 .. Len(MessageIn(cells, p)) /\ Len(MessageIn(cells, p)) \in Nat
  BY <1>3, LenProperties
<1>6. cells[PageAddress("msgbuf", p)] = Len(MessageIn(cells, p))
  BY <1>2, <1>4, <1>5
<1> QED
  BY <1>3, <1>6

\* A message is where it was as long as nothing is written to its page.
LEMMA MessageStays ==
  ASSUME NEW cells \in [Address -> Nat], NEW later, NEW p \in Page, MessageIn(cells, p) \in Messages,
         \A c \in Cells("msgbuf", p) : later[c] = cells[c]
  PROVE  MessageIn(later, p) = MessageIn(cells, p)
<1> DEFINE a == PageAddress("msgbuf", p)
           n == cells[a]
<1>1. n \in 1 .. PAGE_SIZE - 1
  BY MessageFits
<1>2. a \in Nat /\ PAGE_SIZE \in Nat /\ PAGE_SIZE >= 1
  BY PageInChip, Positive DEF Buffer
<1>3. \A c \in a .. a + PAGE_SIZE - 1 : later[c] = cells[c]
  BY DEF Cells
<1> HIDE DEF n, a
<1>4. a \in a .. a + PAGE_SIZE - 1 /\ \A i \in 1 .. n : a + i \in a .. a + PAGE_SIZE - 1
  BY <1>1, <1>2
<1>5. later[a] = n /\ \A i \in 1 .. n : later[a + i] = cells[a + i]
  BY <1>3, <1>4 DEF n
<1>6. MessageIn(cells, p) = [i \in 1 .. n |-> cells[a + i]]
  BY DEF MessageIn, n, a
<1>7. MessageIn(later, p) = [i \in 1 .. later[a] |-> later[a + i]]
  BY DEF MessageIn, a
<1> QED
  BY <1>5, <1>6, <1>7

LEMMA PacketStays ==
  ASSUME NEW cells, NEW later, NEW p \in Page, NEW x \in Packets, Holds(cells, p, x),
         \A c \in Cells("packetbuf", p) : later[c] = cells[c]
  PROVE  Holds(later, p, x)
<1> DEFINE a == PageAddress("packetbuf", p)
<1>1. Len(x) \in Nat /\ Len(x) <= PAGE_SIZE
  BY PacketsAssumption, LenProperties
<1>2. a \in Nat /\ PAGE_SIZE \in Nat
  BY PageInChip, Positive DEF Buffer
<1>3. \A c \in a .. a + PAGE_SIZE - 1 : later[c] = cells[c]
  BY DEF Cells
<1>4. \A j \in 1 .. Len(x) : cells[a + j - 1] = x[j]
  BY DEF Holds
<1> HIDE DEF a
<1>5. \A j \in 1 .. Len(x) : a + j - 1 \in a .. a + PAGE_SIZE - 1
  BY <1>1, <1>2
<1>6. \A j \in 1 .. Len(x) : later[a + j - 1] = x[j]
  BY <1>3, <1>4, <1>5
<1> QED
  BY <1>6 DEF Holds, a

\* Writing to a page leaves the others alone.
LEMMA WriteToPage ==
  ASSUME NEW cells \in [Address -> Nat], NEW b \in Buffer, NEW p \in Page, NEW a \in Nat, NEW s \in Seq(Nat),
         PageAddress(b, p) <= a, a + Len(s) <= PageAddress(b, p) + PAGE_SIZE
  PROVE  /\ Written(cells, "sequential", a, s) \in [Address -> Nat]
         /\ Row(Written(cells, "sequential", a, s), a, s)
         /\ \A c \in Address : c \notin a .. a + Len(s) - 1 => Written(cells, "sequential", a, s)[c] = cells[c]
         /\ \A c \in Buffer, q \in Page : c # b \/ q # p =>
               \A x \in Cells(c, q) : Written(cells, "sequential", a, s)[x] = cells[x]
<1> DEFINE W == Written(cells, "sequential", a, s)
<1>1. /\ PageAddress(b, p) \in Nat /\ PageAddress(b, p) + PAGE_SIZE <= SRAM_SIZE
      /\ PAGE_SIZE \in Nat /\ SRAM_SIZE \in Nat /\ Len(s) \in Nat
  BY PageInChip, Positive, LenProperties
<1>2. a + Len(s) <= SRAM_SIZE
  BY <1>1
<1>3. /\ W \in [Address -> Nat]
      /\ \A i \in 1 .. Len(s) : W[a + i - 1] = s[i]
      /\ \A c \in Address : c \notin a .. a + Len(s) - 1 => W[c] = cells[c]
  BY <1>2, WrittenInRow
<1> HIDE DEF W
<1>4. ASSUME NEW c \in Buffer, NEW q \in Page, c # b \/ q # p, NEW x \in Cells(c, q)
      PROVE  W[x] = cells[x]
  <2>1. x \in Address
    BY <1>4, PageInChip
  <2>2. x \notin Cells(b, p)
    BY <1>4, PagesApart
  <2>3. x \notin a .. a + Len(s) - 1
    BY <1>1, <2>1, <2>2 DEF Cells, Address
  <2> QED
    BY <1>3, <2>1, <2>3
<1> QED
  BY <1>3, <1>4 DEF W, Row

LEMMA Parts ==
  ASSUME TypeOK
  PROVE  /\ MAX_PAGES \in Nat /\ MAX_PAGES >= 1 /\ PAGE_SIZE \in Nat /\ PAGE_SIZE >= 1
         /\ "msgbuf" \in Buffer /\ "packetbuf" \in Buffer /\ "msgbuf" # "packetbuf"
         /\ head_page["msgbuf"] \in Page /\ tail_page["msgbuf"] \in Page /\ filled["msgbuf"] \in 0 .. MAX_PAGES
         /\ head_page["packetbuf"] \in Page /\ tail_page["packetbuf"] \in Page
         /\ filled["packetbuf"] \in 0 .. MAX_PAGES
         /\ First \in Page /\ Count \in Int
<1>1. "msgbuf" \in Buffer /\ "packetbuf" \in Buffer
  BY DEF Buffer
<1>2. /\ head_page["msgbuf"] \in Page /\ tail_page["msgbuf"] \in Page /\ filled["msgbuf"] \in 0 .. MAX_PAGES
      /\ head_page["packetbuf"] \in Page /\ tail_page["packetbuf"] \in Page
      /\ filled["packetbuf"] \in 0 .. MAX_PAGES
  BY <1>1 DEF TypeOK
<1>3. 0 \in 0 .. MAX_PAGES - 1
  BY Positive
<1>4. After(tail_page["msgbuf"], 0) \in Page /\ After(tail_page["msgbuf"], 1) \in Page
  BY <1>2, <1>3, AfterStep
<1>5. First \in Page
  BY <1>4 DEF First
<1>6. Count \in Int
  BY <1>2 DEF Count
<1> QED
  BY <1>1, <1>2, <1>5, <1>6, Positive

\* The page that is filled is none of those in which messages wait.
LEMMA MessagesStay ==
  ASSUME TypeOK, Ring, Kept, NEW later \in [Address -> Nat], NEW b \in Buffer, NEW p \in Page,
         \A c \in Buffer, q \in Page : c # b \/ q # p => \A x \in Cells(c, q) : later[x] = mem[x],
         b = "packetbuf" \/ (p = head_page["msgbuf"] /\ pc \in Storing)
  PROVE  \A i \in 1 .. Count : MessageIn(later, After(First, i - 1)) = MessageIn(mem, After(First, i - 1))
<1> SUFFICES ASSUME NEW i \in 1 .. Count
             PROVE  MessageIn(later, After(First, i - 1)) = MessageIn(mem, After(First, i - 1))
  OBVIOUS
<1>1. /\ First \in Page /\ Count \in 0 .. MAX_PAGES /\ MAX_PAGES \in Nat
      /\ "msgbuf" \in Buffer /\ "msgbuf" # "packetbuf"
  BY Parts DEF Ring
<1>2. i - 1 \in 0 .. MAX_PAGES - 1
  BY <1>1
<1> DEFINE q == After(First, i - 1)
<1>3. q \in Page
  BY <1>1, <1>2, AfterStep
<1>4. "msgbuf" # b \/ q # p
  <2>1. CASE b = "packetbuf"
    BY <1>1, <2>1
  <2>2. CASE p = head_page["msgbuf"] /\ pc \in Storing
    <3>1. p = After(First, Count) /\ Count < MAX_PAGES
      BY <2>2 DEF Ring, Storing
    <3>2. Count \in 0 .. MAX_PAGES - 1 /\ i - 1 # Count
      BY <1>1, <3>1
    <3> QED
      BY <1>1, <1>2, <3>1, <3>2, AfterInjective
  <2> QED
    BY <2>1, <2>2
<1>5. \A x \in Cells("msgbuf", q) : later[x] = mem[x]
  BY <1>1, <1>3, <1>4
<1>6. MessageIn(mem, q) \in Messages
  BY DEF Kept
<1>7. mem \in [Address -> Nat]
  BY DEF TypeOK
<1> HIDE DEF q
<1>8. MessageIn(later, q) = MessageIn(mem, q)
  BY <1>3, <1>5, <1>6, <1>7, MessageStays
<1> QED
  BY <1>8 DEF q

LEMMA PacketsStay ==
  ASSUME TypeOK, PacketRing, NEW later \in [Address -> Nat], NEW b \in Buffer, NEW p \in Page,
         \A c \in Buffer, q \in Page : c # b \/ q # p => \A x \in Cells(c, q) : later[x] = mem[x],
         b = "msgbuf" \/ (p = head_page["packetbuf"] /\ Len(sent) < MAX_PAGES)
  PROVE  \A i \in 1 .. Len(sent) : Holds(later, After(tail_page["packetbuf"], i - 1), sent[i])
<1> SUFFICES ASSUME NEW i \in 1 .. Len(sent)
             PROVE  Holds(later, After(tail_page["packetbuf"], i - 1), sent[i])
  OBVIOUS
<1>1. /\ tail_page["packetbuf"] \in Page /\ Len(sent) \in 0 .. MAX_PAGES /\ MAX_PAGES \in Nat
      /\ "packetbuf" \in Buffer /\ "msgbuf" # "packetbuf" /\ sent \in Seq(Packets)
  BY Parts DEF PacketRing
<1>2. i - 1 \in 0 .. MAX_PAGES - 1 /\ sent[i] \in Packets
  BY <1>1, ElementOfSeq
<1> DEFINE q == After(tail_page["packetbuf"], i - 1)
<1>3. q \in Page
  BY <1>1, <1>2, AfterStep
<1>4. "packetbuf" # b \/ q # p
  <2>1. CASE b = "msgbuf"
    BY <1>1, <2>1
  <2>2. CASE p = head_page["packetbuf"] /\ Len(sent) < MAX_PAGES
    <3>1. p = After(tail_page["packetbuf"], Len(sent))
      BY <2>2 DEF PacketRing
    <3>2. Len(sent) \in 0 .. MAX_PAGES - 1 /\ i - 1 # Len(sent)
      BY <1>1, <2>2
    <3> QED
      BY <1>1, <1>2, <3>1, <3>2, AfterInjective
  <2> QED
    BY <2>1, <2>2
<1>5. \A x \in Cells("packetbuf", q) : later[x] = mem[x]
  BY <1>1, <1>3, <1>4
<1>6. Holds(mem, q, sent[i])
  BY DEF PacketRing
<1> HIDE DEF q
<1>7. Holds(later, q, sent[i])
  BY <1>2, <1>3, <1>5, <1>6, PacketStays
<1> QED
  BY <1>7 DEF q

-----------------------------------------------------------------------------
(* The steps of the main thread.  What waits stays, but for two of them. *)

Quiet == UNCHANGED <<mem, dest, First, Count>>

LEMMA KeptQuiet == ASSUME Kept, Quiet PROVE Kept'
BY DEF Kept, Quiet

LEMMA StoreStep == ASSUME MInv, Store PROVE MInv' /\ Quiet
<1>1. /\ pc = "idle" /\ pc' = "storeLength" /\ filled["msgbuf"] # MAX_PAGES
      /\ msg' \in Messages /\ masked' = TRUE /\ mode' = "sequential"
      /\ UNCHANGED <<mem, head_page, tail_page, filled, dest>>
  BY DEF Store, Goto, cpu_irq_save, sram_set_mode, rings
<1>2. Quiet
  BY <1>1 DEF Quiet, First, Count, Taken
<1>3. TypeOK'
  BY <1>1 DEF MInv, TypeOK, Labels, Storing
<1>4. Count = filled["msgbuf"] /\ filled["msgbuf"] \in 0 .. MAX_PAGES /\ MAX_PAGES \in Nat
  BY <1>1, Parts DEF Count, MInv
<1>5. Ring'
  BY <1>1, <1>2, <1>4 DEF MInv, Ring, Storing, Quiet
<1>6. Alone' /\ Arriving'
  BY <1>1 DEF Alone, Arriving, Transaction
<1> QED
  BY <1>2, <1>3, <1>5, <1>6, KeptQuiet DEF MInv

LEMMA StoreSelectStep == ASSUME MInv, StoreSelect PROVE MInv' /\ Quiet
<1>1. /\ pc = "storeSelect" /\ pc' = "storeBytes" /\ cursor' = Head_ + 1
      /\ UNCHANGED <<mem, mode, masked, head_page, tail_page, filled, msg, dest>>
  BY DEF StoreSelect, Goto, rings
<1>2. Quiet
  BY <1>1 DEF Quiet, First, Count, Taken
<1>3. TypeOK'
  BY <1>1 DEF MInv, TypeOK, Labels, Storing
<1>4. Ring'
  BY <1>1, <1>2 DEF MInv, Ring, Storing, Quiet
<1>5. Head_' = Head_
  BY <1>1 DEF Head_
<1>6. Alone' /\ Arriving'
  BY <1>1, <1>5 DEF MInv, Alone, Arriving, Transaction
<1> QED
  BY <1>2, <1>3, <1>4, <1>6, KeptQuiet DEF MInv

LEMMA StoreHeadStep == ASSUME MInv, StoreHead PROVE MInv' /\ Quiet
<1>1. /\ pc = "storeHead" /\ pc' = "idle"
      /\ head_page' = [head_page EXCEPT !["msgbuf"] = NextPage(@)]
      /\ UNCHANGED <<mem, mode, masked, tail_page, filled, dest>>
  BY DEF StoreHead, Goto, chip
<1>2. Quiet
  BY <1>1 DEF Quiet, First, Count, Taken
<1>3. /\ head_page["msgbuf"] = After(First, Count - 1) /\ Count - 1 \in 0 .. MAX_PAGES - 1
      /\ First \in Page /\ head_page["msgbuf"] \in Page /\ (Count - 1) + 1 = Count
  BY <1>1, Parts DEF MInv, Ring
<1>4. head_page'["msgbuf"] = NextPage(head_page["msgbuf"])
  BY <1>1 DEF MInv, TypeOK, Buffer
<1>5. NextPage(head_page["msgbuf"]) \in Page /\ NextPage(head_page["msgbuf"]) = After(First, Count)
  <2>1. 0 \in 0 .. MAX_PAGES - 1
    BY Positive
  <2>2. NextPage(head_page["msgbuf"]) \in Page
    BY <1>3, <2>1, AfterStep
  <2>3. After(First, (Count - 1) + 1) = NextPage(After(First, Count - 1))
    BY <1>3, AfterStep
  <2> QED
    BY <1>3, <2>2, <2>3
<1>6. TypeOK'
  BY <1>1, <1>5 DEF MInv, TypeOK, Labels, Storing
<1>7. Ring'
  BY <1>1, <1>2, <1>4, <1>5 DEF MInv, Ring, Storing, Quiet
<1>8. Alone' /\ Arriving'
  BY <1>1 DEF MInv, Alone, Arriving, Transaction
<1> QED
  BY <1>2, <1>6, <1>7, <1>8, KeptQuiet DEF MInv

LEMMA ReadMessageStep == ASSUME MInv, ReadMessage PROVE MInv' /\ Quiet
<1>1. /\ pc = "idle" /\ pc' = "readSelect" /\ filled["msgbuf"] # 0
      /\ masked' = TRUE /\ mode' = "sequential"
      /\ UNCHANGED <<mem, head_page, tail_page, filled, dest>>
  BY DEF ReadMessage, Goto, cpu_irq_save, sram_set_mode, rings
<1>2. Quiet
  BY <1>1 DEF Quiet, First, Count, Taken
<1>3. TypeOK'
  BY <1>1 DEF MInv, TypeOK, Labels, Storing, Transaction
<1>4. Count = filled["msgbuf"] /\ filled["msgbuf"] \in 0 .. MAX_PAGES /\ MAX_PAGES \in Nat
  BY <1>1, Parts DEF Count, MInv
<1>5. Ring'
  BY <1>1, <1>2, <1>4 DEF MInv, Ring, Storing, Quiet
<1>6. Alone' /\ Arriving'
  BY <1>1 DEF Alone, Arriving, Transaction
<1> QED
  BY <1>2, <1>3, <1>5, <1>6, KeptQuiet DEF MInv

LEMMA ReadSelectStep == ASSUME MInv, ReadSelect PROVE MInv' /\ Quiet
<1>1. /\ pc = "readSelect" /\ pc' = "readBytes" /\ cursor' = Tail_ + 1
      /\ UNCHANGED <<mem, mode, masked, head_page, tail_page, filled, msg, dest>>
  BY DEF ReadSelect, Goto, rings
<1>2. Quiet
  BY <1>1 DEF Quiet, First, Count, Taken
<1>3. TypeOK'
  BY <1>1 DEF MInv, TypeOK, Labels, Storing, Transaction
<1>4. Ring'
  BY <1>1, <1>2 DEF MInv, Ring, Storing, Quiet
<1>5. Tail_' = Tail_
  BY <1>1 DEF Tail_
<1>6. Alone' /\ Arriving'
  BY <1>1, <1>5 DEF MInv, Alone, Arriving, Transaction
<1> QED
  BY <1>2, <1>3, <1>4, <1>6, KeptQuiet DEF MInv

LEMMA ReadFilledStep == ASSUME MInv, ReadFilled PROVE MInv' /\ Quiet
<1>1. /\ pc = "readFilled" /\ pc' = "readTail"
      /\ filled' = [filled EXCEPT !["msgbuf"] = @ - 1]
      /\ UNCHANGED <<mem, mode, masked, head_page, tail_page, dest>>
  BY DEF ReadFilled, Goto, chip
<1>2. filled'["msgbuf"] = filled["msgbuf"] - 1
  BY <1>1 DEF MInv, TypeOK, Buffer
<1>3. Count = filled["msgbuf"] - 1 /\ Count \in 0 .. MAX_PAGES
  BY <1>1 DEF MInv, Ring, Count
<1>4. Quiet
  <2>1. First' = First
    BY <1>1 DEF First, Taken
  <2>2. Count' = filled["msgbuf"] - 1
    BY <1>1, <1>2, <1>3, Parts DEF Count, MInv
  <2> QED
    BY <1>1, <1>3, <2>1, <2>2 DEF Quiet
<1>5. TypeOK'
  BY <1>1, <1>3 DEF MInv, TypeOK, Labels, Storing
<1>6. Ring'
  BY <1>1, <1>4 DEF MInv, Ring, Storing, Quiet
<1>7. Alone' /\ Arriving'
  BY <1>1 DEF MInv, Alone, Arriving, Transaction
<1> QED
  BY <1>4, <1>5, <1>6, <1>7, KeptQuiet DEF MInv

LEMMA ReadTailStep == ASSUME MInv, ReadTail PROVE MInv' /\ Quiet
<1>1. /\ pc = "readTail" /\ pc' = "idle"
      /\ tail_page' = [tail_page EXCEPT !["msgbuf"] = NextPage(@)]
      /\ UNCHANGED <<mem, mode, masked, head_page, filled, dest>>
  BY DEF ReadTail, Goto, chip
<1>2. tail_page["msgbuf"] \in Page /\ 0 \in 0 .. MAX_PAGES - 1
  BY Parts, Positive DEF MInv
<1>3. tail_page'["msgbuf"] = NextPage(tail_page["msgbuf"])
  BY <1>1 DEF MInv, TypeOK, Buffer
<1>4. /\ NextPage(tail_page["msgbuf"]) \in Page
      /\ After(tail_page["msgbuf"], 1) = NextPage(tail_page["msgbuf"])
      /\ After(NextPage(tail_page["msgbuf"]), 0) = NextPage(tail_page["msgbuf"])
  BY <1>2, AfterStep
<1>5. Quiet
  <2>1. First = NextPage(tail_page["msgbuf"])
    BY <1>1, <1>4 DEF First, Taken
  <2>2. First' = After(tail_page'["msgbuf"], 0)
    BY <1>1 DEF First, Taken
  <2>3. Count' = Count
    BY <1>1 DEF Count
  <2> QED
    BY <1>1, <1>3, <1>4, <2>1, <2>2, <2>3 DEF Quiet
<1>6. TypeOK'
  BY <1>1, <1>4 DEF MInv, TypeOK, Labels, Storing
<1>7. Ring'
  BY <1>1, <1>5 DEF MInv, Ring, Storing, Quiet
<1>8. Alone' /\ Arriving'
  BY <1>1 DEF MInv, Alone, Arriving, Transaction
<1> QED
  BY <1>5, <1>6, <1>7, <1>8, KeptQuiet DEF MInv

\* The messages that wait are as they were, and so are the packets.
Settled == /\ UNCHANGED <<dest, First, Count>>
           /\ \A i \in 1 .. Count : MessageIn(mem', After(First, i - 1)) = MessageIn(mem, After(First, i - 1))
PacketsSettled == \A i \in 1 .. Len(sent) : Holds(mem', After(tail_page["packetbuf"], i - 1), sent[i])

LEMMA KeptSettled == ASSUME Kept, Settled PROVE Kept'
BY DEF Kept, Settled

LEMMA WriteLength ==
  ASSUME NEW cells \in [Address -> Nat], NEW p \in Page, NEW n \in Nat
  PROVE  /\ Written(cells, "sequential", PageAddress("msgbuf", p), <<n>>) \in [Address -> Nat]
         /\ Written(cells, "sequential", PageAddress("msgbuf", p), <<n>>)[PageAddress("msgbuf", p)] = n
         /\ \A c \in Buffer, q \in Page : c # "msgbuf" \/ q # p =>
               \A x \in Cells(c, q) :
                  Written(cells, "sequential", PageAddress("msgbuf", p), <<n>>)[x] = cells[x]
<1> DEFINE a == PageAddress("msgbuf", p)
           byte == <<n>>
           W == Written(cells, "sequential", a, byte)
<1>1. a \in Nat /\ PAGE_SIZE \in Nat /\ PAGE_SIZE >= 1 /\ "msgbuf" \in Buffer
  BY PageInChip, Positive DEF Buffer
<1>2. byte \in Seq(Nat) /\ Len(byte) = 1 /\ byte[1] = n
  OBVIOUS
<1>3. /\ byte \in Seq(Nat) /\ PageAddress("msgbuf", p) <= a
      /\ a + Len(byte) <= PageAddress("msgbuf", p) + PAGE_SIZE
  BY <1>1, <1>2
<1>4. /\ W \in [Address -> Nat]
      /\ \A i \in 1 .. Len(byte) : W[a + i - 1] = byte[i]
      /\ \A c \in Buffer, q \in Page : c # "msgbuf" \/ q # p => \A x \in Cells(c, q) : W[x] = cells[x]
  <2> HIDE DEF a, byte
  <2>1. "msgbuf" \in Buffer /\ a \in Nat
    BY <1>1
  <2>2. W \in [Address -> Nat]
    BY <1>3, <2>1, WriteToPage
  <2>3. Row(W, a, byte)
    BY <1>3, <2>1, WriteToPage
  <2>4. \A c \in Buffer, q \in Page : c # "msgbuf" \/ q # p => \A x \in Cells(c, q) : W[x] = cells[x]
    BY <1>3, <2>1, WriteToPage
  <2> QED
    BY <2>2, <2>3, <2>4 DEF Row
<1> HIDE DEF W, a
<1>5. W[a] = n
  <2>1. 1 \in 1 .. Len(byte) /\ a + 1 - 1 = a
    BY <1>1, <1>2
  <2> QED
    BY <1>2, <1>4, <2>1
<1> QED
  BY <1>4, <1>5 DEF W, a

LEMMA StoreLengthStep == ASSUME MInv, PacketRing, StoreLength PROVE MInv' /\ Settled /\ PacketsSettled
<1>1. /\ pc = "storeLength" /\ pc' = "storeSelect"
      /\ mem' = Written(mem, mode, Head_, <<Len(msg)>>)
      /\ UNCHANGED <<mode, masked, head_page, tail_page, filled, msg, dest>>
  BY DEF StoreLength, Goto, rings
<1>2. mode = "sequential" /\ msg \in Messages /\ mem \in [Address -> Nat]
  BY <1>1 DEF MInv, Alone, TypeOK, Transaction, Storing
<1>3. /\ "msgbuf" \in Buffer /\ head_page["msgbuf"] \in Page /\ Head_ = PageAddress("msgbuf", head_page["msgbuf"])
      /\ PAGE_SIZE \in Nat /\ PAGE_SIZE >= 1
  BY Parts DEF MInv, Head_
<1>4. Head_ \in Nat
  BY <1>3, PageInChip
<1>5. Len(msg) \in Nat
  BY <1>2, MessagesAssumption
<1>6. mem' = Written(mem, "sequential", Head_, <<Len(msg)>>)
  BY <1>1, <1>2
<1>8. /\ mem' \in [Address -> Nat]
      /\ mem'[Head_] = Len(msg)
      /\ \A c \in Buffer, q \in Page : c # "msgbuf" \/ q # head_page["msgbuf"] =>
            \A x \in Cells(c, q) : mem'[x] = mem[x]
  BY <1>2, <1>3, <1>5, <1>6, WriteLength
<1>10. \A i \in 1 .. Count : MessageIn(mem', After(First, i - 1)) = MessageIn(mem, After(First, i - 1))
  BY <1>1, <1>3, <1>8, MessagesStay DEF MInv, Storing
<1>11. PacketsSettled
  BY <1>3, <1>8, PacketsStay DEF MInv, PacketsSettled
<1>12. Settled
  BY <1>1, <1>10 DEF Settled, First, Count, Taken
<1>13. TypeOK'
  BY <1>1, <1>2, <1>8 DEF MInv, TypeOK, Labels, Storing
<1>14. Ring'
  BY <1>1, <1>12 DEF MInv, Ring, Storing, Settled
<1>15. Head_' = Head_
  BY <1>1 DEF Head_
<1>16. Alone' /\ Arriving'
  BY <1>1, <1>8, <1>15 DEF MInv, Alone, Arriving, Transaction
<1> QED
  BY <1>11, <1>12, <1>13, <1>14, <1>16, KeptSettled DEF MInv

LEMMA StoreBytesStep == ASSUME MInv, PacketRing, StoreBytes PROVE MInv' /\ Settled /\ PacketsSettled
<1>1. /\ pc = "storeBytes" /\ pc' = "storeFilled" /\ masked' = FALSE
      /\ mem' = IF cursor = -1 THEN mem ELSE Written(mem, mode, cursor, msg)
      /\ UNCHANGED <<mode, head_page, tail_page, filled, msg, dest>>
  BY DEF StoreBytes, Goto, rings, cpu_irq_restore
<1>2. /\ mode = "sequential" /\ msg \in Messages /\ mem \in [Address -> Nat]
      /\ cursor = Head_ + 1 /\ mem[Head_] = Len(msg)
  BY <1>1 DEF MInv, Alone, Arriving, TypeOK, Transaction, Storing
<1>3. /\ "msgbuf" \in Buffer /\ head_page["msgbuf"] \in Page /\ Head_ = PageAddress("msgbuf", head_page["msgbuf"])
      /\ PAGE_SIZE \in Nat /\ PAGE_SIZE >= 1
  BY Parts DEF MInv, Head_
<1>4. /\ Head_ \in Nat /\ Head_ \in Address
  <2>1. Head_ \in Nat /\ Head_ + PAGE_SIZE <= SRAM_SIZE /\ SRAM_SIZE \in Nat
    BY <1>3, PageInChip, Positive
  <2> QED
    BY <1>3, <2>1 DEF Address
<1>5. msg \in Seq(Nat) /\ Len(msg) \in Nat /\ Len(msg) <= PAGE_SIZE - 1
  BY <1>2, <1>3, MessagesAssumption
<1>6. /\ Head_ + 1 \in Nat /\ PageAddress("msgbuf", head_page["msgbuf"]) <= Head_ + 1
      /\ (Head_ + 1) + Len(msg) <= PageAddress("msgbuf", head_page["msgbuf"]) + PAGE_SIZE
  BY <1>3, <1>4, <1>5
<1>7. mem' = Written(mem, "sequential", Head_ + 1, msg)
  <2>1. Head_ + 1 # -1
    BY <1>4
  <2> QED
    BY <1>1, <1>2, <2>1
<1>8. /\ mem' \in [Address -> Nat]
      /\ \A i \in 1 .. Len(msg) : mem'[(Head_ + 1) + i - 1] = msg[i]
      /\ \A c \in Address : c \notin Head_ + 1 .. (Head_ + 1) + Len(msg) - 1 => mem'[c] = mem[c]
      /\ \A c \in Buffer, q \in Page : c # "msgbuf" \/ q # head_page["msgbuf"] =>
            \A x \in Cells(c, q) : mem'[x] = mem[x]
  <2>1. mem' \in [Address -> Nat]
    BY <1>2, <1>3, <1>5, <1>6, <1>7, WriteToPage
  <2>2. Row(mem', Head_ + 1, msg)
    BY <1>2, <1>3, <1>5, <1>6, <1>7, WriteToPage
  <2>3. \A c \in Address : c \notin Head_ + 1 .. (Head_ + 1) + Len(msg) - 1 => mem'[c] = mem[c]
    BY <1>2, <1>3, <1>5, <1>6, <1>7, WriteToPage
  <2>4. \A c \in Buffer, q \in Page : c # "msgbuf" \/ q # head_page["msgbuf"] =>
            \A x \in Cells(c, q) : mem'[x] = mem[x]
    BY <1>2, <1>3, <1>5, <1>6, <1>7, WriteToPage
  <2> QED
    BY <2>1, <2>2, <2>3, <2>4 DEF Row
<1>9. MessageIn(mem', head_page["msgbuf"]) = msg
  <2>1. mem'[Head_] = Len(msg)
    BY <1>2, <1>4, <1>8
  <2>2. \A i \in 1 .. Len(msg) : mem'[Head_ + i] = msg[i]
    <3>1. \A i \in 1 .. Len(msg) : (Head_ + 1) + i - 1 = Head_ + i
      BY <1>4, <1>5
    <3> QED
      BY <1>8, <3>1
  <2>3. MessageIn(mem', head_page["msgbuf"]) = [i \in 1 .. Len(msg) |-> msg[i]]
    BY <1>3, <2>1, <2>2 DEF MessageIn
  <2>4. msg = [i \in 1 .. Len(msg) |-> msg[i]]
    BY <1>5
  <2> QED
    BY <2>3, <2>4
<1>10. \A i \in 1 .. Count : MessageIn(mem', After(First, i - 1)) = MessageIn(mem, After(First, i - 1))
  BY <1>1, <1>3, <1>8, MessagesStay DEF MInv, Storing
<1>11. PacketsSettled
  BY <1>3, <1>8, PacketsStay DEF MInv, PacketsSettled
<1>12. Settled
  BY <1>1, <1>10 DEF Settled, First, Count, Taken
<1>13. TypeOK'
  BY <1>1, <1>2, <1>8 DEF MInv, TypeOK, Labels, Storing
<1>14. Ring'
  BY <1>1, <1>12 DEF MInv, Ring, Storing, Settled
<1>15. Alone' /\ Arriving'
  BY <1>1, <1>9 DEF MInv, Alone, Arriving, Transaction
<1> QED
  BY <1>11, <1>12, <1>13, <1>14, <1>15, KeptSettled DEF MInv

\* From here on the message is one of those that wait.
LEMMA StoreFilledStep ==
  ASSUME MInv, StoreFilled
  PROVE  /\ MInv' /\ UNCHANGED <<mem, dest, First>>
         /\ Count < MAX_PAGES /\ Count' = Count + 1
         /\ msg \in Messages /\ MessageIn(mem, After(First, Count)) = msg
<1>1. /\ pc = "storeFilled" /\ pc' = "storeHead"
      /\ filled' = [filled EXCEPT !["msgbuf"] = @ + 1]
      /\ UNCHANGED <<mem, mode, masked, head_page, tail_page, msg, dest>>
  BY DEF StoreFilled, Goto, chip
<1>2. filled'["msgbuf"] = filled["msgbuf"] + 1
  BY <1>1 DEF MInv, TypeOK, Buffer
<1>3. filled["msgbuf"] \in 0 .. MAX_PAGES /\ MAX_PAGES \in Nat
  BY Parts DEF MInv
<1>4. Count = filled["msgbuf"] /\ Count' = Count + 1 /\ Count < MAX_PAGES
  BY <1>1, <1>2, <1>3 DEF MInv, Ring, Count, Storing
<1>5. First' = First
  BY <1>1 DEF First, Taken
<1>6. msg \in Messages /\ MessageIn(mem, head_page["msgbuf"]) = msg /\ head_page["msgbuf"] = After(First, Count)
  BY <1>1 DEF MInv, Arriving, Ring, TypeOK, Storing
<1>7. TypeOK'
  <2>1. filled["msgbuf"] + 1 \in 0 .. MAX_PAGES
    BY <1>3, <1>4
  <2> QED
    BY <1>1, <2>1 DEF MInv, TypeOK, Labels, Storing
<1>8. Ring'
  BY <1>1, <1>3, <1>4, <1>5, <1>6 DEF MInv, Ring, Storing
<1>9. Kept'
  <2>1. \A i \in 1 .. Count + 1 : i \in 1 .. Count \/ i - 1 = Count
    BY <1>3, <1>4
  <2>2. \A i \in 1 .. Count + 1 : MessageIn(mem, After(First, i - 1)) \in Messages
    BY <1>6, <2>1 DEF MInv, Kept
  <2> QED
    BY <1>1, <1>4, <1>5, <2>2 DEF Kept
<1>10. Alone' /\ Arriving'
  BY <1>1 DEF MInv, Alone, Arriving, Transaction
<1> QED
  BY <1>1, <1>4, <1>5, <1>6, <1>7, <1>8, <1>9, <1>10 DEF MInv

\* From here on the message is no longer one of them.
LEMMA ReadBytesStep ==
  ASSUME MInv, ReadBytes
  PROVE  /\ MInv' /\ UNCHANGED mem
         /\ First' = After(First, 1) /\ Count >= 1 /\ Count' = Count - 1
         /\ dest' = MessageIn(mem, First)
<1>1. /\ pc = "readBytes" /\ pc' = "readFilled" /\ masked' = FALSE
      /\ dest' = IF cursor = -1 THEN <<>> ELSE ReadBack(mem, mode, cursor, mem[Tail_])
      /\ UNCHANGED <<mem, mode, head_page, tail_page, filled, msg>>
  BY DEF ReadBytes, Goto, rings, cpu_irq_restore
<1>2. mode = "sequential" /\ cursor = Tail_ + 1 /\ mem \in [Address -> Nat]
  BY <1>1 DEF MInv, Alone, TypeOK, Transaction
<1>3. /\ "msgbuf" \in Buffer /\ tail_page["msgbuf"] \in Page /\ 0 \in 0 .. MAX_PAGES - 1
      /\ filled["msgbuf"] \in 0 .. MAX_PAGES /\ MAX_PAGES \in Nat
  BY Parts, Positive DEF MInv
<1>4. After(tail_page["msgbuf"], 0) = tail_page["msgbuf"]
  BY <1>3, AfterStep
<1>5. First = tail_page["msgbuf"] /\ First' = After(First, 1)
  BY <1>1, <1>4 DEF First, Taken
<1>6. Count = filled["msgbuf"] /\ Count' = Count - 1 /\ Count >= 1 /\ Count \in 0 .. MAX_PAGES
  BY <1>1, <1>3 DEF MInv, Ring, Count
<1>7. MessageIn(mem, First) \in Messages
  <2>1. 1 \in 1 .. Count /\ 1 - 1 = 0
    BY <1>6
  <2> QED
    BY <1>4, <1>5, <2>1 DEF MInv, Kept
<1>8. dest' = MessageIn(mem, First)
  <2> DEFINE a == PageAddress("msgbuf", First)
  <2>1. a \in Nat /\ a + PAGE_SIZE <= SRAM_SIZE /\ PAGE_SIZE \in Nat /\ SRAM_SIZE \in Nat
    BY <1>3, <1>5, PageInChip, Positive
  <2>2. Tail_ = a
    BY <1>5 DEF Tail_
  <2>3. mem[a] \in 1 .. PAGE_SIZE - 1
    BY <1>2, <1>3, <1>5, <1>7, MessageFits
  <2> HIDE DEF a
  <2>4. dest' = ReadBack(mem, "sequential", a + 1, mem[a])
    <3>1. a + 1 # -1
      BY <2>1
    <3> QED
      BY <1>1, <1>2, <2>2, <3>1
  <2>5. ReadBack(mem, "sequential", a + 1, mem[a]) = [i \in 1 .. mem[a] |-> mem[(a + 1) + i - 1]]
    <3>1. a + 1 \in Nat /\ mem[a] \in Nat /\ (a + 1) + mem[a] <= SRAM_SIZE
      BY <2>1, <2>3
    <3> QED
      BY <1>2, <3>1, ReadInRow
  <2>6. \A i \in 1 .. mem[a] : (a + 1) + i - 1 = a + i
    BY <2>1, <2>3
  <2> QED
    BY <2>4, <2>5, <2>6 DEF MessageIn, a
<1>9. TypeOK'
  BY <1>1 DEF MInv, TypeOK, Labels, Storing
<1>10. \A k \in 0 .. Count - 1 : After(After(First, 1), k) = After(First, k + 1)
  <2>1. First \in Page /\ Count - 1 <= MAX_PAGES - 1
    BY <1>3, <1>5, <1>6
  <2>2. After(First, 1) = NextPage(First)
    BY <1>3, <2>1, AfterStep
  <2>3. ASSUME NEW k \in 0 .. Count - 1 PROVE After(NextPage(First), k) = After(First, k + 1)
    <3>1. k \in 0 .. MAX_PAGES - 1
      BY <1>3, <1>6, <2>3
    <3> QED
      BY <2>1, <3>1, AfterStep
  <2> QED
    BY <2>2, <2>3
<1>11. Ring'
  <2>1. head_page["msgbuf"] = After(First, Count)
    BY <1>1 DEF MInv, Ring
  <2>2. Count - 1 \in 0 .. Count - 1 /\ (Count - 1) + 1 = Count
    BY <1>6
  <2>3. head_page["msgbuf"] = After(After(First, 1), Count - 1)
    BY <1>10, <2>1, <2>2
  <2>4. Count - 1 \in 0 .. MAX_PAGES
    BY <1>3, <1>6
  <2> QED
    BY <1>1, <1>5, <1>6, <2>3, <2>4 DEF Ring, Storing
<1>12. Kept'
  <2>1. ASSUME NEW i \in 1 .. Count - 1 PROVE MessageIn(mem, After(After(First, 1), i - 1)) \in Messages
    <3>1. i - 1 \in 0 .. Count - 1 /\ (i - 1) + 1 = (i + 1) - 1 /\ i + 1 \in 1 .. Count
      BY <1>6, <2>1
    <3> QED
      BY <1>10, <3>1 DEF MInv, Kept
  <2> QED
    BY <1>1, <1>5, <1>6, <2>1 DEF Kept
<1>13. Alone' /\ Arriving'
  BY <1>1 DEF MInv, Alone, Arriving, Transaction
<1> QED
  BY <1>1, <1>5, <1>6, <1>8, <1>9, <1>11, <1>12, <1>13 DEF MInv

-----------------------------------------------------------------------------
(* The interrupt, which comes in when no transaction is under way. *)

LEMMA PacketStored == ASSUME IInv, packetbuf_store_packet PROVE IInv' /\ Settled
<1>1. PICK x \in Packets : /\ mem' = Written(mem, mode', PageAddress("packetbuf", head_page["packetbuf"]), x)
                           /\ sent' = Append(sent, x)
  BY DEF packetbuf_store_packet
<1>2. /\ ~masked /\ filled["packetbuf"] # MAX_PAGES /\ mode' = "sequential"
      /\ filled' = [filled EXCEPT !["packetbuf"] = @ + 1]
      /\ head_page' = [head_page EXCEPT !["packetbuf"] = NextPage(@)]
      /\ UNCHANGED <<masked, tail_page, pc, msg, dest, got>>
  BY DEF packetbuf_store_packet, sram_set_mode
<1>3. TypeOK /\ Ring /\ Kept /\ Alone /\ Arriving /\ PacketRing /\ PacketsReadBack /\ mem \in [Address -> Nat]
  BY DEF IInv, MInv, TypeOK
<1>4. /\ MAX_PAGES \in Nat /\ MAX_PAGES >= 1 /\ PAGE_SIZE \in Nat
      /\ "msgbuf" \in Buffer /\ "packetbuf" \in Buffer /\ "msgbuf" # "packetbuf"
      /\ head_page["msgbuf"] \in Page /\ head_page["packetbuf"] \in Page /\ tail_page["packetbuf"] \in Page
      /\ filled["packetbuf"] \in 0 .. MAX_PAGES
  BY <1>3, Parts
<1>5. sent \in Seq(Packets) /\ Len(sent) = filled["packetbuf"] /\ Len(sent) \in 0 .. MAX_PAGES - 1
  BY <1>2, <1>3, <1>4 DEF PacketRing
<1> DEFINE a == PageAddress("packetbuf", head_page["packetbuf"])
<1>6. x \in Seq(Nat) /\ Len(x) \in Nat /\ Len(x) <= PAGE_SIZE
  BY PacketsAssumption, LenProperties
<1>7. a \in Nat /\ PageAddress("packetbuf", head_page["packetbuf"]) <= a
      /\ a + Len(x) <= PageAddress("packetbuf", head_page["packetbuf"]) + PAGE_SIZE
  BY <1>4, <1>6, PageInChip
<1> HIDE DEF a
<1>8. mem' = Written(mem, "sequential", a, x)
  BY <1>1, <1>2 DEF a
<1>9. /\ mem' \in [Address -> Nat]
      /\ \A i \in 1 .. Len(x) : mem'[a + i - 1] = x[i]
      /\ \A c \in Buffer, q \in Page : c # "packetbuf" \/ q # head_page["packetbuf"] =>
            \A y \in Cells(c, q) : mem'[y] = mem[y]
  <2>1. mem \in [Address -> Nat] /\ "packetbuf" \in Buffer /\ head_page["packetbuf"] \in Page
    BY <1>3, <1>4
  <2>2. mem' \in [Address -> Nat]
    BY <1>6, <1>7, <1>8, <2>1, WriteToPage
  <2>3. Row(mem', a, x)
    BY <1>6, <1>7, <1>8, <2>1, WriteToPage
  <2>4. \A c \in Buffer, q \in Page : c # "packetbuf" \/ q # head_page["packetbuf"] =>
            \A y \in Cells(c, q) : mem'[y] = mem[y]
    BY <1>6, <1>7, <1>8, <2>1, WriteToPage
  <2> QED
    BY <2>2, <2>3, <2>4 DEF Row
<1>10. /\ filled'["msgbuf"] = filled["msgbuf"] /\ head_page'["msgbuf"] = head_page["msgbuf"]
       /\ filled'["packetbuf"] = filled["packetbuf"] + 1
       /\ head_page'["packetbuf"] = NextPage(head_page["packetbuf"])
  BY <1>2, <1>3, <1>4 DEF TypeOK
<1>11. Settled
  <2>1. First' = First
    BY <1>2 DEF First, Taken
  <2>2. Count' = Count
    BY <1>2, <1>10 DEF Count
  <2>3. \A i \in 1 .. Count : MessageIn(mem', After(First, i - 1)) = MessageIn(mem, After(First, i - 1))
    BY <1>3, <1>4, <1>9, MessagesStay
  <2> QED
    BY <1>2, <2>1, <2>2, <2>3 DEF Settled
<1>12. /\ head_page["packetbuf"] = After(tail_page["packetbuf"], Len(sent))
       /\ NextPage(head_page["packetbuf"]) = After(tail_page["packetbuf"], Len(sent) + 1)
       /\ NextPage(head_page["packetbuf"]) \in Page
  <2>1. head_page["packetbuf"] = After(tail_page["packetbuf"], Len(sent))
    BY <1>3 DEF PacketRing
  <2>2. NextPage(After(tail_page["packetbuf"], Len(sent))) = After(tail_page["packetbuf"], Len(sent) + 1)
    BY <1>4, <1>5, AfterStep
  <2>3. NextPage(head_page["packetbuf"]) \in Page
    <3>1. 0 \in 0 .. MAX_PAGES - 1
      BY <1>4
    <3> QED
      BY <1>4, <3>1, AfterStep
  <2> QED
    BY <2>1, <2>2, <2>3
<1>13. TypeOK'
  <2>1. filled["packetbuf"] + 1 \in 0 .. MAX_PAGES
    BY <1>4, <1>5
  <2>2. filled' \in [Buffer -> 0 .. MAX_PAGES] /\ head_page' \in [Buffer -> Page]
    BY <1>2, <1>3, <1>12, <2>1 DEF TypeOK
  <2> QED
    BY <1>2, <1>3, <1>9, <2>2 DEF TypeOK
<1>14. Ring'
  BY <1>2, <1>3, <1>10, <1>11 DEF Ring, Settled
<1>15. pc \notin Transaction
  BY <1>2, <1>3 DEF Alone
<1>16. Alone'
  BY <1>2, <1>15 DEF Alone, Transaction
<1>17. Arriving'
  <2>1. pc \notin {"storeSelect", "storeBytes"}
    BY <1>15 DEF Transaction
  <2>2. ASSUME pc = "storeFilled" PROVE MessageIn(mem', head_page["msgbuf"]) = msg
    <3>1. MessageIn(mem, head_page["msgbuf"]) = msg /\ msg \in Messages
      BY <1>3, <2>2 DEF Arriving, TypeOK, Storing
    <3>2. \A y \in Cells("msgbuf", head_page["msgbuf"]) : mem'[y] = mem[y]
      BY <1>4, <1>9
    <3> QED
      BY <1>3, <1>4, <3>1, <3>2, MessageStays
  <2> QED
    BY <1>2, <1>10, <2>1, <2>2 DEF Arriving
<1>18. PacketRing'
  <2>1. /\ sent' \in Seq(Packets) /\ Len(sent') = Len(sent) + 1
        /\ \A i \in 1 .. Len(sent) : sent'[i] = sent[i]
        /\ sent'[Len(sent) + 1] = x
    BY <1>1, <1>5, AppendProperties
  <2>2. \A i \in 1 .. Len(sent) : Holds(mem', After(tail_page["packetbuf"], i - 1), sent[i])
    <3>1. Len(sent) < MAX_PAGES
      BY <1>4, <1>5
    <3> QED
      BY <1>3, <1>4, <1>9, <3>1, PacketsStay
  <2>3. Holds(mem', After(tail_page["packetbuf"], Len(sent)), x)
    BY <1>9, <1>12 DEF Holds, a
  <2>4. ASSUME NEW i \in 1 .. Len(sent) + 1
        PROVE  Holds(mem', After(tail_page["packetbuf"], i - 1), sent'[i])
    <3>1. i \in 1 .. Len(sent) \/ (i = Len(sent) + 1 /\ i - 1 = Len(sent))
      BY <1>5, <2>4
    <3> QED
      BY <2>1, <2>2, <2>3, <3>1
  <2> QED
    BY <1>2, <1>5, <1>10, <1>12, <2>1, <2>4 DEF PacketRing
<1>19. PacketsReadBack'
  BY <1>2, <1>3 DEF PacketsReadBack
<1> QED
  BY <1>3, <1>11, <1>13, <1>14, <1>16, <1>17, <1>18, <1>19, KeptSettled DEF IInv, MInv

LEMMA PacketTaken == ASSUME IInv, packetbuf_read_packet PROVE IInv' /\ Settled
<1>1. /\ ~masked /\ filled["packetbuf"] > 0 /\ mode' = "sequential"
      /\ got' = [packet |-> Head(sent),
                 page   |-> ReadBack(mem, mode', PageAddress("packetbuf", tail_page["packetbuf"]), PAGE_SIZE)]
      /\ sent' = Tail(sent)
      /\ filled' = [filled EXCEPT !["packetbuf"] = @ - 1]
      /\ tail_page' = [tail_page EXCEPT !["packetbuf"] = NextPage(@)]
      /\ UNCHANGED <<mem, masked, head_page, pc, msg, dest>>
  BY DEF packetbuf_read_packet, sram_set_mode, packetbuf_has_next
<1>2. TypeOK /\ Ring /\ Kept /\ Alone /\ Arriving /\ PacketRing /\ mem \in [Address -> Nat]
  BY DEF IInv, MInv, TypeOK
<1>3. /\ MAX_PAGES \in Nat /\ MAX_PAGES >= 1 /\ PAGE_SIZE \in Nat
      /\ "msgbuf" \in Buffer /\ "packetbuf" \in Buffer /\ "msgbuf" # "packetbuf"
      /\ tail_page["packetbuf"] \in Page /\ filled["packetbuf"] \in 0 .. MAX_PAGES
      /\ 0 \in 0 .. MAX_PAGES - 1
  BY <1>2, Parts
<1>4. sent \in Seq(Packets) /\ Len(sent) = filled["packetbuf"] /\ Len(sent) \in 1 .. MAX_PAGES
  BY <1>1, <1>2, <1>3 DEF PacketRing
<1>5. /\ filled'["msgbuf"] = filled["msgbuf"] /\ tail_page'["msgbuf"] = tail_page["msgbuf"]
      /\ filled'["packetbuf"] = filled["packetbuf"] - 1
      /\ tail_page'["packetbuf"] = NextPage(tail_page["packetbuf"])
  BY <1>1, <1>2, <1>3 DEF TypeOK
<1>6. Settled
  <2>1. First' = First
    BY <1>1, <1>5 DEF First, Taken
  <2>2. Count' = Count
    BY <1>1, <1>5 DEF Count
  <2> QED
    BY <1>1, <2>1, <2>2 DEF Settled
<1>7. NextPage(tail_page["packetbuf"]) \in Page
  BY <1>3, AfterStep
<1>8. TypeOK'
  <2>1. filled["packetbuf"] - 1 \in 0 .. MAX_PAGES
    BY <1>3, <1>4
  <2>2. filled' \in [Buffer -> 0 .. MAX_PAGES] /\ tail_page' \in [Buffer -> Page]
    BY <1>1, <1>2, <1>7, <2>1 DEF TypeOK
  <2> QED
    BY <1>1, <1>2, <2>2 DEF TypeOK
<1>9. Ring'
  BY <1>1, <1>2, <1>6 DEF Ring, Settled
<1>10. Alone' /\ Arriving'
  <2>1. pc \notin Transaction
    BY <1>1, <1>2 DEF Alone
  <2> QED
    BY <1>1, <1>2, <2>1 DEF Alone, Arriving, Transaction
<1>11. PacketRing'
  <2>1. sent # <<>>
    BY <1>4, EmptySeq
  <2>2. /\ sent' \in Seq(Packets) /\ Len(sent') = Len(sent) - 1
        /\ \A i \in 1 .. Len(sent') : sent'[i] = sent[i + 1]
    BY <1>1, <1>4, <2>1, HeadTailProperties
  <2>3. head_page["packetbuf"] = After(tail_page["packetbuf"], Len(sent))
    BY <1>2 DEF PacketRing
  <2>4. ASSUME NEW k \in 0 .. Len(sent) - 1
        PROVE  After(NextPage(tail_page["packetbuf"]), k) = After(tail_page["packetbuf"], k + 1)
    <3>1. k \in 0 .. MAX_PAGES - 1
      BY <1>3, <1>4, <2>4
    <3> QED
      BY <1>3, <3>1, AfterStep
  <2>5. head_page["packetbuf"] = After(NextPage(tail_page["packetbuf"]), Len(sent) - 1)
    <3>1. Len(sent) - 1 \in 0 .. Len(sent) - 1 /\ (Len(sent) - 1) + 1 = Len(sent)
      BY <1>4
    <3> QED
      BY <2>3, <2>4, <3>1
  <2>6. ASSUME NEW i \in 1 .. Len(sent) - 1
        PROVE  Holds(mem, After(NextPage(tail_page["packetbuf"]), i - 1), sent[i + 1])
    <3>1. i - 1 \in 0 .. Len(sent) - 1 /\ (i - 1) + 1 = (i + 1) - 1 /\ i + 1 \in 1 .. Len(sent)
      BY <1>4, <2>6
    <3>2. Holds(mem, After(tail_page["packetbuf"], (i + 1) - 1), sent[i + 1])
      BY <1>2, <3>1 DEF PacketRing
    <3> QED
      BY <2>4, <3>1, <3>2
  <2> QED
    BY <1>1, <1>4, <1>5, <2>2, <2>5, <2>6 DEF PacketRing
<1>12. PacketsReadBack'
  <2> DEFINE a == PageAddress("packetbuf", tail_page["packetbuf"])
             x == Head(sent)
             page == ReadBack(mem, "sequential", a, PAGE_SIZE)
  <2>1. x = sent[1] /\ x \in Packets
    BY <1>4, EmptySeq, HeadTailProperties, ElementOfSeq
  <2>2. x \in Seq(Nat) /\ Len(x) \in Nat /\ Len(x) <= PAGE_SIZE
    BY <2>1, PacketsAssumption, LenProperties
  <2>3. a \in Nat /\ a + PAGE_SIZE <= SRAM_SIZE
    BY <1>3, PageInChip
  <2>4. page = [i \in 1 .. PAGE_SIZE |-> mem[a + i - 1]]
    BY <1>2, <1>3, <2>3, ReadInRow
  <2>5. \A j \in 1 .. Len(x) : mem[a + j - 1] = x[j]
    <3>1. After(tail_page["packetbuf"], 0) = tail_page["packetbuf"] /\ 1 - 1 = 0 /\ 1 \in 1 .. Len(sent)
      BY <1>3, <1>4, AfterStep
    <3>2. Holds(mem, tail_page["packetbuf"], sent[1])
      BY <1>2, <3>1 DEF PacketRing
    <3> QED
      BY <2>1, <3>2 DEF Holds
  <2>6. got'.packet = x /\ got'.page = page
    BY <1>1
  <2> HIDE DEF a, x, page
  <2>7. \A j \in 1 .. Len(x) : j \in 1 .. PAGE_SIZE
    BY <1>3, <2>2
  <2>8. \A j \in 1 .. Len(x) : page[j] = x[j]
    BY <2>4, <2>5, <2>7
  <2>9. SubSeq(page, 1, Len(x)) = [j \in 1 .. Len(x) |-> page[j]]
    <3>1. \A j \in 1 .. Len(x) : 1 + j - 1 = j
      BY <2>2
    <3> QED
      BY <2>2, <3>1
  <2>10. x = [j \in 1 .. Len(x) |-> x[j]]
    BY <2>2
  <2> QED
    BY <2>6, <2>8, <2>9, <2>10 DEF PacketsReadBack
<1> QED
  BY <1>2, <1>6, <1>8, <1>9, <1>10, <1>11, <1>12, KeptSettled DEF IInv, MInv

-----------------------------------------------------------------------------
(* The invariant. *)

LEMMA InitIInv == Init => IInv
<1> SUFFICES ASSUME Init PROVE IInv
  OBVIOUS
<1>1. /\ mem = [a \in Address |-> 0] /\ mode = "byte" /\ masked = FALSE
      /\ head_page = [b \in Buffer |-> 0] /\ tail_page = [b \in Buffer |-> 0]
      /\ filled = [b \in Buffer |-> 0]
      /\ pc = "idle" /\ sent = <<>> /\ got = [packet |-> <<>>, page |-> <<>>]
  BY DEF Init, sram_init, init
<1>2. /\ MAX_PAGES \in Nat /\ 0 \in 0 .. MAX_PAGES - 1 /\ 0 \in 0 .. MAX_PAGES /\ 0 \in Page
  BY Positive DEF Page
<1>3. TypeOK
  BY <1>1, <1>2 DEF TypeOK, Labels, Storing
<1>4. /\ "msgbuf" \in Buffer /\ "packetbuf" \in Buffer
      /\ After(0, 0) = 0
  BY <1>2, AfterStep DEF Buffer
<1>5. First = 0 /\ Count = 0
  BY <1>1, <1>4 DEF First, Count, Taken
<1>6. Ring
  BY <1>1, <1>2, <1>4, <1>5 DEF Ring, Storing
<1>7. Kept
  BY <1>5 DEF Kept
<1>8. Alone /\ Arriving
  BY <1>1 DEF Alone, Arriving, Transaction
<1>9. sent \in Seq(Packets) /\ Len(sent) = 0
  BY <1>1, EmptySeq
<1>10. PacketRing
  BY <1>1, <1>4, <1>9 DEF PacketRing
<1>11. PacketsReadBack
  <2>1. got.packet = <<>> /\ Len(got.packet) = 0
    BY <1>1
  <2>2. SubSeq(got.page, 1, 0) = <<>>
    BY SubSeqEmpty
  <2> QED
    BY <2>1, <2>2 DEF PacketsReadBack
<1> QED
  BY <1>3, <1>6, <1>7, <1>8, <1>10, <1>11 DEF IInv, MInv

\* The main thread leaves the packets alone.
LEMMA PacketsUntouched ==
  ASSUME IInv, main, UNCHANGED mem \/ PacketsSettled PROVE PacketRing' /\ PacketsReadBack'
<1>1. UNCHANGED <<sent, got>>
  BY DEF main, Store, StoreLength, StoreSelect, StoreBytes, StoreFilled, StoreHead,
         ReadMessage, ReadSelect, ReadBytes, ReadFilled, ReadTail, packet
<1>2. /\ head_page'["packetbuf"] = head_page["packetbuf"]
      /\ tail_page'["packetbuf"] = tail_page["packetbuf"]
      /\ filled'["packetbuf"] = filled["packetbuf"]
  <2>1. /\ \/ head_page' = head_page
           \/ head_page' = [head_page EXCEPT !["msgbuf"] = NextPage(@)]
        /\ \/ tail_page' = tail_page
           \/ tail_page' = [tail_page EXCEPT !["msgbuf"] = NextPage(@)]
        /\ \/ filled' = filled
           \/ filled' = [filled EXCEPT !["msgbuf"] = @ + 1]
           \/ filled' = [filled EXCEPT !["msgbuf"] = @ - 1]
    BY DEF main, Store, StoreLength, StoreSelect, StoreBytes, StoreFilled, StoreHead,
           ReadMessage, ReadSelect, ReadBytes, ReadFilled, ReadTail, rings
  <2>2. /\ head_page \in [Buffer -> Page] /\ tail_page \in [Buffer -> Page]
        /\ filled \in [Buffer -> 0 .. MAX_PAGES] /\ "packetbuf" \in Buffer
    BY DEF IInv, MInv, TypeOK, Buffer
  <2> QED
    BY <2>1, <2>2
<1>3. \A i \in 1 .. Len(sent) : Holds(mem', After(tail_page["packetbuf"], i - 1), sent[i])
  BY DEF IInv, PacketRing, PacketsSettled
<1> QED
  BY <1>1, <1>2, <1>3 DEF IInv, PacketRing, PacketsReadBack

QuietStep == \/ Store \/ StoreSelect \/ StoreHead
             \/ ReadMessage \/ ReadSelect \/ ReadFilled \/ ReadTail

LEMMA QuietSteps == ASSUME MInv, QuietStep PROVE MInv' /\ Quiet
BY StoreStep, StoreSelectStep, StoreHeadStep, ReadMessageStep, ReadSelectStep, ReadFilledStep, ReadTailStep
   DEF QuietStep

LEMMA MainStep == ASSUME IInv, main PROVE IInv'
<1>1. MInv /\ PacketRing
  BY DEF IInv
<1>2. CASE QuietStep
  BY <1>1, <1>2, QuietSteps, PacketsUntouched DEF IInv, Quiet
<1>3. CASE StoreLength
  BY <1>1, <1>3, StoreLengthStep, PacketsUntouched DEF IInv
<1>4. CASE StoreBytes
  BY <1>1, <1>4, StoreBytesStep, PacketsUntouched DEF IInv
<1>5. CASE StoreFilled
  BY <1>1, <1>5, StoreFilledStep, PacketsUntouched DEF IInv
<1>6. CASE ReadBytes
  BY <1>1, <1>6, ReadBytesStep, PacketsUntouched DEF IInv
<1> QED
  BY <1>2, <1>3, <1>4, <1>5, <1>6 DEF main, QuietStep

LEMMA IInvIsInductive == IInv /\ [Next]_vars => IInv'
<1> SUFFICES ASSUME IInv, [Next]_vars PROVE IInv'
  OBVIOUS
<1>1. CASE main
  BY <1>1, MainStep
<1>2. CASE packetbuf_store_packet
  BY <1>2, PacketStored
<1>3. CASE packetbuf_read_packet
  BY <1>3, PacketTaken
<1>4. CASE UNCHANGED vars
  <2>1. /\ UNCHANGED <<mem, mode, cursor, masked, head_page, tail_page, filled, pc, msg, dest, sent, got>>
    BY <1>4 DEF vars, chip, rings, packet
  <2>2. First' = First /\ Count' = Count /\ Head_' = Head_ /\ Tail_' = Tail_
    BY <2>1 DEF First, Count, Head_, Tail_, Taken
  <2>3. TypeOK' /\ Ring' /\ Kept'
    BY <2>1, <2>2 DEF IInv, MInv, TypeOK, Ring, Kept
  <2>4. Alone' /\ Arriving'
    BY <2>1, <2>2 DEF IInv, MInv, Alone, Arriving
  <2>5. PacketRing' /\ PacketsReadBack'
    BY <2>1 DEF IInv, PacketRing, PacketsReadBack
  <2> QED
    BY <2>3, <2>4, <2>5 DEF IInv, MInv
<1> QED
  BY <1>1, <1>2, <1>3, <1>4 DEF Next

LEMMA IInvAlways == Spec => []IInv
BY InitIInv, IInvIsInductive, PTL DEF Spec

-----------------------------------------------------------------------------
(* The queue of messages. *)

LEMMA LinedSeq ==
  ASSUME NEW cells, NEW f, NEW n \in Nat, \A i \in 1 .. n : MessageIn(cells, After(f, i - 1)) \in Messages
  PROVE  /\ Lined(cells, f, n) \in Seq(Messages) /\ Len(Lined(cells, f, n)) = n
         /\ \A i \in 1 .. n : Lined(cells, f, n)[i] = MessageIn(cells, After(f, i - 1))
<1>1. Lined(cells, f, n) \in [1 .. n -> Messages]
  BY DEF Lined
<1>2. Lined(cells, f, n) \in Seq(Messages) /\ Len(Lined(cells, f, n)) = n
  BY <1>1
<1>3. \A i \in 1 .. n : Lined(cells, f, n)[i] = MessageIn(cells, After(f, i - 1))
  BY DEF Lined
<1> QED
  BY <1>2, <1>3

LEMMA WaitingIsLined == TypeOK /\ Ring => Waiting = Lined(mem, First, Count)
<1> SUFFICES ASSUME TypeOK, Ring PROVE Waiting = Lined(mem, First, Count)
  OBVIOUS
<1> DEFINE t == tail_page["msgbuf"]
           k == IF Taken THEN 1 ELSE 0
<1>1. /\ t \in Page /\ Count \in 0 .. MAX_PAGES /\ MAX_PAGES \in Nat /\ MAX_PAGES >= 1
      /\ First = After(t, k) /\ k \in {0, 1}
  BY Parts DEF Ring, First
<1>2. Waiting = [i \in 1 .. Count |-> MessageIn(mem, (t + k + i - 1) % MAX_PAGES)]
  BY DEF Waiting, MessageAt, MessageIn, Count
<1> HIDE DEF t, k
<1>3. ASSUME NEW i \in 1 .. Count PROVE (t + k + i - 1) % MAX_PAGES = After(First, i - 1)
  <2> DEFINE z == t + k + i - 1
  <2>1. z \in Nat /\ z < 2 * MAX_PAGES /\ MAX_PAGES > 0
    BY <1>1, <1>3 DEF Page
  <2>2. z % MAX_PAGES = IF z < MAX_PAGES THEN z ELSE z - MAX_PAGES
    <3> HIDE DEF z
    <3> QED
      BY <1>1, <2>1, Modulo
  <2>3. (IF z < MAX_PAGES THEN z ELSE z - MAX_PAGES) = After(First, i - 1)
    BY <1>1, <1>3 DEF Page, After
  <2> QED
    BY <2>2, <2>3
<1> QED
  BY <1>2, <1>3 DEF Lined

\* A message put in is the last of those that wait, one taken out was the first.
LEMMA LinedPut ==
  ASSUME NEW cells, NEW f, NEW n \in Nat, NEW m \in Messages, MessageIn(cells, After(f, n)) = m,
         \A i \in 1 .. n : MessageIn(cells, After(f, i - 1)) \in Messages
  PROVE  Lined(cells, f, n + 1) = Append(Lined(cells, f, n), m)
<1>1. \A i \in 1 .. n + 1 : i \in 1 .. n \/ (i = n + 1 /\ i - 1 = n)
  OBVIOUS
<1>2. \A i \in 1 .. n + 1 : MessageIn(cells, After(f, i - 1)) \in Messages
  BY <1>1
<1> DEFINE q == Lined(cells, f, n)
           r == Lined(cells, f, n + 1)
<1>3. /\ q \in Seq(Messages) /\ Len(q) = n
      /\ \A i \in 1 .. n : q[i] = MessageIn(cells, After(f, i - 1))
  BY LinedSeq
<1>4. /\ r \in Seq(Messages) /\ Len(r) = n + 1
      /\ \A i \in 1 .. n + 1 : r[i] = MessageIn(cells, After(f, i - 1))
  BY <1>2, LinedSeq
<1> HIDE DEF q, r
<1>5. /\ Append(q, m) \in Seq(Messages) /\ Len(Append(q, m)) = n + 1
      /\ \A i \in 1 .. n : Append(q, m)[i] = q[i]
      /\ Append(q, m)[n + 1] = m
  BY <1>3, AppendProperties
<1>6. \A i \in 1 .. n + 1 : r[i] = Append(q, m)[i]
  BY <1>1, <1>3, <1>4, <1>5
<1>7. r = Append(q, m)
  BY <1>4, <1>5, <1>6, SeqEqual
<1> QED
  BY <1>7 DEF q, r

LEMMA LinedTake ==
  ASSUME NEW cells, NEW f \in Page, NEW n \in 1 .. MAX_PAGES,
         \A i \in 1 .. n : MessageIn(cells, After(f, i - 1)) \in Messages
  PROVE  /\ Lined(cells, f, n) # <<>>
         /\ Head(Lined(cells, f, n)) = MessageIn(cells, f)
         /\ Lined(cells, After(f, 1), n - 1) = Tail(Lined(cells, f, n))
<1>1. MAX_PAGES \in Nat /\ n \in Nat /\ n - 1 \in Nat /\ n >= 1 /\ 0 \in 0 .. MAX_PAGES - 1
  BY Positive
<1>2. After(f, 0) = f /\ After(f, 1) = NextPage(f)
  BY <1>1, AfterStep
<1>3. ASSUME NEW i \in 1 .. n - 1
      PROVE  After(After(f, 1), i - 1) = After(f, (i + 1) - 1) /\ i + 1 \in 1 .. n
  <2>1. i - 1 \in 0 .. MAX_PAGES - 1 /\ (i - 1) + 1 = (i + 1) - 1 /\ i + 1 \in 1 .. n
    BY <1>1, <1>3
  <2> QED
    BY <1>2, <2>1, AfterStep
<1>4. \A i \in 1 .. n - 1 : MessageIn(cells, After(After(f, 1), i - 1)) \in Messages
  BY <1>3
<1> DEFINE q == Lined(cells, f, n)
           r == Lined(cells, After(f, 1), n - 1)
<1>5. /\ q \in Seq(Messages) /\ Len(q) = n
      /\ \A i \in 1 .. n : q[i] = MessageIn(cells, After(f, i - 1))
  BY <1>1, LinedSeq
<1>6. /\ r \in Seq(Messages) /\ Len(r) = n - 1
      /\ \A i \in 1 .. n - 1 : r[i] = MessageIn(cells, After(After(f, 1), i - 1))
  BY <1>1, <1>4, LinedSeq
<1> HIDE DEF q, r
<1>7. q # <<>>
  BY <1>1, <1>5, EmptySeq
<1>8. Head(q) = MessageIn(cells, f)
  <2>1. Head(q) = q[1]
    BY <1>5, <1>7, HeadTailProperties
  <2>2. 1 \in 1 .. n /\ 1 - 1 = 0
    BY <1>1
  <2> QED
    BY <1>2, <1>5, <2>1, <2>2
<1>9. /\ Tail(q) \in Seq(Messages) /\ Len(Tail(q)) = n - 1
      /\ \A i \in 1 .. n - 1 : Tail(q)[i] = q[i + 1]
  BY <1>5, <1>7, HeadTailProperties
<1>10. \A i \in 1 .. n - 1 : r[i] = Tail(q)[i]
  BY <1>3, <1>5, <1>6, <1>9
<1>11. r = Tail(q)
  BY <1>6, <1>9, <1>10, SeqEqual
<1> QED
  BY <1>7, <1>8, <1>11 DEF q, r

LEMMA LinedSettled ==
  ASSUME Ring, Quiet \/ Settled PROVE Lined(mem', First', Count') = Lined(mem, First, Count)
<1>1. First' = First /\ Count' = Count
  BY DEF Quiet, Settled
<1>2. \A i \in 1 .. Count : MessageIn(mem', After(First, i - 1)) = MessageIn(mem, After(First, i - 1))
  BY DEF Quiet, Settled
<1> QED
  BY <1>1, <1>2 DEF Lined

\* Storing is a Put when `filled' counts the message, reading a Take when its bytes
\* are there; every other step, the interrupt's included, changes neither.
LEMMA StepRefines == IInv /\ IInv' /\ [Next]_vars => [Queue!Next]_<<Waiting, dest>>
<1> SUFFICES ASSUME IInv, IInv', [Next]_vars PROVE [Queue!Next]_<<Waiting, dest>>
  OBVIOUS
<1>1. MInv /\ PacketRing /\ Ring /\ TypeOK
  BY DEF IInv, MInv
<1>2. Waiting = Lined(mem, First, Count)
  BY <1>1, WaitingIsLined
<1>3. Waiting' = Lined(mem', First', Count')
  <2>1. (TypeOK /\ Ring => Waiting = Lined(mem, First, Count))'
    BY WaitingIsLined, PTL
  <2> QED
    BY <2>1 DEF IInv, MInv
<1>4. /\ Count \in 0 .. MAX_PAGES /\ First \in Page /\ MAX_PAGES \in Nat
      /\ \A i \in 1 .. Count : MessageIn(mem, After(First, i - 1)) \in Messages
  BY <1>1, Parts DEF MInv, Ring, Kept
<1>5. Waiting \in Seq(Messages) /\ Len(Waiting) = Count
  BY <1>2, <1>4, LinedSeq
<1>6. ASSUME Quiet \/ Settled PROVE UNCHANGED <<Waiting, dest>>
  BY <1>1, <1>2, <1>3, <1>6, LinedSettled DEF Quiet, Settled
<1>7. CASE QuietStep
  BY <1>1, <1>6, <1>7, QuietSteps
<1>8. CASE StoreLength
  BY <1>1, <1>6, <1>8, StoreLengthStep
<1>9. CASE StoreBytes
  BY <1>1, <1>6, <1>9, StoreBytesStep
<1>10. CASE StoreFilled
  <2>1. /\ UNCHANGED <<mem, dest, First>> /\ Count < MAX_PAGES /\ Count' = Count + 1
        /\ msg \in Messages /\ MessageIn(mem, After(First, Count)) = msg
    BY <1>1, <1>10, StoreFilledStep
  <2>2. Lined(mem, First, Count + 1) = Append(Lined(mem, First, Count), msg)
    BY <1>4, <2>1, LinedPut
  <2>3. Waiting' = Append(Waiting, msg)
    BY <1>2, <1>3, <2>1, <2>2
  <2> QED
    BY <1>5, <2>1, <2>3 DEF Queue!Next, Queue!Put
<1>11. CASE ReadBytes
  <2>1. /\ UNCHANGED mem /\ First' = After(First, 1) /\ Count >= 1 /\ Count' = Count - 1
        /\ dest' = MessageIn(mem, First)
    BY <1>1, <1>11, ReadBytesStep
  <2>2. /\ Lined(mem, First, Count) # <<>>
        /\ Head(Lined(mem, First, Count)) = MessageIn(mem, First)
        /\ Lined(mem, After(First, 1), Count - 1) = Tail(Lined(mem, First, Count))
    BY <1>4, <2>1, LinedTake
  <2>3. Waiting # <<>> /\ dest' = Head(Waiting) /\ Waiting' = Tail(Waiting)
    BY <1>2, <1>3, <2>1, <2>2
  <2> QED
    BY <2>3 DEF Queue!Next, Queue!Take
<1>12. CASE packetbuf_store_packet
  BY <1>6, <1>12, PacketStored
<1>13. CASE packetbuf_read_packet
  BY <1>6, <1>13, PacketTaken
<1>14. CASE UNCHANGED vars
  <2>1. UNCHANGED <<mem, tail_page, filled, pc, dest>>
    BY <1>14 DEF vars, chip, rings
  <2>2. Quiet
    BY <2>1 DEF Quiet, First, Count, Taken
  <2> QED
    BY <1>6, <2>2
<1> QED
  BY <1>7, <1>8, <1>9, <1>10, <1>11, <1>12, <1>13, <1>14 DEF Next, main, QuietStep

LEMMA InitRefines == Init => Queue!Init
<1> SUFFICES ASSUME Init PROVE Queue!Init
  OBVIOUS
<1>1. IInv
  BY InitIInv
<1>2. Waiting = Lined(mem, First, Count)
  BY <1>1, WaitingIsLined DEF IInv, MInv
<1>3. Count = 0 /\ dest = None
  BY DEF Init, init, Count, Buffer
<1>4. Lined(mem, First, 0) \in Seq(Messages) /\ Len(Lined(mem, First, 0)) = 0
  BY LinedSeq
<1>5. Waiting = <<>>
  BY <1>2, <1>3, <1>4, EmptySeq
<1> QED
  BY <1>3, <1>5 DEF Queue!Init

-----------------------------------------------------------------------------
(* The results. *)

\* The messages kept in the SRAM are a bounded first in, first out queue that hands
\* back what was put in, byte for byte, for any pages and messages that fit, and
\* wherever an interrupt reads or writes packets through the same chip.
THEOREM MessagesImplementQueue == Spec => MessagesAreQueue
BY InitRefines, StepRefines, IInvAlways, PTL DEF Spec, MessagesAreQueue, Queue!Spec

\* A page read from the other buffer begins with the packet stored there, the
\* oldest one not yet read.
THEOREM PacketsComeBack == Spec => []PacketsReadBack
BY IInvAlways, PTL DEF IInv
=============================================================================
