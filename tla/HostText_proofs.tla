--------------------------- MODULE HostText_proofs ---------------------------
(***************************************************************************)
(* Text for the host and from it: what the conversions of HostMsg keep,    *)
(* for every byte and every buffer, and what the prints of UsbSerial do    *)
(* when the host opens and closes the line, for any lengths and any room.  *)
(***************************************************************************)
EXTENDS HostMsg, UsbSerial, SequenceTheorems, TLAPS

------------------------------------------------------------------------------
(* Hexadecimal digits and lines (HostMsg). *)

\* A digit that is written is read as what it stands for.
LEMMA DigitScales ==
  ASSUME NEW n \in 0 .. 15
  PROVE  scaleByteFromHex(Digit(n)) = n
  BY DEF scaleByteFromHex, Digit, Zero, CapitalA

\* A byte is its two digits.
LEMMA Halves ==
  ASSUME NEW b \in Byte
  PROVE  /\ b \div 16 \in 0 .. 15 /\ b % 16 \in 0 .. 15
         /\ (16 * (b \div 16)) + (b % 16) = b
  BY DEF Byte

\* An address that is printed (returnNodeId) and typed again (processSetID) is the
\* same address: hostMsg_hexToByte undoes hostMsg_addHex.
THEOREM ByteComesBack ==
  ASSUME NEW b \in Byte
  PROVE  LET msg == hostMsg_addHex(<<>>, b)
         IN  hostMsg_hexToByte(msg[1], msg[2]) = b
<1>1. /\ scaleByteFromHex(Digit(b \div 16)) = b \div 16
      /\ scaleByteFromHex(Digit(b % 16)) = b % 16
  BY Halves, DigitScales
<1>2. /\ hostMsg_addHex(<<>>, b)[1] = Digit(b \div 16)
      /\ hostMsg_addHex(<<>>, b)[2] = Digit(b % 16)
  <2>1. hostMsg_addHex(<<>>, b) = <<Digit(b \div 16), Digit(b % 16)>>
    BY DEF hostMsg_addHex, Digit, Zero, CapitalA
  <2> QED BY <2>1
<1> QED BY <1>1, <1>2, Halves DEF hostMsg_hexToByte

\* The digits of a buffer, two for each byte.
LEMMA HexBufferDigits ==
  ASSUME NEW buf \in Seq(Byte)
  PROVE  LET hex == hostMsg_addHexBuffer(<<>>, buf)
         IN  /\ hex \in Seq(Byte)
             /\ Len(hex) = 2 * Len(buf)
             /\ \A i \in 1 .. Len(buf) : /\ hex[2 * i - 1] = Digit(buf[i] \div 16)
                                         /\ hex[2 * i] = Digit(buf[i] % 16)
<1> DEFINE f == [i \in 1 .. 2 * Len(buf) |-> IF i % 2 = 1 THEN Digit(buf[(i + 1) \div 2] \div 16)
                                                          ELSE Digit(buf[i \div 2] % 16)]
<1>1. 2 * Len(buf) \in Nat
  OBVIOUS
<1>2. ASSUME NEW n \in 0 .. 15 PROVE Digit(n) \in Byte
  BY DEF Digit, Zero, CapitalA, Byte
<1>3. ASSUME NEW i \in 1 .. 2 * Len(buf) PROVE f[i] \in Byte
  <2>1. CASE i % 2 = 1
    <3>1. (i + 1) \div 2 \in 1 .. Len(buf)
      BY <2>1
    <3>2. buf[(i + 1) \div 2] \in Byte
      BY <3>1
    <3>3. Digit(buf[(i + 1) \div 2] \div 16) \in Byte
      BY <3>2, <1>2, Halves
    <3>4. f[i] = Digit(buf[(i + 1) \div 2] \div 16)
      BY <2>1
    <3> QED BY <3>3, <3>4
  <2>2. CASE i % 2 # 1
    <3>1. i \div 2 \in 1 .. Len(buf)
      BY <2>2
    <3>2. buf[i \div 2] \in Byte
      BY <3>1
    <3>3. Digit(buf[i \div 2] % 16) \in Byte
      BY <3>2, <1>2, Halves
    <3>4. f[i] = Digit(buf[i \div 2] % 16)
      BY <2>2
    <3> QED BY <3>3, <3>4
  <2> QED BY <2>1, <2>2
<1>4. f \in Seq(Byte) /\ Len(f) = 2 * Len(buf)
  BY <1>1, <1>3
<1>5. hostMsg_addHexBuffer(<<>>, buf) = f
  BY <1>4 DEF hostMsg_addHexBuffer
<1>6. ASSUME NEW i \in 1 .. Len(buf)
      PROVE  f[2 * i - 1] = Digit(buf[i] \div 16) /\ f[2 * i] = Digit(buf[i] % 16)
  <2>1. /\ 2 * i - 1 \in 1 .. 2 * Len(buf) /\ (2 * i - 1) % 2 = 1 /\ ((2 * i - 1) + 1) \div 2 = i
        /\ 2 * i \in 1 .. 2 * Len(buf) /\ (2 * i) % 2 # 1 /\ (2 * i) \div 2 = i
    OBVIOUS
  <2> QED BY <2>1
<1> QED BY <1>4, <1>5, <1>6

\* A public key that is printed (returnPublicKey) and typed at another node's host
\* (processPublicKey) arrives as it was, however long: hostMsg_hexBufferToBytes
\* undoes hostMsg_addHexBuffer, and leaves nothing of what bytesbuf held before.
THEOREM BufferComesBack ==
  ASSUME NEW buf \in Seq(Byte), NEW bytesbuf
  PROVE  hostMsg_hexBufferToBytes(hostMsg_addHexBuffer(<<>>, buf), bytesbuf) = buf
<1> DEFINE hex  == hostMsg_addHexBuffer(<<>>, buf)
           back == [i \in 1 .. Len(hex) \div 2 |-> hostMsg_hexToByte(hex[2 * i - 1], hex[2 * i])]
<1>1. /\ Len(hex) = 2 * Len(buf)
      /\ \A i \in 1 .. Len(buf) : /\ hex[2 * i - 1] = Digit(buf[i] \div 16)
                                  /\ hex[2 * i] = Digit(buf[i] % 16)
  BY HexBufferDigits
<1>2. Len(hex) % 2 # 1 /\ Len(hex) \div 2 = Len(buf)
  BY <1>1
<1>3. ASSUME NEW i \in 1 .. Len(buf) PROVE hostMsg_hexToByte(hex[2 * i - 1], hex[2 * i]) = buf[i]
  <2>1. buf[i] \in Byte
    OBVIOUS
  <2>2. /\ scaleByteFromHex(Digit(buf[i] \div 16)) = buf[i] \div 16
        /\ scaleByteFromHex(Digit(buf[i] % 16)) = buf[i] % 16
    BY <2>1, Halves, DigitScales
  <2> QED BY <1>1, <2>1, <2>2, Halves DEF hostMsg_hexToByte
<1>4. back = [i \in 1 .. Len(buf) |-> buf[i]]
  BY <1>2, <1>3
<1>5. back = buf
  BY <1>4
<1>6. hostMsg_hexBufferToBytes(hex, bytesbuf) = back
  BY <1>2 DEF hostMsg_hexBufferToBytes
<1> QED BY <1>5, <1>6

\* hostMsg_addString keeps the last byte of the buffer free, for the newline of
\* hostMsg_terminate, if it was free before.
THEOREM StringLeavesRoom ==
  ASSUME NEW msg \in Seq(Byte), NEW s \in Seq(Byte), Len(msg) < HOST_MSG_BUF_SIZE
  PROVE  Len(hostMsg_addString(msg, s)) < HOST_MSG_BUF_SIZE
<1> DEFINE room == HOST_MSG_BUF_SIZE - 1 - Len(msg)
<1>1. room \in Nat
  BY DEF HOST_MSG_BUF_SIZE
<1>2. CASE Len(s) <= room
  <2>1. Len(msg \o s) = Len(msg) + Len(s)
    OBVIOUS
  <2> QED BY <1>2, <2>1 DEF hostMsg_addString, HOST_MSG_BUF_SIZE
<1>3. CASE ~(Len(s) <= room)
  <2>1. SubSeq(s, 1, room) \in Seq(Byte) /\ Len(SubSeq(s, 1, room)) = room
    BY <1>1, <1>3
  <2>2. Len(msg \o SubSeq(s, 1, room)) = Len(msg) + room
    BY <2>1
  <2>3. CASE room <= 0
    BY <1>3, <2>3 DEF hostMsg_addString, HOST_MSG_BUF_SIZE
  <2>4. CASE ~(room <= 0)
    BY <1>1, <1>3, <2>2, <2>4 DEF hostMsg_addString, HOST_MSG_BUF_SIZE
  <2> QED BY <2>3, <2>4
<1> QED BY <1>2, <1>3

------------------------------------------------------------------------------
(* Printing (UsbSerial): which calls a context can have still to make.  What *)
(* keeps the line quiet is that a call asks is_opened for what it then puts,  *)
(* and that only the first of a context's calls has asked.                    *)

\* Calls that ask is_opened before they put a character, or never do.  The demos
\* print bytes in hexadecimal too, the application does not.
Plain     == ({"string", "newline", "read", "getc"} \X Nat) \cup ({"raw"} \X (Nat \ {0}))
Asking(p) == IF p = "app" THEN Plain ELSE Plain \cup {<<"hex", 2>>}

\* Calls that have asked.
Half(p)   == {<<"put", 1>>} \cup (IF p = "app" THEN {} ELSE {<<"pair", 2>>})

\* What a context has to do: only the first of its calls may have asked.
Sound(p, calls) == \/ calls \in Seq(Asking(p))
                   \/ Len(calls) >= 1 /\ calls[1] \in Half(p) /\ Tail(calls) \in Seq(Asking(p))

\* A reply that is about to be written, and one of which k characters are left.
Ready(calls)     == calls = << <<"buffer", ReplyLen>> >>
Copied(calls, k) == calls = << <<"copy", k>> >>

\* The reply, which only the main loop writes, and with nothing else.
Reply == \/ Sound(program, todo["main"]) /\ put \in {0, ReplyLen}
         \/ Ready(todo["main"]) /\ put = 0
         \/ \E k \in 1 .. ReplyLen : Copied(todo["main"], k) /\ put + k = ReplyLen

\* The characters a context has asked for and not put.
Asked(calls) == IF calls = <<>> THEN 0
                ELSE IF calls[1][1] = "put" THEN 1
                ELSE IF calls[1][1] = "pair" THEN 2 ELSE 0

Shape == /\ is_opened \in BOOLEAN /\ tx \in Nat /\ late \in Nat /\ put \in Nat /\ program \in Program
         /\ todo = [c \in Context |-> todo[c]]
         /\ Sound(program, todo["timer"])
         /\ program # "app" => todo["timer"] = <<>>

Bounded == IF is_opened THEN late = 0 ELSE late + Asked(todo["main"]) + Asked(todo["timer"]) <= 2

IInv == Shape /\ Reply /\ Bounded

-----------------------------------------------------------------------------
(* What is printed. *)

LEMMA Joined ==
  ASSUME NEW S, NEW s \in Seq(S), NEW t \in Seq(S)
  PROVE  s \o t \in Seq(S)
BY ConcatProperties

LEMMA Prints ==
  ASSUME NEW p, NEW n \in Nat, NEW k \in Nat
  PROVE  /\ cdc_write_string(n) \in Seq(Asking(p)) /\ cdc_newline \in Seq(Asking(p))
         /\ cdc_read_string(n) \in Seq(Asking(p)) /\ udi_cdc_getc \in Seq(Asking(p))
         /\ n # 0 => udi_cdc_putc(n) \in Seq(Asking(p))
         /\ cdc_write_line(n) \in Seq(Asking(p)) /\ cdc_log_int(n, k) \in Seq(Asking(p))
         /\ cdc_log_string(n, k) \in Seq(Asking(p))
<1> DEFINE A == Asking(p)
<1>1. /\ \A op \in {"string", "newline", "read", "getc"}, i \in Nat : << <<op, i>> >> \in Seq(A)
      /\ n # 0 => << <<"raw", n>> >> \in Seq(A)
  BY DEF Plain, Asking
<1>2. /\ cdc_write_string(n) \in Seq(A) /\ cdc_write_string(k) \in Seq(A) /\ cdc_newline \in Seq(A)
      /\ cdc_read_string(n) \in Seq(A) /\ udi_cdc_getc \in Seq(A)
      /\ n # 0 => udi_cdc_putc(n) \in Seq(A)
  BY <1>1 DEF cdc_write_string, cdc_newline, cdc_read_string, udi_cdc_getc, udi_cdc_putc
<1> HIDE DEF A
<1>3. cdc_write_line(n) \in Seq(A)
  BY <1>2, Joined DEF cdc_write_line
<1>4. cdc_log_int(n, k) \in Seq(A)
  BY <1>2, Joined DEF cdc_log_int, cdc_write_int, cdc_write_string
<1>5. cdc_log_string(n, k) \in Seq(A)
  BY <1>2, Joined DEF cdc_log_string
<1> QED
  BY <1>2, <1>3, <1>4, <1>5 DEF A

LEMMA HexPrints ==
  ASSUME NEW p, p # "app", NEW n \in Nat, NEW k \in Nat
  PROVE  cdc_log_hex(n) \in Seq(Asking(p)) /\ cdc_log_hex_string(n, k) \in Seq(Asking(p))
<1> DEFINE A == Asking(p)
<1>1. cdc_write_string(n) \in Seq(A) /\ cdc_newline \in Seq(A)
  BY Prints
<1>2. <<"hex", 2>> \in A
  BY DEF Asking
<1>3. cdc_write_hex \in Seq(A)
  BY <1>2 DEF cdc_write_hex
<1>4. cdc_write_hex_string(k) \in Seq(A)
  <2>1. cdc_write_hex_string(k) \in [1 .. k -> A]
    BY <1>2 DEF cdc_write_hex_string
  <2> QED
    BY <2>1
<1> HIDE DEF A
<1>5. cdc_log_hex(n) \in Seq(A)
  BY <1>1, <1>3, Joined DEF cdc_log_hex
<1>6. cdc_log_hex_string(n, k) \in Seq(A)
  BY <1>1, <1>4, Joined DEF cdc_log_hex_string
<1> QED
  BY <1>5, <1>6 DEF A

\* The timer's prints, and the main loop's but for the reply.
LEMMA TimerIsSound ==
  ASSUME NEW calls \in TimerPrints
  PROVE  calls \in Seq(Asking("app"))
<1> DEFINE A == Asking("app")
<1>1. \A n \in Nat, k \in Nat : /\ cdc_write_line(n) \in Seq(A) /\ cdc_log_int(n, k) \in Seq(A)
                                /\ cdc_write_string(n) \in Seq(A) /\ cdc_newline \in Seq(A)
  BY Prints
<1>2. Text \in Nat /\ Digits \subseteq Nat
  BY LengthAssumption
<1> HIDE DEF A
<1>3. \A d \in Digits : debugPrintPacketHeader(d) \in Seq(A)
  BY <1>1, <1>2, Joined DEF debugPrintPacketHeader
<1>4. \A d \in Digits : cdc_write_line(Text) \o debugPrintPacketHeader(d) \in Seq(A)
  BY <1>1, <1>2, <1>3, Joined
<1> QED
  BY <1>1, <1>2, <1>4 DEF TimerPrints, A

LEMMA MainIsSound ==
  ASSUME NEW calls \in MainPrints, program \in Program
  PROVE  Ready(calls) \/ calls \in Seq(Asking(program))
<1> DEFINE A == Asking(program)
<1>1. \A n \in Nat, k \in Nat : /\ cdc_write_line(n) \in Seq(A) /\ cdc_log_int(n, k) \in Seq(A)
                                /\ cdc_write_string(n) \in Seq(A) /\ cdc_newline \in Seq(A)
                                /\ cdc_read_string(n) \in Seq(A) /\ udi_cdc_getc \in Seq(A)
                                /\ n # 0 => udi_cdc_putc(n) \in Seq(A)
                                /\ cdc_log_string(n, k) \in Seq(A)
  BY Prints
<1>2. program # "app" =>
        \A n \in Nat, k \in Nat : cdc_log_hex(n) \in Seq(A) /\ cdc_log_hex_string(n, k) \in Seq(A)
  BY HexPrints
<1>3. Text \in Nat /\ Text # 0 /\ Digits \subseteq Nat /\ 1 \in Nat /\ 2 \in Nat /\ 3 \in Nat
  BY LengthAssumption
<1>4. <<>> \in Seq(A)
  BY EmptySeq
<1> HIDE DEF A
<1>5. CASE program = "app"
  <2>1. \A d \in Digits : debugPrintRoutingTableEntry(d) \in Seq(A)
    BY <1>1, <1>3, Joined DEF debugPrintRoutingTableEntry
  <2>2. \A t \in debugPrintRoutingTable : t \in Seq(A)
    BY <1>4, <2>1 DEF debugPrintRoutingTable
  <2> QED
    BY <1>5, <2>2 DEF MainPrints, AppPrints, processDebug, cdc_write_buffer, Ready, A
<1>6. \A a \in AskAddress : a \in Seq(A)
  <2>1. cdc_write_string(Text) \o cdc_read_string(3) \o cdc_newline \in Seq(A)
    BY <1>1, <1>3, Joined
  <2>2. cdc_write_string(Text) \o cdc_read_string(3) \o cdc_newline \o cdc_write_line(Text) \in Seq(A)
    BY <1>1, <1>3, <2>1, Joined
  <2>3. \A d \in Digits :
          cdc_write_string(Text) \o cdc_read_string(3) \o cdc_newline \o cdc_log_int(Text, d) \in Seq(A)
    BY <1>1, <1>3, <2>1, Joined
  <2> QED
    BY <2>2, <2>3 DEF AskAddress
<1>7. CASE program = "crypto"
  <2>1. encrypt \in Seq(A)
    <3> DEFINE h == cdc_log_hex_string(Text, 2)
    <3>1. h \in Seq(A)
      BY <1>2, <1>3, <1>7
    <3> HIDE DEF h
    <3>2. /\ cdc_write_string(Text) \in Seq(A) /\ cdc_read_string(2) \in Seq(A)
          /\ cdc_log_string(Text, 2) \in Seq(A)
      BY <1>1, <1>3
    <3>3. /\ cdc_write_string(Text) \o h \o h \o h \o h \in Seq(A)
      BY <3>1, <3>2, Joined
    <3>4. cdc_write_string(Text) \o h \o h \o h \o h \o cdc_write_string(Text) \o cdc_read_string(2) \in Seq(A)
      BY <3>2, <3>3, Joined
    <3> QED
      BY <3>1, <3>2, <3>4, Joined DEF encrypt, h
  <2>2. decrypt \in Seq(A)
    BY <1>1, <1>3, Joined DEF decrypt
  <2> QED
    BY <1>1, <1>4, <1>7, <2>1, <2>2, Joined DEF MainPrints, CryptoDemo, A
<1>8. CASE program = "radio"
  <2>1. cdc_write_string(Text) \o udi_cdc_getc \in Seq(A)
    BY <1>1, <1>3, Joined
  <2> QED
    BY <1>6, <1>8, <2>1 DEF MainPrints, RadioDemo, A
<1>9. CASE program = "routing"
  <2>1. cdc_log_int(Text, 1) \o cdc_log_string(Text, Text) \o cdc_newline \in Seq(A)
    BY <1>1, <1>3, Joined
  <2> QED
    BY <1>6, <1>9, <2>1 DEF MainPrints, RoutingDemo, A
<1>10. CASE program = "sram"
  <2> DEFINE packet == cdc_newline \o cdc_write_line(Text) \o cdc_log_string(Text, Text)
             l == cdc_write_line(Text)
             x == cdc_log_hex(Text)
             s == cdc_log_string(Text, Text)
             u == udi_cdc_putc(Text)
             n == cdc_newline
  <2>1. packet \in Seq(A)
    BY <1>1, <1>3, Joined
  <2>2. l \in Seq(A) /\ x \in Seq(A) /\ s \in Seq(A) /\ u \in Seq(A) /\ n \in Seq(A)
    BY <1>1, <1>2, <1>3, <1>10
  <2> HIDE DEF packet, l, x, s, u, n
  <2>3. l \o l \o l \o x \o x \in Seq(A)
    BY <2>2, Joined
  <2>4. l \o l \o l \o x \o x \o packet \o s \in Seq(A)
    BY <2>1, <2>2, <2>3, Joined
  <2>5. l \o l \o l \o x \o x \o packet \o s \o packet \o l \o u \o n \in Seq(A)
    BY <2>1, <2>2, <2>4, Joined
  <2>6. l \o l \o l \o x \o x \o packet \o s \o packet \o l \o u \o n \o packet \o l \o u \o n \in Seq(A)
    BY <2>1, <2>2, <2>5, Joined
  <2> QED
    BY <1>10, <2>6 DEF MainPrints, SramDemo, packet, l, x, s, u, n, A
<1> QED
  BY <1>5, <1>7, <1>8, <1>9, <1>10 DEF Program

-----------------------------------------------------------------------------
(* The calls of a context. *)

LEMMA Rest ==
  ASSUME NEW p, NEW calls, Sound(p, calls), calls # <<>>
  PROVE  Tail(calls) \in Seq(Asking(p)) /\ calls[1] \in Asking(p) \cup Half(p)
<1>1. CASE calls \in Seq(Asking(p))
  BY <1>1, EmptySeq, HeadTailProperties, ElementOfSeq
<1> QED
  BY <1>1 DEF Sound

LEMMA Ops ==
  ASSUME NEW p, NEW x \in Asking(p)
  PROVE  /\ x[1] \in {"string", "newline", "raw", "read", "getc", "hex"} /\ x[2] \in Nat
         /\ x[1] = "hex" => p # "app"
         /\ x[1] = "raw" => x[2] # 0
BY DEF Asking, Plain

LEMMA HalfOps ==
  ASSUME NEW p, NEW x \in Half(p)
  PROVE  x = <<"put", 1>> \/ (x = <<"pair", 2>> /\ p # "app")
BY DEF Half

\* What follows when nothing, a call that will ask, or one that has asked comes first.
LEMMA Onward ==
  ASSUME NEW p, NEW r \in Seq(Asking(p))
  PROVE  /\ Sound(p, <<>> \o r) /\ Asked(<<>> \o r) = 0
         /\ \A x \in Asking(p) : Sound(p, <<x>> \o r) /\ Asked(<<x>> \o r) = 0
         /\ \A x \in Half(p) : /\ Sound(p, <<x>> \o r) /\ Asked(<<x>> \o r) = Asked(<<x>>)
                               /\ \A y \in Asking(p) : /\ Sound(p, <<x, y>> \o r)
                                                       /\ Asked(<<x, y>> \o r) = Asked(<<x>>)
<1> DEFINE A == Asking(p)
<1>1. Len(r) \in Nat /\ \A i \in 1 .. Len(r) : r[i] \in A
  BY LenProperties, ElementOfSeq
<1>2. <<>> \o r = r
  BY <1>1
<1>3. Asked(r) = 0
  <2>1. r # <<>> => r[1] \in A
    BY <1>1, EmptySeq
  <2> QED
    BY <2>1, Ops DEF Asked
<1>4. ASSUME NEW x
      PROVE  Len(<<x>> \o r) >= 1 /\ (<<x>> \o r)[1] = x /\ Tail(<<x>> \o r) = r /\ <<x>> \o r # <<>>
  BY <1>1
<1>5. ASSUME NEW x, NEW y
      PROVE  /\ Len(<<x, y>> \o r) >= 1 /\ (<<x, y>> \o r)[1] = x /\ Tail(<<x, y>> \o r) = <<y>> \o r
             /\ <<x, y>> \o r # <<>>
  BY <1>1
<1>6. ASSUME NEW x \in A PROVE <<x>> \o r \in Seq(A)
  <2>1. <<x>> \in Seq(A)
    BY <1>6
  <2> QED
    BY <2>1, Joined
<1>7. ASSUME NEW x \in A PROVE Asked(<<x>> \o r) = 0
  BY <1>4, <1>7, Ops DEF Asked
<1> HIDE DEF A
<1>8. ASSUME NEW x \in Half(p), NEW y \in A
      PROVE  /\ Sound(p, <<x>> \o r) /\ Asked(<<x>> \o r) = Asked(<<x>>)
             /\ Sound(p, <<x, y>> \o r) /\ Asked(<<x, y>> \o r) = Asked(<<x>>)
  <2>1. <<x>>[1] = x /\ <<x>> # <<>>
    OBVIOUS
  <2>2. Sound(p, <<x>> \o r) /\ Sound(p, <<x, y>> \o r)
    <3> DEFINE one == <<x>> \o r
               two == <<x, y>> \o r
    <3>1. Len(one) >= 1 /\ one[1] \in Half(p) /\ Tail(one) \in Seq(A)
      BY <1>4, <1>8 DEF A
    <3>2. Len(two) >= 1 /\ two[1] \in Half(p) /\ Tail(two) \in Seq(A)
      BY <1>5, <1>6, <1>8
    <3> HIDE DEF one, two
    <3>3. Sound(p, one) /\ Sound(p, two)
      BY <3>1, <3>2 DEF Sound, A
    <3> QED
      BY <3>3 DEF one, two
  <2>3. Asked(<<x>> \o r) = Asked(<<x>>)
    BY <1>4, <2>1 DEF Asked
  <2>4. Asked(<<x, y>> \o r) = Asked(<<x>>)
    BY <1>5, <2>1 DEF Asked
  <2> QED
    BY <2>2, <2>3, <2>4
<1>9. <<"newline", 1>> \in A
  BY DEF A, Asking, Plain
<1>10. \A x \in Half(p) : /\ Sound(p, <<x>> \o r) /\ Asked(<<x>> \o r) = Asked(<<x>>)
                         /\ \A y \in A : Sound(p, <<x, y>> \o r) /\ Asked(<<x, y>> \o r) = Asked(<<x>>)
  BY <1>8, <1>9
<1> QED
  BY <1>2, <1>3, <1>6, <1>7, <1>10 DEF Sound, A

LEMMA AskedBound ==
  ASSUME NEW p, NEW calls, Sound(p, calls)
  PROVE  Asked(calls) \in 0 .. 2 /\ (p = "app" => Asked(calls) <= 1)
<1>1. CASE calls = <<>>
  BY <1>1 DEF Asked
<1>2. CASE calls # <<>>
  <2>1. calls[1] \in Asking(p) \cup Half(p)
    BY <1>2, Rest
  <2>2. CASE calls[1] \in Asking(p)
    BY <1>2, <2>2, Ops DEF Asked
  <2>3. CASE calls[1] \in Half(p)
    <3>1. CASE calls[1] = <<"put", 1>>
      BY <1>2, <3>1 DEF Asked
    <3>2. CASE calls[1] = <<"pair", 2>> /\ p # "app"
      BY <1>2, <3>2 DEF Asked
    <3> QED
      BY <2>3, <3>1, <3>2, HalfOps
  <2> QED
    BY <2>1, <2>2, <2>3
<1> QED
  BY <1>1, <1>2

-----------------------------------------------------------------------------
(* The steps. *)

\* All that is printed but replies.
Printing(c) == \/ StringEnds(c) \/ StringNext(c) \/ Newline(c) \/ Hex(c) \/ Put(c) \/ Pair(c)
            \/ PutRaw(c) \/ Read(c) \/ Type(c)

LEMMA Goer ==
  ASSUME Shape, NEW c \in Context, NEW calls, Goes(c, calls)
  PROVE  /\ todo'[c] = calls \o Tail(todo[c])
         /\ todo' = [d \in Context |-> todo'[d]]
         /\ \A d \in Context : d # c => todo'[d] = todo[d]
BY DEF Shape, Goes

LEMMA OnlyPrinting ==
  ASSUME NEW c \in Context, Printing(c)
  PROVE  /\ todo[c] # <<>> /\ todo[c][1][1] \notin {"buffer", "copy"}
         /\ c = "main" => todo["timer"] = <<>>
         /\ UNCHANGED <<is_opened, program, put>>
         /\ tx' = tx \/ tx' = tx + 1
BY DEF Printing, StringEnds, StringNext, Newline, Hex, Put, Pair, PutRaw, Read, Type, At, Runs

\* A call that has not asked does so, or puts nothing or does not ask at all.
LEMMA AskingStep ==
  ASSUME Shape, NEW c \in Context, Sound(program, todo[c]),
         StringEnds(c) \/ StringNext(c) \/ Newline(c) \/ Hex(c) \/ PutRaw(c) \/ Read(c) \/ Type(c)
  PROVE  /\ late' = late /\ Sound(program, todo'[c]) /\ (is_opened \/ Asked(todo'[c]) = 0)
         /\ todo' = [d \in Context |-> todo'[d]] /\ \A d \in Context : d # c => todo'[d] = todo[d]
<1> DEFINE r == Tail(todo[c])
           x == todo[c][1]
           A == Asking(program)
           H == Half(program)
<1>1. todo[c] # <<>> /\ x[1] \in {"string", "newline", "hex", "raw", "read", "getc"}
  BY DEF StringEnds, StringNext, Newline, Hex, PutRaw, Read, Type, At, Runs
<1>2. r \in Seq(A) /\ x \in A
  <2>1. r \in Seq(A) /\ x \in A \cup H
    BY <1>1, Rest
  <2>2. x \notin H
    BY <1>1, HalfOps
  <2> QED
    BY <2>1, <2>2
<1>3. Left(c) \in Nat /\ (x[1] = "hex" => program # "app") /\ (x[1] = "raw" => Left(c) # 0)
  BY <1>2, Ops DEF Left
<1>4. /\ <<"put", 1>> \in H /\ (program # "app" => <<"pair", 2>> \in H)
      /\ \A n \in Nat : <<"string", n>> \in A /\ <<"read", n>> \in A /\ <<"getc", n>> \in A
      /\ \A n \in Nat \ {0} : <<"raw", n>> \in A
  BY DEF Half, Asking, Plain
<1>5. \E calls : /\ Goes(c, calls) /\ late' = late
                 /\ \/ calls = <<>>
                    \/ \E y \in A : calls = <<y>>
                    \/ is_opened /\ \E h \in H : calls = <<h>>
                    \/ is_opened /\ \E h \in H, y \in A : calls = <<h, y>>
  <2> HIDE DEF A, H
  <2>1. CASE StringEnds(c)
    BY <2>1 DEF StringEnds
  <2>2. CASE StringNext(c)
    <3>1. Left(c) - 1 \in Nat /\ is_opened
      BY <1>3, <2>2 DEF StringNext
    <3>2. <<"string", Left(c) - 1>> \in A
      BY <1>4, <3>1
    <3> QED
      BY <1>4, <2>2, <3>1, <3>2 DEF StringNext
  <2>3. CASE Newline(c)
    BY <1>4, <2>3 DEF Newline
  <2>4. CASE Hex(c)
    <3>1. program # "app"
      BY <1>3, <2>4 DEF Hex, At
    <3> QED
      BY <1>4, <2>4, <3>1 DEF Hex
  <2>5. CASE PutRaw(c)
    <3>1. CASE Left(c) = 1
      BY <2>5, <3>1 DEF PutRaw
    <3>2. CASE Left(c) # 1
      <4>1. Left(c) - 1 \in Nat \ {0}
        BY <1>3, <2>5, <3>2 DEF PutRaw, At
      <4> QED
        BY <1>4, <2>5, <3>2, <4>1 DEF PutRaw
    <3> QED
      BY <3>1, <3>2
  <2>6. CASE Read(c)
    BY <1>3, <1>4, <2>6 DEF Read
  <2>7. CASE Type(c)
    <3>1. Left(c) > 0 => Left(c) - 1 \in Nat
      BY <1>3
    <3> QED
      BY <1>4, <2>7, <3>1 DEF Type
  <2> QED
    BY <2>1, <2>2, <2>3, <2>4, <2>5, <2>6, <2>7
<1>6. PICK calls : /\ Goes(c, calls) /\ late' = late
                   /\ \/ calls = <<>>
                      \/ \E y \in A : calls = <<y>>
                      \/ is_opened /\ \E h \in H : calls = <<h>>
                      \/ is_opened /\ \E h \in H, y \in A : calls = <<h, y>>
  BY <1>5
<1>7. Sound(program, calls \o r) /\ (is_opened \/ Asked(calls \o r) = 0)
  BY <1>2, <1>6, Onward
<1> QED
  BY <1>6, <1>7, Goer

\* A call that has asked puts a character.
LEMMA PuttingStep ==
  ASSUME Shape, NEW c \in Context, Sound(program, todo[c]), Put(c) \/ Pair(c)
  PROVE  /\ late' = IF is_opened THEN late ELSE late + 1
         /\ Sound(program, todo'[c]) /\ Asked(todo[c]) = Asked(todo'[c]) + 1
         /\ todo' = [d \in Context |-> todo'[d]] /\ \A d \in Context : d # c => todo'[d] = todo[d]
<1> DEFINE r == Tail(todo[c])
<1>1. todo[c] # <<>> /\ todo[c][1][1] \in {"put", "pair"} /\ late' = IF is_opened THEN late ELSE late + 1
  BY DEF Put, Pair, At, Runs, Late
<1>2. r \in Seq(Asking(program))
  BY <1>1, Rest
<1>3. CASE Put(c)
  <2>1. Goes(c, <<>>) /\ todo[c][1][1] = "put"
    BY <1>3 DEF Put, At
  <2>2. Asked(todo[c]) = 1
    BY <1>1, <2>1 DEF Asked
  <2> QED
    BY <1>1, <1>2, <2>1, <2>2, Goer, Onward
<1>4. CASE Pair(c)
  <2>1. Goes(c, << <<"put", 1>> >>) /\ todo[c][1][1] = "pair"
    BY <1>4 DEF Pair, At
  <2>2. Asked(todo[c]) = 2
    BY <1>1, <2>1 DEF Asked
  <2>3. <<"put", 1>> \in Half(program) /\ Asked(<< <<"put", 1>> >>) = 1
    BY DEF Half, Asked
  <2>4. Sound(program, << <<"put", 1>> >> \o r) /\ Asked(<< <<"put", 1>> >> \o r) = 1
    BY <1>2, <2>3, Onward
  <2>5. todo'[c] = << <<"put", 1>> >> \o r
    BY <2>1, Goer
  <2> QED
    BY <1>1, <2>1, <2>2, <2>4, <2>5, Goer
<1> QED
  BY <1>3, <1>4

LEMMA SoundOps ==
  ASSUME IInv
  PROVE  /\ \A k : ~Copied(todo["timer"], k)
         /\ todo["timer"] # <<>> => todo["timer"][1][1] \notin {"buffer", "copy"}
         /\ todo["main"] # <<>> /\ todo["main"][1][1] \notin {"buffer", "copy"} => Sound(program, todo["main"])
         /\ todo["main"] = <<>> => Sound(program, todo["main"]) /\ put \in {0, ReplyLen}
         /\ Sound(program, todo["main"]) => put \in {0, ReplyLen}
<1>1. \A calls : Sound(program, calls) /\ calls # <<>> => calls[1][1] \notin {"buffer", "copy"}
  BY Rest, Ops, HalfOps
<1>2. \A calls : Ready(calls) => calls # <<>> /\ calls[1][1] = "buffer"
  BY DEF Ready
<1>3. \A calls, k : Copied(calls, k) => calls # <<>> /\ calls[1][1] = "copy"
  BY DEF Copied
<1>4. Sound(program, todo["timer"])
  BY DEF IInv, Shape
<1> QED
  BY <1>1, <1>2, <1>3, <1>4 DEF IInv, Reply

LEMMA PrintStep ==
  ASSUME IInv, NEW c \in Context, Printing(c)
  PROVE  IInv'
<1>1. /\ todo[c] # <<>> /\ todo[c][1][1] \notin {"buffer", "copy"} /\ UNCHANGED <<is_opened, program, put>>
      /\ c = "main" => todo["timer"] = <<>>
      /\ tx' = tx \/ tx' = tx + 1
  BY OnlyPrinting
<1>2. Shape /\ Sound(program, todo[c])
  BY <1>1, SoundOps DEF IInv, Shape, Context
<1>3. /\ Sound(program, todo'[c])
      /\ IF is_opened THEN late' = late
         ELSE late' + Asked(todo'[c]) <= late + Asked(todo[c]) /\ late' \in {late, late + 1}
      /\ todo' = [d \in Context |-> todo'[d]] /\ \A d \in Context : d # c => todo'[d] = todo[d]
  <2>1. CASE Put(c) \/ Pair(c)
    <3>1. /\ late' = IF is_opened THEN late ELSE late + 1
          /\ Sound(program, todo'[c]) /\ Asked(todo[c]) = Asked(todo'[c]) + 1
          /\ todo' = [d \in Context |-> todo'[d]] /\ \A d \in Context : d # c => todo'[d] = todo[d]
      BY <1>2, <2>1, PuttingStep
    <3>2. Asked(todo'[c]) \in 0 .. 2 /\ late \in Nat
      BY <1>2, <3>1, AskedBound DEF Shape
    <3> QED
      BY <3>1, <3>2
  <2>2. CASE ~(Put(c) \/ Pair(c))
    <3>1. /\ late' = late /\ Sound(program, todo'[c]) /\ (is_opened \/ Asked(todo'[c]) = 0)
          /\ todo' = [d \in Context |-> todo'[d]] /\ \A d \in Context : d # c => todo'[d] = todo[d]
      BY <1>2, <2>2, AskingStep DEF Printing
    <3>2. Asked(todo[c]) \in 0 .. 2 /\ late \in Nat
      BY <1>2, AskedBound DEF Shape
    <3> QED
      BY <3>1, <3>2
  <2> QED
    BY <2>1, <2>2
<1>4. Shape'
  <2>1. late' \in Nat /\ tx' \in Nat
    BY <1>1, <1>2, <1>3 DEF Shape
  <2>2. Sound(program', todo'["timer"])
    BY <1>1, <1>2, <1>3 DEF Shape, Context
  <2>3. program # "app" => todo'["timer"] = <<>>
    BY <1>1, <1>2, <1>3 DEF Shape, Context
  <2> QED
    BY <1>1, <1>2, <1>3, <2>1, <2>2, <2>3 DEF Shape
<1>5. Reply'
  <2>1. CASE c = "main"
    BY <1>1, <1>2, <1>3, <2>1, SoundOps DEF Reply
  <2>2. CASE c = "timer"
    <3>1. todo'["main"] = todo["main"] /\ put' = put /\ program' = program
      BY <1>1, <1>3, <2>2 DEF Context
    <3> QED
      BY <3>1 DEF IInv, Reply
  <2> QED
    BY <2>1, <2>2 DEF Context
<1>6. Bounded'
  <2>1. CASE is_opened
    BY <1>1, <1>3, <2>1 DEF IInv, Bounded
  <2>2. CASE ~is_opened
    <3>1. late + Asked(todo["main"]) + Asked(todo["timer"]) <= 2
      BY <2>2 DEF IInv, Bounded
    <3>2. /\ late \in Nat
          /\ \A d \in Context : Asked(todo[d]) \in Int /\ Asked(todo'[d]) \in Int
      <4>1. \A calls : Asked(calls) \in Int
        BY DEF Asked
      <4> QED
        BY <1>2, <4>1 DEF Shape
    <3>3. late' + Asked(todo'["main"]) + Asked(todo'["timer"]) <= 2
      BY <1>3, <2>2, <3>1, <3>2 DEF Context
    <3> QED
      BY <1>1, <2>2, <3>3 DEF Bounded
  <2> QED
    BY <2>1, <2>2
<1> QED
  BY <1>4, <1>5, <1>6 DEF IInv

\* No part of a reply counts as asked for: the whole of it is put, room or not.
LEMMA ReplyAsksOnce ==
  ASSUME NEW calls, Ready(calls) \/ \E k : Copied(calls, k)
  PROVE  Asked(calls) = 0 /\ Tail(calls) = <<>> /\ calls # <<>>
<1>1. CASE Ready(calls)
  BY <1>1 DEF Ready, Asked
<1>2. CASE \E k : Copied(calls, k)
  BY <1>2 DEF Copied, Asked
<1> QED
  BY <1>1, <1>2

LEMMA NothingIsSound ==
  ASSUME NEW p
  PROVE  Sound(p, <<>>) /\ Asked(<<>>) = 0
BY EmptySeq DEF Sound, Asked

\* However the reply goes on, it is the main loop's, and what is left and what is put
\* make it up.
LEMMA ReplyStep ==
  ASSUME IInv, NEW c \in Context, Buffer(c) \/ udi_cdc_write_buf(c)
  PROVE  IInv'
<1>1. /\ todo[c] # <<>> /\ todo[c][1][1] \in {"buffer", "copy"} /\ UNCHANGED <<is_opened, program, late>>
      /\ c = "main" => todo["timer"] = <<>>
  BY DEF Buffer, udi_cdc_write_buf, At, Runs
<1>2. c = "main" /\ ~Sound(program, todo["main"]) /\ Shape /\ Sound(program, todo["timer"])
  <2>1. \A calls : Sound(program, calls) /\ calls # <<>> => calls[1][1] \notin {"buffer", "copy"}
    BY Rest, Ops, HalfOps
  <2> QED
    BY <1>1, <2>1 DEF Context, IInv, Shape
<1>3. \/ Ready(todo["main"]) /\ put = 0
      \/ \E k \in 1 .. ReplyLen : Copied(todo["main"], k) /\ put + k = ReplyLen
  BY <1>2 DEF IInv, Reply
<1>4. Asked(todo["main"]) = 0 /\ Tail(todo["main"]) = <<>>
  BY <1>3, ReplyAsksOnce
<1>5. /\ \/ todo'["main"] = <<>> /\ put' \in {0, ReplyLen}
         \/ \E k \in 1 .. ReplyLen : Copied(todo'["main"], k) /\ put' + k = ReplyLen
      /\ todo' = [d \in Context |-> todo'[d]] /\ todo'["timer"] = todo["timer"]
      /\ tx' \in Nat /\ put' \in Nat
  <2>1. ReplyLen \in Nat /\ ReplyLen >= 1 /\ TxSize \in Nat /\ tx \in Nat /\ put \in Nat
    BY <1>2, LengthAssumption, TxAssumption DEF Shape
  <2>2. CASE Buffer("main")
    <3>1. /\ todo["main"][1][1] = "buffer" /\ tx' = tx /\ put' = put
          /\ Goes("main", IF is_opened THEN << <<"copy", Left("main")>> >> ELSE <<>>)
      BY <2>2 DEF Buffer, At
    <3>2. Ready(todo["main"]) /\ put = 0 /\ Left("main") = ReplyLen
      BY <1>3, <3>1 DEF Ready, Copied, Left
    <3>3. CASE is_opened
      <4>1. Goes("main", << <<"copy", ReplyLen>> >>)
        BY <3>1, <3>2, <3>3
      <4>2. todo'["main"] = << <<"copy", ReplyLen>> >> \o <<>>
        BY <1>2, <1>4, <4>1, Goer
      <4>3. Copied(todo'["main"], ReplyLen)
        BY <4>2 DEF Copied
      <4>4. todo' = [d \in Context |-> todo'[d]] /\ todo'["timer"] = todo["timer"]
        BY <1>2, <4>1, Goer DEF Context
      <4> QED
        BY <2>1, <3>1, <3>2, <4>3, <4>4
    <3>4. CASE ~is_opened
      <4>1. Goes("main", <<>>)
        BY <3>1, <3>4
      <4>2. todo'["main"] = <<>> \o <<>>
        BY <1>2, <1>4, <4>1, Goer
      <4>3. todo' = [d \in Context |-> todo'[d]] /\ todo'["timer"] = todo["timer"]
        BY <1>2, <4>1, Goer DEF Context
      <4> QED
        BY <2>1, <3>1, <3>2, <4>2, <4>3
    <3> QED
      BY <3>3, <3>4
  <2>3. CASE udi_cdc_write_buf("main")
    <3> DEFINE n == IF Left("main") < TxSize - tx THEN Left("main") ELSE TxSize - tx
    <3>1. /\ todo["main"][1][1] = "copy" /\ tx < TxSize /\ tx' = tx + n /\ put' = put + n
          /\ Goes("main", IF n = Left("main") THEN <<>> ELSE << <<"copy", Left("main") - n>> >>)
      BY <2>3 DEF udi_cdc_write_buf, At
    <3>2. PICK k \in 1 .. ReplyLen : Copied(todo["main"], k) /\ put + k = ReplyLen
      BY <1>3, <3>1 DEF Ready
    <3>3. Left("main") = k
      BY <3>2 DEF Copied, Left
    <3>4. n \in 1 .. k
      BY <2>1, <3>1, <3>2, <3>3
    <3> HIDE DEF n
    <3>5. CASE n = k
      <4>1. Goes("main", <<>>)
        BY <3>1, <3>3, <3>5
      <4>2. todo'["main"] = <<>> \o <<>>
        BY <1>2, <1>4, <4>1, Goer
      <4>3. todo' = [d \in Context |-> todo'[d]] /\ todo'["timer"] = todo["timer"]
        BY <1>2, <4>1, Goer DEF Context
      <4> QED
        BY <2>1, <3>1, <3>2, <3>4, <3>5, <4>2, <4>3
    <3>6. CASE n # k
      <4>1. Goes("main", << <<"copy", k - n>> >>)
        BY <3>1, <3>3, <3>6
      <4>2. todo'["main"] = << <<"copy", k - n>> >> \o <<>>
        BY <1>2, <1>4, <4>1, Goer
      <4>3. Copied(todo'["main"], k - n)
        BY <4>2 DEF Copied
      <4>4. todo' = [d \in Context |-> todo'[d]] /\ todo'["timer"] = todo["timer"]
        BY <1>2, <4>1, Goer DEF Context
      <4>5. k - n \in 1 .. ReplyLen /\ put' + (k - n) = ReplyLen /\ tx' \in Nat /\ put' \in Nat
        BY <2>1, <3>1, <3>2, <3>4, <3>6
      <4> QED
        BY <4>3, <4>4, <4>5
    <3> QED
      BY <3>5, <3>6
  <2> QED
    BY <1>2, <2>2, <2>3
<1>6. Shape'
  BY <1>1, <1>2, <1>5 DEF Shape
<1>7. Reply'
  BY <1>5, NothingIsSound DEF Reply
<1>8. Asked(todo'["main"]) = 0
  BY <1>5, ReplyAsksOnce, NothingIsSound
<1>9. Bounded'
  BY <1>1, <1>4, <1>5, <1>8 DEF IInv, Bounded
<1> QED
  BY <1>6, <1>7, <1>9 DEF IInv

LEMMA MainPrintStep == ASSUME IInv, MainPrint PROVE IInv'
<1>1. PICK calls \in MainPrints : todo' = [todo EXCEPT !["main"] = calls]
  BY DEF MainPrint
<1>2. /\ todo["main"] = <<>> /\ put' = 0 /\ UNCHANGED <<is_opened, tx, program, late>>
  BY DEF MainPrint
<1>3. /\ todo'["main"] = calls /\ todo'["timer"] = todo["timer"] /\ todo' = [d \in Context |-> todo'[d]]
  BY <1>1 DEF IInv, Shape, Context
<1>4. Ready(calls) \/ calls \in Seq(Asking(program))
  BY MainIsSound DEF IInv, Shape
<1>5. Ready(calls) \/ Sound(program, calls)
  BY <1>4 DEF Sound
<1>6. Asked(calls) = 0
  <2>1. CASE Ready(calls)
    BY <2>1, ReplyAsksOnce
  <2>2. CASE calls \in Seq(Asking(program))
    <3>1. calls # <<>> => calls[1] \in Asking(program)
      BY <2>2, EmptySeq, ElementOfSeq
    <3> QED
      BY <3>1, Ops DEF Asked
  <2> QED
    BY <1>4, <2>1, <2>2
<1>7. Shape'
  BY <1>2, <1>3 DEF IInv, Shape
<1>8. Reply'
  BY <1>2, <1>3, <1>5 DEF Reply
<1>9. Bounded'
  BY <1>2, <1>3, <1>6, NothingIsSound DEF IInv, Bounded
<1> QED
  BY <1>7, <1>8, <1>9 DEF IInv

LEMMA TimerPrintStep == ASSUME IInv, TimerPrint PROVE IInv'
<1>1. PICK calls \in TimerPrints : todo' = [todo EXCEPT !["timer"] = calls]
  BY DEF TimerPrint
<1>2. /\ program = "app" /\ todo["timer"] = <<>> /\ UNCHANGED <<is_opened, tx, program, put, late>>
  BY DEF TimerPrint
<1>3. /\ todo'["timer"] = calls /\ todo'["main"] = todo["main"] /\ todo' = [d \in Context |-> todo'[d]]
  BY <1>1 DEF IInv, Shape, Context
<1>4. calls \in Seq(Asking(program))
  BY <1>2, TimerIsSound
<1>5. Asked(calls) = 0
  <2>1. calls # <<>> => calls[1] \in Asking(program)
    BY <1>4, EmptySeq, ElementOfSeq
  <2> QED
    BY <2>1, Ops DEF Asked
<1>6. Shape'
  BY <1>2, <1>3, <1>4 DEF IInv, Shape, Sound
<1>7. Reply'
  BY <1>2, <1>3 DEF IInv, Reply
<1>8. Bounded'
  BY <1>2, <1>3, <1>5, NothingIsSound DEF IInv, Bounded
<1> QED
  BY <1>6, <1>7, <1>8 DEF IInv

\* When the line is closed, no more than two characters have been asked for: two
\* digits where no timer prints, and else one by each context.
LEMMA LineStep == ASSUME IInv, NEW enable \in BOOLEAN, cdc_set_dtr(enable) PROVE IInv'
<1>1. is_opened' = enable /\ late' = 0 /\ UNCHANGED <<tx, todo, program, put>>
  BY DEF cdc_set_dtr
<1>2. Shape' /\ Reply'
  BY <1>1 DEF IInv, Shape, Reply
<1>3. /\ Asked(todo["timer"]) \in 0 .. 2 /\ (program = "app" => Asked(todo["timer"]) <= 1)
      /\ program # "app" => Asked(todo["timer"]) = 0
  BY AskedBound, NothingIsSound DEF IInv, Shape
<1>4. Asked(todo["main"]) \in 0 .. 2 /\ (program = "app" => Asked(todo["main"]) <= 1)
  <2>1. CASE Sound(program, todo["main"])
    BY <2>1, AskedBound
  <2>2. CASE ~Sound(program, todo["main"])
    <3>1. Asked(todo["main"]) = 0
      BY <2>2, ReplyAsksOnce DEF IInv, Reply
    <3> QED
      BY <3>1
  <2> QED
    BY <2>1, <2>2
<1>5. Asked(todo["main"]) + Asked(todo["timer"]) <= 2
  BY <1>3, <1>4
<1> QED
  BY <1>1, <1>2, <1>3, <1>4, <1>5 DEF IInv, Bounded

LEMMA TakeStep == ASSUME IInv, Take PROVE IInv'
<1>1. tx' \in Nat /\ UNCHANGED <<is_opened, todo, program, put, late>>
  BY DEF Take, IInv, Shape
<1> QED
  BY <1>1 DEF IInv, Shape, Reply, Bounded

LEMMA IInvAlways == Spec => []IInv
<1>1. Init => IInv
  <2>1. ASSUME Init PROVE IInv
    <3>1. todo["main"] = <<>> /\ todo["timer"] = <<>> /\ todo = [c \in Context |-> todo[c]]
      BY <2>1 DEF Init, Context
    <3>2. Shape
      BY <2>1, <3>1, NothingIsSound DEF Init, Shape
    <3>3. Reply
      BY <2>1, <3>1, NothingIsSound DEF Init, Reply
    <3>4. Bounded
      BY <2>1, <3>1, NothingIsSound DEF Init, Bounded
    <3> QED
      BY <3>2, <3>3, <3>4 DEF IInv
  <2> QED
    BY <2>1
<1>2. IInv /\ [Next]_vars => IInv'
  <2>1. ASSUME IInv, Next PROVE IInv'
    <3>1. ASSUME NEW c \in Context, Step(c) \/ Type(c) PROVE IInv'
      <4>1. Printing(c) \/ Buffer(c) \/ udi_cdc_write_buf(c)
        BY <3>1 DEF Step, Printing
      <4> QED
        BY <2>1, <4>1, PrintStep, ReplyStep
    <3> QED
      BY <2>1, <3>1, MainPrintStep, TimerPrintStep, LineStep, TakeStep DEF Next
  <2>2. ASSUME IInv, UNCHANGED vars PROVE IInv'
    BY <2>2 DEF IInv, Shape, Reply, Bounded, vars
  <2> QED
    BY <2>1, <2>2
<1> QED
  BY <1>1, <1>2, PTL DEF Spec

\* A reply of the application is put as a whole or not at all, whatever its length and
\* the room there is, and whenever the host opens or closes the line.
THEOREM RepliesArriveWhole == Spec => []RepliesWhole
<1>1. IInv => RepliesWhole
  <2>1. ASSUME IInv, todo["main"] = <<>> PROVE put \in {0, ReplyLen}
    BY <2>1, SoundOps
  <2> QED
    BY <2>1 DEF RepliesWhole
<1> QED
  BY <1>1, IInvAlways, PTL

\* After the host has closed the line prints put two more characters at most, however
\* much is left to print, in the application and in the demos: cdc.c asks is_opened for
\* each character or pair of digits, and where the timer prints too nobody prints pairs.
THEOREM ClosedLineIsQuiet == Spec => []QuietWhenClosed
<1>1. IInv => QuietWhenClosed
  <2>1. ASSUME IInv PROVE late <= 2
    <3>1. \A calls : Asked(calls) \in Nat
      BY DEF Asked
    <3> QED
      BY <2>1, <3>1 DEF IInv, Shape, Bounded
  <2> QED
    BY <2>1 DEF QuietWhenClosed
<1> QED
  BY <1>1, IInvAlways, PTL
=============================================================================
