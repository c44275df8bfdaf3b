------------------------------- MODULE HostMsg --------------------------------
(***************************************************************************)
(* The conversions of app/host_msg_fifo.c.  A line is a sequence of bytes; *)
(* the helpers that put one together append to it, and those that take one *)
(* apart read hexadecimal digits.  Only hostMsg_addString looks for room.  *)
(***************************************************************************)
EXTENDS Integers, Sequences

HOST_MSG_BUF_SIZE == 200

Byte == 0 .. 255
\* The characters '0' and 'A'.
Zero     == 48
CapitalA == 65

hostMsg_addBuffer(msg, buf) == msg \o buf

\* What is too long is cut off: the last byte of the buffer stays free.
hostMsg_addString(msg, s) ==
    LET room == HOST_MSG_BUF_SIZE - 1 - Len(msg)
    IN  IF Len(s) <= room THEN msg \o s
        ELSE IF room <= 0 THEN msg ELSE msg \o SubSeq(s, 1, room)

\* table[n], "0123456789ABCDEF".
Digit(n) == IF n < 10 THEN Zero + n ELSE CapitalA + n - 10

hostMsg_addHex(msg, byte) == msg \o <<Digit(byte \div 16), Digit(byte % 16)>>

\* hostMsg_addHex of one byte after the other.
hostMsg_addHexBuffer(msg, buf) ==
    msg \o [i \in 1 .. 2 * Len(buf) |-> IF i % 2 = 1 THEN Digit(buf[(i + 1) \div 2] \div 16)
                                                     ELSE Digit(buf[i \div 2] % 16)]

\* Whatever is no digit, or a small letter, counts as 0.
scaleByteFromHex(byte) == IF byte \in Zero .. Zero + 9 THEN byte - Zero
                          ELSE IF byte \in CapitalA .. CapitalA + 5 THEN byte - CapitalA + 10
                          ELSE 0

hostMsg_hexToByte(high, low) == (16 * scaleByteFromHex(high)) + scaleByteFromHex(low)

\* What bytesbuf is afterwards; an odd length leaves it as it was.
hostMsg_hexBufferToBytes(hexbuf, bytesbuf) ==
    IF Len(hexbuf) % 2 = 1 THEN bytesbuf
    ELSE [i \in 1 .. Len(hexbuf) \div 2 |-> hostMsg_hexToByte(hexbuf[2 * i - 1], hexbuf[2 * i])]
=============================================================================
