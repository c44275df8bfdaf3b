------------------------------ MODULE MCHostApp ------------------------------
(***************************************************************************)
(* The application for TLC: two nodes, whose first key pairs are numbers,  *)
(* so that they are not symmetric.  The lengths HostApp counts are held    *)
(* against the lines that HostMsg puts together.                           *)
(***************************************************************************)
EXTENDS HostApp

Msg == INSTANCE HostMsg

Buf(n) == [i \in 1 .. n |-> (37 * i) % 256]

\* HostApp counts the bytes that HostMsg puts together.
ASSUME LengthsAgree ==
    \A n \in 0 .. 40, len \in 0 .. 3 :
       /\ Len(Msg!hostMsg_addBuffer(Buf(len), Buf(n))) = hostMsg_addBuffer(len, n)
       /\ Len(Msg!hostMsg_addHexBuffer(Buf(len), Buf(n))) = hostMsg_addHexBuffer(len, n)

\* What HostMsg_proofs proves, on small cases.
ASSUME BytesComeBack ==
    /\ \A b \in Msg!Byte : LET hex == Msg!hostMsg_addHex(<<>>, b)
                           IN  Msg!hostMsg_hexToByte(hex[1], hex[2]) = b
    /\ \A n \in 0 .. 32 : Msg!hostMsg_hexBufferToBytes(Msg!hostMsg_addHexBuffer(<<>>, Buf(n)), <<>>) = Buf(n)
    /\ \A n \in 190 .. 199, k \in 0 .. 12 :
          Len(Msg!hostMsg_addString(Buf(n), Buf(k))) < Msg!HOST_MSG_BUF_SIZE
ASSUME BufferSizeAssumption == ReplySize = Msg!HOST_MSG_BUF_SIZE
=============================================================================
