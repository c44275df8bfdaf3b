-------------------------------- MODULE Radio --------------------------------
(***************************************************************************)
(* The radio driver (radio/RFM69.cpp behind radio/radio.cpp) on two nodes  *)
(* that hear each other, driven by the two programs of radio/main.c: one   *)
(* sends frames and polls for their acknowledgements, the other reads      *)
(* frames and acknowledges them.                                           *)
(*                                                                         *)
(* The driver is cut where its interrupt handler can come in.  What a      *)
(* node's main context has still to do is a stack of labels, `stk'; the    *)
(* handler runs to its end before the main context goes on.  It runs when  *)
(* an edge of DIO2 (the chip's FIFO is no longer empty) is pending and the *)
(* level of INT0 is HI.  Every access to the chip sets the level OFF       *)
(* (select) and then, whatever it was before, HI (unselect).               *)
(*                                                                         *)
(* With two nodes a frame that is not foreign comes from the other one, so *)
(* addresses are left out, and SENDERID is set and cleared with PAYLOADLEN.*)
(***************************************************************************)
EXTENDS Integers, Sequences

CONSTANTS S, R,       \* the sending and the receiving node
          MaxFrames,  \* bound of the model: frames sent, no more than RXFIFO holds
          MaxFaults   \* bound of the model: frames lost or corrupted on the air

ASSUME FramesAssumption == MaxFrames \in 1..4 /\ MaxFaults \in Nat
ASSUME NodesAssumption  == S # R

VARIABLES
  stk,       \* per node: the labels its main context has still to run
  mode,      \* _mode
  chip,      \* the mode the chip is in
  fifo,      \* what the chip's FIFO holds
  pending,   \* INT0's flag: an edge was seen and not served yet
  level,     \* PORT_INT0LVL
  mask,      \* INT0MASK holds DIO2's pin
  payload,   \* PAYLOADLEN > 0
  ackFlag,   \* ACK_RECEIVED
  cleared,   \* ACK_RECEIVED_CLEARED
  RXFIFO,    \* frames received and not read yet
  lost,      \* how many of R's its count of them, `stored', does not know of
  ret,       \* the value the last call returned
  sent, acked,   \* history of S: frames sent, acknowledgements counted
  taken, acks,   \* history of R: the last frame read, acknowledgements on the air
  faults         \* bound: frames lost or corrupted so far

chipVars == <<mode, chip, fifo>>
intVars  == <<pending, level, mask>>
regVars  == <<payload, ackFlag, cleared>>
history  == <<sent, acked, taken, acks, faults>>
vars     == <<stk, chipVars, intVars, regVars, RXFIFO, lost, ret, history>>

Node == {S, R}
Mode == {"STANDBY", "RX", "TX"}

\* What can be in a FIFO.  "bad": a foreign address, or a checksum that is
\* wrong.  "short": a length byte below 5.  "rest": bytes of such a frame that
\* nobody read.  "cut": the bytes of a frame whose reception was cut off.
Frame == [kind : {"none", "data", "ack", "bad", "short", "rest", "cut"}, no : 0..MaxFrames]
Nothing  == [kind |-> "none", no |-> 0]
Data(i)  == [kind |-> "data", no |-> i]
AckFrame == [kind |-> "ack",  no |-> 0]

\* initialize and setHighPower end in standby and in the registers of a power
\* amplifier, which is all that setupRadio leaves in the chip.
setupRadio == /\ mode = [n \in Node |-> "STANDBY"]
              /\ chip = [n \in Node |-> "STANDBY"]
              /\ fifo = [n \in Node |-> Nothing]

\* Interrupt armed, nothing received.
Init == /\ setupRadio
        /\ stk = [n \in Node |-> << <<"main">> >>]
        /\ pending = [n \in Node |-> FALSE]
        /\ level = [n \in Node |-> "HI"]
        /\ mask = [n \in Node |-> TRUE]
        /\ payload = [n \in Node |-> FALSE]
        /\ ackFlag = [n \in Node |-> FALSE]
        /\ cleared = [n \in Node |-> TRUE]
        /\ RXFIFO = [n \in Node |-> <<>>]
        /\ lost = 0
        /\ ret = [n \in Node |-> FALSE]
        /\ sent = 0 /\ acked = 0 /\ taken = 0 /\ acks = 0 /\ faults = 0

-----------------------------------------------------------------------------
(* Control. *)

\* The main context of n is at label op; a pending interrupt goes first.
At(n, op) == /\ stk[n] # <<>>
             /\ stk[n][1][1] = op
             /\ ~(pending[n] /\ level[n] = "HI")

\* The label is done; s is what it calls.
Goto(n, s) == stk' = [stk EXCEPT ![n] = s \o Tail(@)]

SetMode(m)  == << <<"set", m>> >>
ReceiveBegin == << <<"clear">>, <<"clearAck">>, <<"restart">> >> \o SetMode("RX") \o << <<"pin">> >>
ACKReceived == << <<"done">>, <<"ackTest">> >>
Send(f)     == << <<"send">>, <<"csma">>, <<"frame", f>> >>
simpleSendACK == Send(AckFrame)
SendFrame(f) == SetMode("STANDBY") \o << <<"fill", f>> >> \o SetMode("TX")
                  \o << <<"packetSent">> >> \o SetMode("STANDBY")

-----------------------------------------------------------------------------
(* setMode: nothing if _mode says so already; else the chip first, _mode    *)
(* afterwards.  The chip keeps its FIFO from RX to STANDBY, where what has  *)
(* begun to arrive is cut off, and clears it when it enters RX.  Between the *)
(* two setHighPowerRegs writes registers of the power amplifier: it selects  *)
(* the chip and lets go of it, and leaves what the write of the mode left.   *)

\* select and unselect: whatever the level was, it is HI now.
readReg(n) == level' = [level EXCEPT ![n] = "HI"]

ReadMode(n) == /\ At(n, "set")
               /\ LET m == stk[n][1][2]
                  IN  IF m = mode[n]
                      THEN Goto(n, <<>>) /\ UNCHANGED level
                      ELSE Goto(n, << <<"select", m>> >>) /\ readReg(n)
               /\ UNCHANGED <<chipVars, pending, mask, regVars, RXFIFO, lost, ret, history>>

\* Wrong on purpose: the interrupt stays enabled while the chip is selected.
SelectEnabled(n) == /\ At(n, "select")
                    /\ Goto(n, << <<"write", stk[n][1][2]>> >>)
                    /\ UNCHANGED <<chipVars, intVars, regVars, RXFIFO, lost, ret, history>>

Select(n) == /\ At(n, "select")
             /\ level' = [level EXCEPT ![n] = "OFF"]
             /\ Goto(n, << <<"write", stk[n][1][2]>> >>)
             /\ UNCHANGED <<chipVars, pending, mask, regVars, RXFIFO, lost, ret, history>>

AfterSwitch(f, m) == IF m = "RX" THEN Nothing
                     ELSE IF m = "STANDBY" /\ f.kind \in {"data", "ack", "bad", "short"}
                     THEN [f EXCEPT !.kind = "cut", !.no = 0] ELSE f

WriteMode(n) == /\ At(n, "write")
                /\ LET m == stk[n][1][2]
                   IN  /\ chip' = [chip EXCEPT ![n] = m]
                       /\ fifo' = [fifo EXCEPT ![n] = AfterSwitch(@, m)]
                       /\ Goto(n, << <<"mode", m>> >>)
                /\ level' = [level EXCEPT ![n] = "HI"]
                /\ UNCHANGED <<mode, pending, mask, regVars, RXFIFO, lost, ret, history>>

StoreMode(n) == /\ At(n, "mode")
                /\ mode' = [mode EXCEPT ![n] = stk[n][1][2]]
                /\ Goto(n, <<>>)
                /\ UNCHANGED <<chip, fifo, intVars, regVars, RXFIFO, lost, ret, history>>

-----------------------------------------------------------------------------
(* receiveBegin: the registers of the last frame one after the other, then  *)
(* the chip.  Reading IRQFLAGS2 is what sets the level HI again.            *)

ClearLength(n) == /\ At(n, "clear")
                  /\ payload' = [payload EXCEPT ![n] = FALSE]
                  /\ Goto(n, <<>>)
                  /\ UNCHANGED <<chipVars, intVars, ackFlag, cleared, RXFIFO, lost, ret, history>>

ClearAck(n) == /\ At(n, "clearAck")
               /\ ackFlag' = [ackFlag EXCEPT ![n] = FALSE]
               /\ Goto(n, <<>>)
               /\ UNCHANGED <<chipVars, intVars, payload, cleared, RXFIFO, lost, ret, history>>

\* RXRESTART drops the rest of a frame if PAYLOADREADY, that is if the frame was
\* all there when its rest was left.
RestartRx(n) == /\ At(n, "restart")
                /\ \/ UNCHANGED fifo
                   \/ fifo[n].kind = "rest" /\ fifo' = [fifo EXCEPT ![n] = Nothing]
                /\ readReg(n)
                /\ Goto(n, <<>>)
                /\ UNCHANGED <<mode, chip, pending, mask, regVars, RXFIFO, lost, ret, history>>

SetPin(n) == /\ At(n, "pin")
             /\ mask' = [mask EXCEPT ![n] = TRUE]
             /\ Goto(n, <<>>)
             /\ UNCHANGED <<chipVars, pending, level, regVars, RXFIFO, lost, ret, history>>

-----------------------------------------------------------------------------
(* Receiving, seen from the main context. *)

\* Wrong on purpose: when nothing has come the interrupt is left disabled.
receiveDoneDisabled(n) ==
    /\ At(n, "done")
    /\ level' = [level EXCEPT ![n] = "OFF"]
    /\ ret' = [ret EXCEPT ![n] = mode[n] = "RX" /\ payload[n]]
    /\ Goto(n, IF mode[n] # "RX" THEN ReceiveBegin
               ELSE IF payload[n] THEN SetMode("STANDBY") ELSE <<>>)
    /\ UNCHANGED <<chipVars, pending, mask, regVars, RXFIFO, lost, history>>

\* The level is OFF from the first line on; it is HI again when nothing has
\* come, and else with the first access to the chip.
receiveDone(n) ==
    /\ At(n, "done")
    /\ IF mode[n] = "RX" /\ ~payload[n]
       THEN Goto(n, <<>>) /\ UNCHANGED level
       ELSE /\ Goto(n, IF mode[n] = "RX" THEN SetMode("STANDBY") ELSE ReceiveBegin)
            /\ level' = [level EXCEPT ![n] = "OFF"]
    /\ ret' = [ret EXCEPT ![n] = mode[n] = "RX" /\ payload[n]]
    /\ UNCHANGED <<chipVars, pending, mask, regVars, RXFIFO, lost, history>>

\* Wrong on purpose: an acknowledgement that was remembered stays remembered.
AckTestUncleared(n) ==
    /\ At(n, "ackTest")
    /\ ret' = [ret EXCEPT ![n] = IF @ THEN ackFlag[n] ELSE ~cleared[n]]
    /\ Goto(n, IF ret[n] THEN <<>> ELSE ReceiveBegin)
    /\ UNCHANGED <<chipVars, intVars, regVars, RXFIFO, lost, history>>

\* ACKReceived after receiveDone: the frame is there (ret), or an acknowledgement
\* is remembered, or not; without a frame it listens again in any case.
AckTest(n) ==
    /\ At(n, "ackTest")
    /\ LET got == IF ret[n] THEN ackFlag[n] ELSE ~cleared[n]
       IN  /\ ret' = [ret EXCEPT ![n] = got]
           /\ cleared' = [cleared EXCEPT ![n] = @ \/ got]
    /\ Goto(n, IF ret[n] THEN <<>> ELSE ReceiveBegin)
    /\ UNCHANGED <<chipVars, intVars, payload, ackFlag, RXFIFO, lost, history>>

-----------------------------------------------------------------------------
(* Sending. *)

\* RXRESTART, "avoid RX deadlocks".
StartSend(n) == /\ At(n, "send")
                /\ fifo' = [fifo EXCEPT ![n] = Nothing]
                /\ Goto(n, <<>>)
                /\ UNCHANGED <<mode, chip, intVars, regVars, RXFIFO, lost, ret, history>>

Quiet(n) == \A o \in Node \ {n} : chip[o] # "TX"

\* canSend: the receiver is on, holds nothing and hears nothing.
CanSend(n) == /\ At(n, "csma") \/ At(n, "csmaAgain")
              /\ mode[n] = "RX" /\ ~payload[n] /\ Quiet(n)
              /\ Goto(n, SetMode("STANDBY"))
              /\ UNCHANGED <<chipVars, intVars, regVars, RXFIFO, lost, ret, history>>

\* Not yet: the receiver is not on, or holds something, or the air is busy.
Busy(n) == /\ At(n, "csma") \/ At(n, "csmaAgain")
           /\ Goto(n, << <<"done">>, <<"csmaAgain">> >>)
           /\ UNCHANGED <<chipVars, intVars, regVars, RXFIFO, lost, ret, history>>

\* RF69_CSMA_LIMIT_MS have passed: send all the same.
StopWaiting(n) == /\ At(n, "csmaAgain")
                  /\ Goto(n, <<>>)
                  /\ UNCHANGED <<chipVars, intVars, regVars, RXFIFO, lost, ret, history>>

\* sendFrame itself.
CallSendFrame(n) == /\ At(n, "frame")
                    /\ Goto(n, SendFrame(stk[n][1][2]))
                    /\ UNCHANGED <<chipVars, intVars, regVars, RXFIFO, lost, ret, history>>

\* The FIFO is filled with the device selected; DIO2 rises.  On top of bytes
\* that were left there, the frame is no frame.
Fill(n) == /\ At(n, "fill")
           /\ fifo' = [fifo EXCEPT ![n] = IF @ = Nothing THEN stk[n][1][2] ELSE [kind |-> "bad", no |-> 0]]
           /\ pending' = [pending EXCEPT ![n] = @ \/ (mask[n] /\ fifo[n] = Nothing)]
           /\ Goto(n, <<>>)
           /\ UNCHANGED <<mode, chip, level, mask, regVars, RXFIFO, lost, ret, history>>

\* PacketSent, the FIFO is empty again; or RF69_TX_LIMIT_MS have passed, and what
\* is still in it will not go out.
PacketSent(n) == /\ At(n, "packetSent")
                 /\ Goto(n, <<>>)
                 /\ UNCHANGED <<chipVars, intVars, regVars, RXFIFO, lost, ret, history>>

-----------------------------------------------------------------------------
(* The air.  A frame is heard when its first byte is in the other's FIFO: the *)
(* preamble leaves time for a receiver that has just been switched on to note *)
(* its mode, and only what arrives into an empty FIFO makes DIO2 rise.        *)

Listening(o) == chip[o] = "RX" /\ fifo[o] = Nothing /\ mode[o] = "RX"

Transmit(n) ==
    /\ chip[n] = "TX" /\ fifo[n] # Nothing
    /\ fifo[n].kind \in {"data", "ack", "bad"}
    /\ acks' = IF fifo[n].kind = "ack" THEN acks + 1 ELSE acks
    /\ \E o \in Node \ {n}, as \in {fifo[n].kind, "bad", "short", "none"} :
          /\ faults' = IF as = fifo[n].kind THEN faults ELSE faults + 1
          /\ faults' <= MaxFaults
          /\ IF Listening(o) /\ as # "none"
             THEN /\ fifo' = [fifo EXCEPT ![n] = Nothing,
                                          ![o] = IF as = fifo[n].kind THEN fifo[n] ELSE [kind |-> as, no |-> 0]]
                  /\ pending' = [pending EXCEPT ![o] = @ \/ mask[o]]
             ELSE fifo' = [fifo EXCEPT ![n] = Nothing] /\ UNCHANGED pending
    /\ UNCHANGED <<stk, mode, chip, level, mask, regVars, RXFIFO, lost, ret, sent, acked, taken>>

-----------------------------------------------------------------------------
(* The interrupt handler, from its first to its last line.  Whatever it does, *)
(* the level is HI and the pin is in the mask again when it returns.          *)

Served(n) == pending[n] /\ level[n] = "HI" /\ pending' = [pending EXCEPT ![n] = FALSE]

\* Not receiving, or nothing in the FIFO: only RSSI is read.
InterruptIgnored(n) ==
    /\ Served(n)
    /\ mode[n] # "RX" \/ fifo[n] = Nothing
    /\ UNCHANGED <<stk, chipVars, level, mask, regVars, RXFIFO, lost, ret, history>>

\* The chip has left RX, but _mode does not say so yet: the handler waits for
\* bytes that will not come, with the interrupt disabled.
InterruptStarves(n) ==
    /\ Served(n)
    /\ mode[n] = "RX" /\ fifo[n].kind = "cut"
    /\ stk' = [stk EXCEPT ![n] = << <<"starved">> >> \o @]
    /\ level' = [level EXCEPT ![n] = "OFF"]
    /\ mask' = [mask EXCEPT ![n] = FALSE]
    /\ UNCHANGED <<chipVars, regVars, RXFIFO, lost, ret, history>>

\* Standby, and what was in the FIFO goes when the chip is switched on again.
InterruptStandby(n) == /\ mode' = [mode EXCEPT ![n] = "STANDBY"]
                       /\ chip' = [chip EXCEPT ![n] = "STANDBY"]
                       /\ fifo' = [fifo EXCEPT ![n] = Nothing]

\* Wrong on purpose: the pin stays out of the mask.
InterruptShortMasked(n) ==
    /\ Served(n)
    /\ mode[n] = "RX" /\ fifo[n].kind = "short"
    /\ payload' = [payload EXCEPT ![n] = FALSE]
    /\ ackFlag' = [ackFlag EXCEPT ![n] = FALSE]
    /\ mask' = [mask EXCEPT ![n] = FALSE]
    /\ fifo' = [fifo EXCEPT ![n] = [kind |-> "rest", no |-> 0]]
    /\ UNCHANGED <<stk, mode, chip, level, cleared, RXFIFO, lost, ret, history>>

\* Less than five bytes: receiveBegin, but no change of mode that would clear the
\* FIFO.  RXRESTART does if all of the frame is there by then.
InterruptShort(n) ==
    /\ Served(n)
    /\ mode[n] = "RX" /\ fifo[n].kind = "short"
    /\ payload' = [payload EXCEPT ![n] = FALSE]
    /\ ackFlag' = [ackFlag EXCEPT ![n] = FALSE]
    /\ \/ fifo' = [fifo EXCEPT ![n] = [kind |-> "rest", no |-> 0]]
       \/ fifo' = [fifo EXCEPT ![n] = Nothing]
    /\ UNCHANGED <<stk, mode, chip, level, mask, cleared, RXFIFO, lost, ret, history>>

\* A foreign address, or a checksum that is wrong: standby and back.
InterruptBad(n) ==
    /\ Served(n)
    /\ mode[n] = "RX" /\ fifo[n].kind = "bad"
    /\ fifo' = [fifo EXCEPT ![n] = Nothing]
    /\ payload' = [payload EXCEPT ![n] = FALSE]
    /\ ackFlag' = [ackFlag EXCEPT ![n] = FALSE]
    /\ UNCHANGED <<stk, mode, chip, level, mask, cleared, RXFIFO, lost, ret, history>>

\* An acknowledgement is only remembered; the receiver stays off.
InterruptAck(n) ==
    /\ Served(n)
    /\ mode[n] = "RX" /\ fifo[n].kind = "ack"
    /\ InterruptStandby(n)
    /\ payload' = [payload EXCEPT ![n] = TRUE]
    /\ ackFlag' = [ackFlag EXCEPT ![n] = TRUE]
    /\ cleared' = [cleared EXCEPT ![n] = FALSE]
    /\ UNCHANGED <<stk, level, mask, RXFIFO, lost, ret, history>>

\* Wrong on purpose: the chip is left in RX, and in its FIFO the frame.
InterruptDataKept(n) ==
    /\ Served(n)
    /\ mode[n] = "RX" /\ fifo[n].kind = "data"
    /\ mode' = [mode EXCEPT ![n] = "STANDBY"]
    /\ payload' = [payload EXCEPT ![n] = TRUE]
    /\ ackFlag' = [ackFlag EXCEPT ![n] = FALSE]
    /\ RXFIFO' = [RXFIFO EXCEPT ![n] = Append(@, fifo[n].no)]
    /\ UNCHANGED <<stk, chip, fifo, level, mask, cleared, lost, ret, history>>

\* A frame for this node: the receiver stays off ...
DataHandled(n) ==
    /\ Served(n)
    /\ mode[n] = "RX" /\ fifo[n].kind = "data"
    /\ InterruptStandby(n)
    /\ payload' = [payload EXCEPT ![n] = TRUE]
    /\ ackFlag' = [ackFlag EXCEPT ![n] = FALSE]
    /\ UNCHANGED <<level, mask, cleared, ret>>

\* ... and the frame goes to RXFIFO.
InterruptData(n) ==
    /\ DataHandled(n)
    /\ RXFIFO' = [RXFIFO EXCEPT ![n] = Append(@, fifo[n].no)]
    /\ UNCHANGED <<stk, lost, history>>

interruptHandler(n) ==
    \/ InterruptIgnored(n) \/ InterruptStarves(n) \/ InterruptShort(n)
    \/ InterruptBad(n) \/ InterruptAck(n) \/ InterruptData(n)

-----------------------------------------------------------------------------
(* The programs. *)

\* S: the next frame, then the polling for its acknowledgement ...
SendNext == /\ At(S, "main")
            /\ sent < MaxFrames
            /\ sent' = sent + 1
            /\ Goto(S, Send(Data(sent + 1)) \o << <<"poll">> >>)
            /\ UNCHANGED <<chipVars, intVars, regVars, RXFIFO, lost, ret, acked, taken, acks, faults>>

Poll == /\ At(S, "poll")
        /\ Goto(S, ACKReceived \o << <<"polled">> >>)
        /\ UNCHANGED <<chipVars, intVars, regVars, RXFIFO, lost, ret, history>>

\* Wrong on purpose: a failure ends the program.
PollEndsAll == /\ At(S, "poll")
               /\ Goto(S, <<>>)
               /\ UNCHANGED <<chipVars, intVars, regVars, RXFIFO, lost, ret, history>>

\* ... until 50 ms have passed since the frame was begun ...
PollEnds == /\ At(S, "poll")
            /\ Goto(S, << <<"main">> >>)
            /\ UNCHANGED <<chipVars, intVars, regVars, RXFIFO, lost, ret, history>>

\* ... or the acknowledgement is there.
Polled == /\ At(S, "polled")
          /\ Goto(S, IF ret[S] THEN << <<"main">> >> ELSE << <<"poll">> >>)
          /\ acked' = IF ret[S] THEN acked + 1 ELSE acked
          /\ UNCHANGED <<chipVars, intVars, regVars, RXFIFO, lost, ret, sent, taken, acks, faults>>

fifo_isEmpty(n) == Len(RXFIFO[n]) <= lost
fifo_read(n)    == RXFIFO' = [RXFIFO EXCEPT ![n] = Tail(@)] /\ UNCHANGED lost

\* R: framesToRead, again and again ...
AskFrames == /\ At(R, "main")
             /\ Goto(R, << <<"done">>, <<"frames">> >>)
             /\ UNCHANGED <<chipVars, intVars, regVars, RXFIFO, lost, ret, history>>

NoFrames == /\ At(R, "frames")
            /\ fifo_isEmpty(R)
            /\ Goto(R, << <<"main">> >>)
            /\ UNCHANGED <<chipVars, intVars, regVars, RXFIFO, lost, ret, history>>

\* ... and each frame is read and acknowledged.
ReadFrame == /\ At(R, "frames")
             /\ ~fifo_isEmpty(R)
             /\ taken' = Head(RXFIFO[R])
             /\ fifo_read(R)
             /\ Goto(R, simpleSendACK \o << <<"main">> >>)
             /\ UNCHANGED <<chipVars, intVars, regVars, ret, sent, acked, acks, faults>>

\* The handler comes in within the `stored--' of fifo_read, and its `stored++' is
\* lost: the frame it has written stays behind until others come, and then one
\* of those does.
fifo_readRaced(n) == /\ RXFIFO' = [RXFIFO EXCEPT ![n] = Append(Tail(@), fifo[n].no)]
                     /\ lost' = lost + 1

ReadFrameRaced == /\ stk[R][1][1] = "frames"
                  /\ ~fifo_isEmpty(R)
                  /\ DataHandled(R)
                  /\ taken' = Head(RXFIFO[R])
                  /\ fifo_readRaced(R)
                  /\ Goto(R, simpleSendACK \o << <<"main">> >>)
                  /\ UNCHANGED <<sent, acked, acks, faults>>

Sender   == SendNext \/ Poll \/ PollEnds \/ Polled
Receiver == AskFrames \/ NoFrames \/ ReadFrame \/ ReadFrameRaced

Driver(n) == \/ ReadMode(n) \/ Select(n) \/ WriteMode(n) \/ StoreMode(n)
             \/ ClearLength(n) \/ ClearAck(n) \/ RestartRx(n) \/ SetPin(n)
             \/ receiveDone(n) \/ AckTest(n)
             \/ StartSend(n) \/ CanSend(n) \/ Busy(n) \/ StopWaiting(n)
             \/ CallSendFrame(n) \/ Fill(n) \/ PacketSent(n)

Next == \/ Sender \/ Receiver
        \/ \E n \in Node : Driver(n) \/ interruptHandler(n) \/ Transmit(n)

Spec == Init /\ [][Next]_vars

\* The processor goes on, and so does a chip that is sending.  Nothing is asked
\* of the 1000 ms, of the 50 ms or of the air.
FairSpec == /\ Spec
            /\ WF_vars(Sender \/ Driver(S) \/ interruptHandler(S))
            /\ WF_vars(Receiver \/ Driver(R) \/ interruptHandler(R))
            /\ \A n \in Node : WF_vars(Transmit(n))

-----------------------------------------------------------------------------
Op(n) == stk[n][1][1]

TypeOK == /\ \A n \in Node : stk[n] # <<>>
          /\ mode \in [Node -> Mode] /\ chip \in [Node -> Mode]
          /\ fifo \in [Node -> Frame]
          /\ pending \in [Node -> BOOLEAN] /\ mask \in [Node -> BOOLEAN]
          /\ level \in [Node -> {"HI", "OFF"}]
          /\ payload \in [Node -> BOOLEAN] /\ ackFlag \in [Node -> BOOLEAN]
          /\ cleared \in [Node -> BOOLEAN] /\ ret \in [Node -> BOOLEAN]
          /\ \A n \in Node : RXFIFO[n] \in Seq(1..MaxFrames)
          /\ lost \in 0..MaxFrames
          /\ sent \in 0..MaxFrames /\ acked \in 0..MaxFrames /\ taken \in 0..MaxFrames
          /\ acks \in 0..MaxFrames /\ faults \in 0..MaxFaults

\* _mode is what the chip does, but for the moment in which setMode has written
\* the one and not the other: every test of _mode in the driver rests on it.
ModeTracksChip == \A n \in Node : mode[n] = chip[n] \/ Op(n) \in {"mode", "starved"}

\* The sender counts no acknowledgement twice: the flag is set by the handler and
\* cleared by the polling, in two places, and no order of the two counts more
\* acknowledgements than were on the air.
AcksAreEarned == acked <= acks

\* The handler never uses the SPI while the main context has the chip selected.
SpiExclusive == [][\A n \in Node : Op(n) = "write" => ~(pending[n] /\ ~pending'[n])]_vars

\* No frame sits in the FIFO of a receiver unnoticed: what arrived has an interrupt
\* pending, whatever was masked, disabled or being handled when it came.
NoFrameUnnoticed == \A n \in Node : chip[n] = "RX" /\ fifo[n].kind \in {"data", "ack", "bad", "short"}
                                      => pending[n]

\* The two ways in which a receiver ends: the handler waits for bytes that do not
\* come, or the rest of a short frame keeps DIO2 high.
Starved(n) == Op(n) = "starved"
Deaf(n)    == mode[n] = "RX" /\ fifo[n].kind = "rest"

\* The receiver is on again and again, whatever the sender and the air do, unless
\* one of these two has happened to it.
KeepsListening == []<>(Listening(R) /\ level[R] = "HI" /\ mask[R]) \/ <>[]Starved(R) \/ <>[]Deaf(R)
=============================================================================
