------------------------------ MODULE UsbSerial ------------------------------
(***************************************************************************)
(* Printing and reading over USB (cdc/cdc.c), by the application and by    *)
(* the demos that talk to a person.  In the application the replies and    *)
(* the routing table are printed by the main loop, other lines by          *)
(* do_routing in the interrupt of the system timer, which the main loop    *)
(* waits for.  The interrupt of the USB controller has a higher level      *)
(* (UDD_USB_INT_LEVEL): between any two steps of both the host opens or    *)
(* closes the line, or takes what waits.                                   *)
(*                                                                         *)
(* A character is only counted.  What a context has still to do is a       *)
(* sequence of calls; a call that waits until there is room is a step that *)
(* needs it.  TxSize is what the two buffers of the USB stack hold.        *)
(***************************************************************************)
EXTENDS Integers, Sequences

CONSTANTS TxSize,    \* characters
          Text,      \* bound of the model: length of a literal text
          Digits,    \* bound of the model: lengths of a number
          ReplyLen   \* bound of the model: length of a reply

ASSUME TxAssumption     == TxSize \in Nat /\ TxSize >= 2
ASSUME LengthAssumption == /\ Text \in Nat \ {0} /\ ReplyLen \in Nat \ {0}
                           /\ Digits \subseteq Nat \ {0} /\ Digits # {}

VARIABLES
  is_opened,
  tx,        \* characters that wait for the host
  todo,      \* per context: the calls still to make
  program,   \* the application, or a demo, which has no timer
  put,       \* history: characters of the last reply put
  late       \* history: characters that prints put since the line was closed

vars == <<is_opened, tx, todo, program, put, late>>

Context == {"main", "timer"}
Program == {"app", "crypto", "radio", "routing", "sram"}

\* cdc_start; the line is closed.
Init == /\ is_opened = FALSE
        /\ tx = 0
        /\ todo = [c \in Context |-> <<>>]
        /\ program \in Program
        /\ put = 0
        /\ late = 0

-----------------------------------------------------------------------------
(* What the functions of cdc.c amount to.  "string", n: n characters to go,  *)
(* is_opened is asked for each; "read", n likewise.  "newline", "hex": it is   *)
(* asked once.  "raw", n: n calls of udi_cdc_putc itself.                      *)

cdc_write_string(n)     == << <<"string", n>> >>
cdc_newline             == << <<"newline", 1>> >>
cdc_write_line(n)       == cdc_write_string(n) \o cdc_newline
cdc_write_int(d)        == cdc_write_string(d)
cdc_log_int(n, d)       == cdc_write_string(n) \o cdc_write_int(d) \o cdc_newline
cdc_log_string(n, k)    == cdc_write_string(n) \o cdc_write_string(k) \o cdc_newline
cdc_write_hex           == << <<"hex", 2>> >>
cdc_write_hex_string(l) == [i \in 1..l |-> <<"hex", 2>>]
cdc_log_hex(n)          == cdc_write_string(n) \o cdc_write_hex \o cdc_newline
cdc_log_hex_string(n, l) == cdc_write_string(n) \o cdc_write_hex_string(l) \o cdc_newline
cdc_write_buffer(n)     == << <<"buffer", n>> >>
cdc_read_string(n)      == << <<"read", n>> >>
udi_cdc_getc            == << <<"getc", 0>> >>
udi_cdc_putc(n)         == << <<"raw", n>> >>

-----------------------------------------------------------------------------
(* What is printed. *)

debugPrintRoutingTableEntry(d) ==
    cdc_log_int(Text, d) \o cdc_log_int(Text, d) \o cdc_log_int(Text, 1) \o cdc_log_int(Text, d)

\* Entries that are not valid print nothing; here one or none is.
debugPrintRoutingTable == {<<>>} \cup {debugPrintRoutingTableEntry(d) : d \in Digits}

\* A packet is of one of five types, and prints its name.
debugPrintPacketHeader(d) ==
    cdc_write_line(Text) \o cdc_log_int(Text, d) \o cdc_log_int(Text, d)
      \o cdc_write_string(Text) \o cdc_write_string(Text) \o cdc_newline

\* The replies of host_tx_processQueue, and processDebug's "r".
processDebug == debugPrintRoutingTable
AppPrints    == {cdc_write_buffer(ReplyLen)} \cup processDebug

\* A demo asks for an address until it gets one that is valid.
AskAddress == {cdc_write_string(Text) \o cdc_read_string(3) \o cdc_newline \o answer :
                   answer \in {cdc_log_int(Text, d) : d \in Digits} \cup {cdc_write_line(Text)}}

\* radio/main.c goes on to ask for a mode, a single character.
RadioDemo == AskAddress \cup {cdc_write_string(Text) \o udi_cdc_getc}

\* routing/main.c prints what it receives.
RoutingDemo == AskAddress \cup {cdc_log_int(Text, 1) \o cdc_log_string(Text, Text) \o cdc_newline}

\* crypto/main.c, where keys, nonce and texts are two bytes long.
encrypt == cdc_write_string(Text)
             \o cdc_log_hex_string(Text, 2) \o cdc_log_hex_string(Text, 2)
             \o cdc_log_hex_string(Text, 2) \o cdc_log_hex_string(Text, 2)
             \o cdc_write_string(Text) \o cdc_read_string(2)
             \o cdc_log_string(Text, 2) \o cdc_log_hex_string(Text, 2) \o cdc_log_hex_string(Text, 2)

decrypt == cdc_read_string(2) \o cdc_read_string(2) \o cdc_read_string(2) \o cdc_read_string(2)
             \o cdc_log_string(Text, 2)

CryptoDemo == {udi_cdc_getc \o calls : calls \in {encrypt, decrypt, <<>>}}

\* sram/main.c, with texts of Text characters: byte mode, then three modes each
\* with a packet written and read back, two of them printed character by character.
SramDemo ==
    LET packet == cdc_newline \o cdc_write_line(Text) \o cdc_log_string(Text, Text)
    IN  {cdc_write_line(Text) \o cdc_write_line(Text) \o cdc_write_line(Text)
           \o cdc_log_hex(Text) \o cdc_log_hex(Text)
           \o packet \o cdc_log_string(Text, Text)
           \o packet \o cdc_write_line(Text) \o udi_cdc_putc(Text) \o cdc_newline
           \o packet \o cdc_write_line(Text) \o udi_cdc_putc(Text) \o cdc_newline}

\* One of these, again and again.
MainPrints == CASE program = "app"     -> AppPrints
                [] program = "crypto"  -> CryptoDemo
                [] program = "radio"   -> RadioDemo
                [] program = "routing" -> RoutingDemo
                [] program = "sram"    -> SramDemo

\* The prints of processSendQueue and, where they are compiled in (FORCE_HOPS,
\* PRINT_ROUTING_LOGS), of handleReceived.
TimerPrints == {cdc_write_line(Text)}
                 \cup {cdc_log_int(Text, d) : d \in Digits}
                 \cup {cdc_write_line(Text) \o debugPrintPacketHeader(d) : d \in Digits}

-----------------------------------------------------------------------------
(* The contexts.  A call that has asked is_opened becomes "put" or "pair"    *)
(* (room is all it waits for now) or "copy".                                   *)

Runs(c) == /\ todo[c] # <<>>
           /\ c = "main" => todo["timer"] = <<>>

At(c, op) == Runs(c) /\ todo[c][1][1] = op
Left(c)   == todo[c][1][2]

Goes(c, calls) == todo' = [todo EXCEPT ![c] = calls \o Tail(@)]

\* Print i characters: how many of them came after the line was closed.
Late(i) == late' = IF is_opened THEN late ELSE late + i

\* The end of the string, or a line that is closed now; else one character.
StringEnds(c) == /\ At(c, "string")
                 /\ Left(c) = 0 \/ ~is_opened
                 /\ Goes(c, <<>>)
                 /\ UNCHANGED <<is_opened, tx, program, put, late>>

\* Wrong on purpose: is_opened is asked before the first character only.
StringNextUnasked(c) == /\ At(c, "string")
                        /\ Left(c) > 0 /\ is_opened
                        /\ Goes(c, [i \in 1 .. Left(c) |-> <<"put", 1>>])
                        /\ UNCHANGED <<is_opened, tx, program, put, late>>

StringNext(c) == /\ At(c, "string")
                 /\ Left(c) > 0 /\ is_opened
                 /\ Goes(c, << <<"put", 1>>, <<"string", Left(c) - 1>> >>)
                 /\ UNCHANGED <<is_opened, tx, program, put, late>>

\* Wrong on purpose: the newline waits until the line is open.
NewlineWaits(c) == /\ At(c, "newline")
                   /\ is_opened
                   /\ Goes(c, << <<"put", 1>> >>)
                   /\ UNCHANGED <<is_opened, tx, program, put, late>>

Newline(c) == /\ At(c, "newline")
              /\ Goes(c, IF is_opened THEN << <<"put", 1>> >> ELSE <<>>)
              /\ UNCHANGED <<is_opened, tx, program, put, late>>

Hex(c) == /\ At(c, "hex")
          /\ Goes(c, IF is_opened THEN << <<"pair", 2>> >> ELSE <<>>)
          /\ UNCHANGED <<is_opened, tx, program, put, late>>

\* while (!udi_cdc_is_tx_ready()); udi_cdc_putc
Put(c) == /\ At(c, "put")
          /\ tx < TxSize
          /\ tx' = tx + 1
          /\ Late(1)
          /\ Goes(c, <<>>)
          /\ UNCHANGED <<is_opened, program, put>>

\* Room for two, then the first of them; the second waits for itself.
Pair(c) == /\ At(c, "pair")
           /\ TxSize - tx >= 2
           /\ tx' = tx + 1
           /\ Late(1)
           /\ Goes(c, << <<"put", 1>> >>)
           /\ UNCHANGED <<is_opened, program, put>>

\* udi_cdc_putc on its own: nobody asks whether the line is open.
PutRaw(c) == /\ At(c, "raw")
             /\ tx < TxSize
             /\ tx' = tx + 1
             /\ Goes(c, IF Left(c) = 1 THEN <<>> ELSE << <<"raw", Left(c) - 1>> >>)
             /\ UNCHANGED <<is_opened, program, put, late>>

\* cdc_read_string: its end, or a line that is closed now; else one character.
Read(c) == /\ At(c, "read")
           /\ Goes(c, IF Left(c) > 0 /\ is_opened THEN << <<"getc", Left(c)>> >> ELSE <<>>)
           /\ UNCHANGED <<is_opened, tx, program, put, late>>

\* Wrong on purpose: the reply is written like a string.
BufferAsString(c) == /\ At(c, "buffer")
                     /\ Goes(c, IF Left(c) > 0 /\ is_opened
                                THEN << <<"copy", 1>>, <<"buffer", Left(c) - 1>> >> ELSE <<>>)
                     /\ UNCHANGED <<is_opened, tx, program, put, late>>

Buffer(c) == /\ At(c, "buffer")
             /\ Goes(c, IF is_opened THEN << <<"copy", Left(c)>> >> ELSE <<>>)
             /\ UNCHANGED <<is_opened, tx, program, put, late>>

\* udi_cdc_write_buf copies what there is room for, again and again.
udi_cdc_write_buf(c) ==
    /\ At(c, "copy")
    /\ tx < TxSize
    /\ LET n == IF Left(c) < TxSize - tx THEN Left(c) ELSE TxSize - tx
       IN  /\ tx' = tx + n
           /\ put' = put + n
           /\ Goes(c, IF n = Left(c) THEN <<>> ELSE << <<"copy", Left(c) - n>> >>)
    /\ UNCHANGED <<is_opened, program, late>>

Step(c) == \/ StringEnds(c) \/ StringNext(c) \/ Newline(c) \/ Hex(c) \/ Put(c) \/ Pair(c)
           \/ PutRaw(c) \/ Read(c) \/ Buffer(c) \/ udi_cdc_write_buf(c)

\* The main loop has something to print.
MainPrint == /\ todo["main"] = <<>> /\ todo["timer"] = <<>>
             /\ \E p \in MainPrints : todo' = [todo EXCEPT !["main"] = p]
             /\ put' = 0
             /\ UNCHANGED <<is_opened, tx, program, late>>

\* The timer fires while the main loop prints, or waits, or does something else.
TimerPrint == /\ program = "app"
              /\ todo["timer"] = <<>>
              /\ \E p \in TimerPrints : todo' = [todo EXCEPT !["timer"] = p]
              /\ UNCHANGED <<is_opened, tx, program, put, late>>

-----------------------------------------------------------------------------
(* The host. *)

\* A character is typed, and udi_cdc_getc returns it: the last of a line, or not.
Type(c) == /\ At(c, "getc")
           /\ \/ Goes(c, <<>>)
              \/ Left(c) > 0 /\ Goes(c, << <<"read", Left(c) - 1>> >>)
           /\ UNCHANGED <<is_opened, tx, program, put, late>>

cdc_set_dtr(enable) == /\ is_opened # enable
                       /\ is_opened' = enable
                       /\ late' = 0
                       /\ UNCHANGED <<tx, todo, program, put>>

Take == /\ tx > 0
        /\ tx' \in 0 .. tx - 1
        /\ UNCHANGED <<is_opened, todo, program, put, late>>

Next == \/ MainPrint \/ TimerPrint \/ Take
        \/ \E c \in Context : Step(c) \/ Type(c)
        \/ \E enable \in BOOLEAN : cdc_set_dtr(enable)

Spec == Init /\ [][Next]_vars

\* The processor goes on; nothing is asked of the host.
FairSpec == Spec /\ \A c \in Context : WF_vars(Step(c))

-----------------------------------------------------------------------------
\* A reply is put as a whole or not at all, also when the host closes the line, or
\* opens it, while the reply waits for room or for the timer's own line: one that
\* was cut would run into the next line the host reads.
RepliesWhole == todo["main"] = <<>> => put \in {0, ReplyLen}

\* After the host has closed the line at most the character that each context had
\* decided to put is still put, or the two digits of a byte, however much was left
\* to print: cdc.c asks is_opened first and waits for room afterwards.
QuietWhenClosed == late <= 2

\* Every print ends, whenever the line is opened and closed, unless the host stops
\* taking characters: cdc.c then waits for room, in the interrupt too.  The main
\* loop can also wait for a character that is never typed, or be kept by the timer,
\* printing again and again.
HostStopped == tx >= TxSize - 1
PrintsEnd == /\ []<>(todo["timer"] = <<>>) \/ <>[]HostStopped
             /\ \/ []<>(todo["main"] = <<>>) \/ <>[]HostStopped
                \/ <>[](At("main", "getc")) \/ []<>(todo["timer"] # <<>>)
=============================================================================
