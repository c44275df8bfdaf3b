---------------------------- MODULE Radio_proofs -----------------------------
(***************************************************************************)
(* What holds of the radio driver wherever the interrupts come in and      *)
(* whatever is lost or corrupted.                                          *)
(***************************************************************************)
EXTENDS Radio, SequenceTheorems, TLAPS

-----------------------------------------------------------------------------
(* Stacks.  A label tells which labels can come after it, and with that what *)
(* the main context has still to do.                                         *)

Switching == {"set", "select", "write", "mode"}
Ends      == {"main", "poll", "polled", "frames"}
Others    == {"done", "ackTest", "clear", "clearAck", "restart", "pin",
              "send", "csma", "csmaAgain", "packetSent", "starved"}

\* The frames node n sends.
Own(n) == IF n = S THEN {Data(i) : i \in 1 .. MaxFrames} ELSE {AckFrame}

Label(n) ==      {<<o>> : o \in Ends \cup Others}
            \cup {<<o, m>> : o \in Switching, m \in Mode}
            \cup {<<o, f>> : o \in {"frame", "fill"}, f \in Own(n)}

Follows(a, b) ==
    \/ a[1] \in Switching /\ a[2] = "RX" /\ b[1] = "pin"
    \/ a[1] \in Switching /\ a[2] = "TX" /\ b[1] = "packetSent"
    \/ /\ a[1] \in Switching /\ a[2] = "STANDBY"
       /\ b[1] \in {"fill", "frame", "csmaAgain", "ackTest", "main", "poll", "frames"}
    \/ a[1] = "clear"    /\ b[1] = "clearAck"
    \/ a[1] = "clearAck" /\ b[1] = "restart"
    \/ a[1] = "restart"  /\ b = <<"set", "RX">>
    \/ a[1] = "pin"      /\ b[1] \in {"csmaAgain", "ackTest", "polled", "frames"}
    \/ a[1] = "done"     /\ b[1] \in {"csmaAgain", "ackTest", "frames"}
    \/ a[1] = "ackTest"     /\ b[1] = "polled"
    \/ a[1] = "send"     /\ b[1] = "csma"
    \/ a[1] \in {"csma", "csmaAgain"} /\ b[1] = "frame"
    \/ a[1] = "frame"    /\ b[1] \in {"main", "poll"}
    \/ a[1] = "fill"     /\ b = <<"set", "TX">>
    \/ a[1] = "packetSent"    /\ b = <<"set", "STANDBY">>
    \/ a[1] = "starved"

Linked(q) == \A i \in 1 .. Len(q) - 1 : Follows(q[i], q[i + 1])

Holds(q, op) == \E i \in 1 .. Len(q) : q[i][1] = op
Owing(q)     == \E i \in 1 .. Len(q) : q[i][1] \in {"frame", "fill"}
OweOne(q)    == \A i, j \in 1 .. Len(q) : q[i][1] \in {"frame", "fill"} /\ q[j][1] \in {"frame", "fill"} => i = j

\* Whoever asks for an acknowledgement is not sending.
Sending == {"fill", "frame", "csmaAgain", "main", "poll", "frames"}
AsksOnly(q) == Holds(q, "ackTest") => \A i \in 1 .. Len(q) : q[i][1] \notin Sending

Stack(n) == {q \in Seq(Label(n)) : /\ q # <<>> /\ q[Len(q)][1] \in Ends
                                   /\ Linked(q) /\ OweOne(q) /\ AsksOnly(q)}

-----------------------------------------------------------------------------
(* The invariant. *)

Top(n) == stk[n][1]

Shape == /\ stk = [n \in Node |-> stk[n]] /\ \A n \in Node : stk[n] \in Stack(n)
         /\ mode \in [Node -> Mode] /\ chip \in [Node -> Mode] /\ fifo \in [Node -> Frame]
         /\ pending \in [Node -> BOOLEAN] /\ mask \in [Node -> BOOLEAN]
         /\ level \in [Node -> {"HI", "OFF"}]
         /\ payload \in [Node -> BOOLEAN] /\ ackFlag \in [Node -> BOOLEAN]
         /\ cleared \in [Node -> BOOLEAN] /\ ret \in [Node -> BOOLEAN]
         /\ RXFIFO \in [Node -> Seq(1 .. MaxFrames)] /\ lost \in 0 .. Len(RXFIFO[R])
         /\ sent \in 0 .. MaxFrames /\ taken \in 0 .. MaxFrames /\ faults \in 0 .. MaxFaults
         /\ acked \in Nat /\ acks \in Nat

\* What the main context is about to do tells how _mode and the chip stand.
Tracks(n) ==
    LET t == Top(n)
    IN  /\ t[1] \notin {"mode", "starved"} => mode[n] = chip[n]
        /\ t[1] = "mode" => /\ chip[n] = t[2]
                            /\ mode[n] = "RX" => /\ t[2] = "STANDBY"
                                                 /\ fifo[n].kind \in {"none", "cut", "rest"}
        /\ t[1] \in {"select", "write"} /\ t[2] = "RX" => mode[n] # "RX"
        /\ t[1] \in {"set", "select", "write"} /\ t[2] = "TX" => mode[n] = "STANDBY"
        /\ t[1] = "fill" => mode[n] = "STANDBY"
        /\ t[1] = "starved" => chip[n] = "STANDBY" /\ level[n] = "OFF"
        /\ t[1] = "write" => level[n] = "OFF"
        /\ ~mask[n] => t[1] = "starved"

\* What is in the FIFO: what node n sends, or what it heard.
Heard(n) == IF n = S THEN "ack" ELSE "data"
Sends(n) == IF n = S THEN "data" ELSE "ack"
Holding(n) ==
    /\ fifo[n].kind = "data" => fifo[n].no \in 1 .. MaxFrames
    /\ fifo[n].kind = Heard(n) => chip[n] = "RX"
    /\ fifo[n].kind \in {Sends(n), "cut"} => chip[n] # "RX"
    /\ chip[n] = "RX" /\ mode[n] # "RX" => fifo[n] = Nothing
    /\ chip[n] = "RX" /\ fifo[n].kind \in {"data", "ack", "bad", "short"} => pending[n]

\* A flag that was counted is cleared before it could be counted again.
Stale == ackFlag[S] /\ cleared[S]
Asking == ret[S] /\ Holds(stk[S], "ackTest")
Counting ==
    LET t == Top(S)
    IN  /\ Stale /\ mode[S] = "RX" => t[1] \in {"clear", "clearAck"}
        /\ Stale => t[1] # "restart" /\ ~(t[1] \in Switching /\ t[2] = "RX")
        /\ Stale /\ Asking => t[1] = "done"
        /\ Asking => \/ t[1] \in {"done", "ackTest", "starved"}
                     \/ t[1] \in Switching /\ t[2] = "STANDBY"
        /\ Asking /\ t[1] = "ackTest" => mode[S] # "RX"

\* An acknowledgement is in the FIFO, remembered, or found but not counted yet.
Found == ret[S] /\ stk[S][Len(stk[S])][1] = "polled" /\ ~Holds(stk[S], "ackTest")
Uncounted  == IF Found THEN 1 ELSE 0
Remembered == IF cleared[S] THEN 0 ELSE 1
AckAtS     == IF fifo[S].kind = "ack" THEN 1 ELSE 0
Earned     == acked + Uncounted + Remembered + AckAtS <= acks

\* A frame is on its way to R, in RXFIFO, or its acknowledgement is on its way.
AckAtR  == IF fifo[R].kind = "ack" THEN 1 ELSE 0
DataAtR == IF fifo[R].kind = "data" THEN 1 ELSE 0
DataAtS == IF fifo[S].kind = "data" THEN 1 ELSE 0
AckDue  == IF Owing(stk[R]) THEN 1 ELSE 0
DataDue == IF Owing(stk[S]) THEN 1 ELSE 0
Queued  == Len(RXFIFO[R])
Acks    == acks + AckAtR + AckDue
AtR     == Queued + DataAtR
OnWay   == DataAtS + DataDue
Carried == Acks + AtR + OnWay <= sent

IInv == Shape /\ (\A n \in Node : Tracks(n) /\ Holding(n)) /\ Counting /\ Earned /\ Carried

-----------------------------------------------------------------------------
(* Lemmas about stacks. *)

\* From stack q to stack p, the same frame is to be sent and the same is asked.
Keeps(q, p) == /\ p[Len(p)] = q[Len(q)]
               /\ Owing(p) <=> Owing(q)
               /\ Holds(p, "ackTest") <=> Holds(q, "ackTest")

LEMMA TailOf ==
  ASSUME NEW n, NEW q \in Stack(n), q[1][1] \notin Ends
  PROVE  /\ Len(q) \in Nat /\ Len(q) >= 2 /\ Tail(q) \in Seq(Label(n)) /\ Len(Tail(q)) = Len(q) - 1
         /\ \A i \in 1 .. Len(q) - 1 : Tail(q)[i] = q[i + 1]
         /\ \A i \in 1 .. Len(q) : q[i] \in Label(n)
         /\ Follows(q[1], q[2])
<1>1. q \in Seq(Label(n)) /\ Len(q) \in Nat /\ q # <<>> /\ q[Len(q)][1] \in Ends /\ Linked(q)
  BY DEF Stack
<1>2. Len(q) >= 2
  BY <1>1
<1>3. Tail(q) \in Seq(Label(n)) /\ Len(Tail(q)) = Len(q) - 1
  BY <1>1
<1>4. \A i \in 1 .. Len(q) - 1 : Tail(q)[i] = q[i + 1]
  BY <1>1
<1>5. \A i \in 1 .. Len(q) : q[i] \in Label(n)
  BY <1>1
<1>6. Follows(q[1], q[2])
  BY <1>1, <1>2 DEF Linked
<1> QED
  BY <1>1, <1>2, <1>3, <1>4, <1>5, <1>6

\* A label that is done gives way to the next one.
LEMMA PopStack ==
  ASSUME NEW n, NEW q \in Stack(n), q[1][1] \notin Ends
  PROVE  /\ Tail(q) \in Stack(n) /\ Tail(q)[1] = q[2] /\ Follows(q[1], q[2])
         /\ Tail(q)[Len(Tail(q))] = q[Len(q)]
         /\ Owing(q) <=> q[1][1] \in {"frame", "fill"} \/ Owing(Tail(q))
         /\ q[1][1] \in {"frame", "fill"} => ~Owing(Tail(q))
         /\ \A op : Holds(q, op) <=> q[1][1] = op \/ Holds(Tail(q), op)
<1> DEFINE p == Tail(q)
<1>1. /\ Len(q) \in Nat /\ Len(q) >= 2 /\ p \in Seq(Label(n)) /\ Len(p) = Len(q) - 1
      /\ \A i \in 1 .. Len(q) - 1 : p[i] = q[i + 1]
      /\ Follows(q[1], q[2])
  BY TailOf
<1>2. Linked(q) /\ OweOne(q) /\ q[Len(q)][1] \in Ends
  BY DEF Stack
<1> HIDE DEF p
<1>3. p # <<>> /\ p[1] = q[2] /\ p[Len(p)] = q[Len(q)]
  BY <1>1
<1>4. Linked(p)
  BY <1>1, <1>2 DEF Linked
<1>5. OweOne(p)
  <2> SUFFICES ASSUME NEW i \in 1 .. Len(p), NEW j \in 1 .. Len(p),
                      p[i][1] \in {"frame", "fill"} /\ p[j][1] \in {"frame", "fill"}
               PROVE  i = j
    BY DEF OweOne
  <2>1. i + 1 \in 1 .. Len(q) /\ j + 1 \in 1 .. Len(q) /\ p[i] = q[i + 1] /\ p[j] = q[j + 1]
    BY <1>1
  <2>2. i + 1 = j + 1
    BY <1>2, <2>1 DEF OweOne
  <2> QED
    BY <1>1, <2>2
<1>6. Owing(q) <=> q[1][1] \in {"frame", "fill"} \/ Owing(p)
  <2>1. Owing(p) => Owing(q)
    BY <1>1 DEF Owing
  <2>2. q[1][1] \in {"frame", "fill"} => Owing(q)
    BY <1>1 DEF Owing
  <2>3. ASSUME NEW i \in 1 .. Len(q), q[i][1] \in {"frame", "fill"}, i # 1 PROVE Owing(p)
    <3>1. i - 1 \in 1 .. Len(p) /\ p[i - 1] = q[i]
      BY <1>1, <2>3
    <3> QED
      BY <2>3, <3>1 DEF Owing
  <2> QED
    BY <2>1, <2>2, <2>3 DEF Owing
<1>7. q[1][1] \in {"frame", "fill"} => ~Owing(p)
  <2> SUFFICES ASSUME q[1][1] \in {"frame", "fill"}, NEW i \in 1 .. Len(p), p[i][1] \in {"frame", "fill"}
               PROVE  FALSE
    BY DEF Owing
  <2>1. i + 1 \in 1 .. Len(q) /\ 1 \in 1 .. Len(q) /\ i + 1 # 1 /\ p[i] = q[i + 1]
    BY <1>1
  <2> QED
    BY <1>2, <2>1 DEF OweOne
<1>8. ASSUME NEW op PROVE Holds(q, op) <=> q[1][1] = op \/ Holds(p, op)
  <2>1. Holds(p, op) => Holds(q, op)
    BY <1>1 DEF Holds
  <2>2. q[1][1] = op => Holds(q, op)
    BY <1>1 DEF Holds
  <2>3. ASSUME NEW i \in 1 .. Len(q), q[i][1] = op, i # 1 PROVE Holds(p, op)
    <3>1. i - 1 \in 1 .. Len(p) /\ p[i - 1] = q[i]
      BY <1>1, <2>3
    <3> QED
      BY <2>3, <3>1 DEF Holds
  <2> QED
    BY <2>1, <2>2, <2>3 DEF Holds
<1>9. p \in Stack(n)
  <2>1. AsksOnly(p)
    <3> SUFFICES ASSUME Holds(p, "ackTest"), NEW i \in 1 .. Len(p) PROVE p[i][1] \notin Sending
      BY DEF AsksOnly
    <3>1. i + 1 \in 1 .. Len(q) /\ p[i] = q[i + 1]
      BY <1>1
    <3> QED
      BY <1>8, <3>1 DEF Stack, AsksOnly
  <2> QED
    BY <1>1, <1>2, <1>3, <1>4, <1>5, <2>1 DEF Stack
<1> QED
  BY <1>1, <1>3, <1>6, <1>7, <1>8, <1>9 DEF p

\* A label is put on top of a stack.
LEMMA PushStack ==
  ASSUME NEW n, NEW p \in Stack(n), NEW x \in Label(n), Follows(x, p[1]),
         x[1] \in {"frame", "fill"} => ~Owing(p),
         x[1] \in Sending => ~Holds(p, "ackTest"),
         x[1] = "ackTest" => \A i \in 1 .. Len(p) : p[i][1] \notin Sending
  PROVE  /\ <<x>> \o p \in Stack(n) /\ (<<x>> \o p)[1] = x
         /\ (<<x>> \o p)[Len(<<x>> \o p)] = p[Len(p)]
         /\ Owing(<<x>> \o p) <=> x[1] \in {"frame", "fill"} \/ Owing(p)
         /\ \A op : Holds(<<x>> \o p, op) <=> x[1] = op \/ Holds(p, op)
<1> DEFINE q == <<x>> \o p
<1>1. p \in Seq(Label(n)) /\ Len(p) \in Nat /\ p # <<>> /\ p[Len(p)][1] \in Ends /\ Linked(p) /\ OweOne(p)
  BY DEF Stack
<1>2. q \in Seq(Label(n)) /\ Len(q) = Len(p) + 1 /\ q[1] = x
  BY <1>1
<1>3. \A i \in 2 .. Len(p) + 1 : q[i] = p[i - 1]
  BY <1>1
<1>4. Len(p) >= 1
  BY <1>1
<1> HIDE DEF q
<1>5. q # <<>> /\ q[Len(q)] = p[Len(p)]
  BY <1>1, <1>2, <1>3, <1>4
<1>6. Linked(q)
  <2> SUFFICES ASSUME NEW i \in 1 .. Len(q) - 1 PROVE Follows(q[i], q[i + 1])
    BY DEF Linked
  <2>1. CASE i = 1
    <3>1. 2 \in 2 .. Len(p) + 1
      BY <1>1, <1>4
    <3>2. q[2] = p[1]
      BY <1>3, <3>1
    <3> QED
      BY <1>2, <2>1, <3>2
  <2>2. CASE i # 1
    <3>1. i \in 2 .. Len(p) + 1 /\ i + 1 \in 2 .. Len(p) + 1 /\ i - 1 \in 1 .. Len(p) - 1
      BY <1>1, <1>2, <2>2
    <3>2. q[i] = p[i - 1] /\ q[i + 1] = p[(i - 1) + 1]
      BY <1>3, <3>1
    <3>3. Follows(p[i - 1], p[(i - 1) + 1])
      BY <1>1, <3>1 DEF Linked
    <3> QED
      BY <3>2, <3>3
  <2> QED
    BY <2>1, <2>2
<1>7. ASSUME NEW i \in 1 .. Len(q) PROVE (i = 1 /\ q[i] = x) \/ (i # 1 /\ i - 1 \in 1 .. Len(p) /\ q[i] = p[i - 1])
  <2>1. i = 1 \/ i \in 2 .. Len(p) + 1
    BY <1>1, <1>2
  <2> QED
    BY <1>1, <1>2, <1>3, <2>1
<1>8. ASSUME NEW i \in 1 .. Len(p) PROVE i + 1 \in 1 .. Len(q) /\ q[i + 1] = p[i]
  <2>1. i + 1 \in 2 .. Len(p) + 1 /\ (i + 1) - 1 = i
    BY <1>1
  <2> QED
    BY <1>2, <1>3, <2>1
<1>9. 1 \in 1 .. Len(q)
  BY <1>1, <1>2
<1>10. OweOne(q)
  <2> SUFFICES ASSUME NEW i \in 1 .. Len(q), NEW j \in 1 .. Len(q),
                      q[i][1] \in {"frame", "fill"} /\ q[j][1] \in {"frame", "fill"}
               PROVE  i = j
    BY DEF OweOne
  <2>1. CASE i # 1 /\ j # 1
    <3>1. i - 1 = j - 1
      BY <1>1, <1>7, <2>1 DEF OweOne
    <3> QED
      BY <3>1
  <2>2. CASE i = 1 /\ j # 1
    BY <1>7, <2>2 DEF Owing
  <2>3. CASE i # 1 /\ j = 1
    BY <1>7, <2>3 DEF Owing
  <2> QED
    BY <2>1, <2>2, <2>3
<1>11. Owing(q) <=> x[1] \in {"frame", "fill"} \/ Owing(p)
  <2>1. Owing(p) => Owing(q)
    BY <1>8 DEF Owing
  <2>2. x[1] \in {"frame", "fill"} => Owing(q)
    BY <1>2, <1>9 DEF Owing
  <2>3. Owing(q) => x[1] \in {"frame", "fill"} \/ Owing(p)
    BY <1>7 DEF Owing
  <2> QED
    BY <2>1, <2>2, <2>3
<1>12. ASSUME NEW op PROVE Holds(q, op) <=> x[1] = op \/ Holds(p, op)
  <2>1. Holds(p, op) => Holds(q, op)
    BY <1>8 DEF Holds
  <2>2. x[1] = op => Holds(q, op)
    BY <1>2, <1>9 DEF Holds
  <2>3. Holds(q, op) => x[1] = op \/ Holds(p, op)
    BY <1>7 DEF Holds
  <2> QED
    BY <2>1, <2>2, <2>3
<1>13. q \in Stack(n)
  <2>1. AsksOnly(q)
    <3> SUFFICES ASSUME Holds(q, "ackTest"), NEW i \in 1 .. Len(q) PROVE q[i][1] \notin Sending
      BY DEF AsksOnly
    <3>1. CASE i = 1
      BY <1>7, <1>12, <3>1 DEF Sending
    <3>2. CASE i # 1
      BY <1>7, <1>12, <3>2 DEF Stack, AsksOnly
    <3> QED
      BY <3>1, <3>2
  <2> QED
    BY <1>1, <1>2, <1>5, <1>6, <1>10, <2>1 DEF Stack
<1> QED
  BY <1>2, <1>5, <1>11, <1>12, <1>13 DEF q

\* The programs start from a stack of one label.
LEMMA LastLabel ==
  ASSUME NEW n, NEW x \in Label(n), x[1] \in Ends
  PROVE  /\ <<x>> \in Stack(n) /\ <<x>>[1] = x /\ <<x>>[Len(<<x>>)] = x
         /\ ~Owing(<<x>>)
         /\ \A op : Holds(<<x>>, op) <=> x[1] = op
BY DEF Stack, Linked, OweOne, AsksOnly, Owing, Holds, Ends

\* The end of a stack has nothing below it.
LEMMA EndIsAll ==
  ASSUME NEW n, NEW q \in Stack(n), q[1][1] \in Ends
  PROVE  q = <<q[1]>> /\ Tail(q) = <<>>
<1>1. q \in Seq(Label(n)) /\ Len(q) \in Nat /\ q # <<>> /\ Linked(q)
  BY DEF Stack
<1>2. Len(q) = 1
  <2> SUFFICES ASSUME Len(q) # 1 PROVE FALSE
    OBVIOUS
  <2>1. 1 \in 1 .. Len(q) - 1
    <3>1. Len(q) \in Nat \ {0}
      BY <1>1, EmptySeq
    <3>2. \A k \in Nat \ {0} : k # 1 => 1 \in 1 .. k - 1
      OBVIOUS
    <3> QED
      BY <3>1, <3>2
  <2>2. Follows(q[1], q[1 + 1])
    BY <1>1, <2>1 DEF Linked
  <2> QED
    BY <2>2 DEF Follows, Ends, Switching
<1>3. q = <<q[1]>>
  <2>1. q[1] \in Label(n)
    BY <1>1, <1>2
  <2>2. <<q[1]>> \in Seq(Label(n)) /\ Len(<<q[1]>>) = 1 /\ <<q[1]>>[1] = q[1]
    BY <2>1
  <2>3. \A i \in 1 .. 1 : q[i] = <<q[1]>>[i]
    BY <2>2
  <2> QED
    BY <1>1, <1>2, <2>2, <2>3, SeqEqual
<1>4. Tail(q) = <<>>
  <2>1. Tail(q) \in Seq(Label(n)) /\ Len(Tail(q)) = 0
    BY <1>1, <1>2, HeadTailProperties
  <2> QED
    BY <2>1, EmptySeq
<1> QED
  BY <1>3, <1>4

LEMMA KeepPush ==
  ASSUME NEW n, NEW p \in Stack(n), NEW x \in Label(n), Follows(x, p[1]),
         x[1] \notin Sending \cup {"ackTest"}
  PROVE  <<x>> \o p \in Stack(n) /\ (<<x>> \o p)[1] = x /\ Keeps(p, <<x>> \o p)
BY PushStack DEF Keeps, Sending

LEMMA KeepPop ==
  ASSUME NEW n, NEW q \in Stack(n), q[1][1] \notin Ends \cup {"frame", "fill", "ackTest"}
  PROVE  Tail(q) \in Stack(n) /\ Tail(q)[1] = q[2] /\ Follows(q[1], q[2]) /\ Keeps(q, Tail(q))
<1>1. q[1][1] \notin Ends /\ q[1][1] \notin {"frame", "fill"} /\ q[1][1] # "ackTest"
  OBVIOUS
<1> QED
  BY <1>1, PopStack DEF Keeps

LEMMA KeepsIsTransitive ==
  ASSUME NEW p, NEW q, NEW r, Keeps(p, q), Keeps(q, r)
  PROVE  Keeps(p, r)
BY DEF Keeps

LEMMA Two ==
  ASSUME NEW T, NEW a \in T, NEW b \in T, NEW p \in Seq(T)
  PROVE  <<a, b>> \o p = <<a>> \o (<<b>> \o p)
<1>1. <<a>> \in Seq(T) /\ Len(<<a>>) = 1 /\ <<a>>[1] = a
  OBVIOUS
<1>2. <<b>> \in Seq(T) /\ Len(<<b>>) = 1 /\ <<b>>[1] = b
  OBVIOUS
<1>3. <<a, b>> \in Seq(T) /\ Len(<<a, b>>) = 2 /\ <<a, b>>[1] = a /\ <<a, b>>[2] = b
  OBVIOUS
<1> DEFINE s == <<a>>
           t == <<b>>
           u == <<a, b>>
           v == s \o t
<1> HIDE DEF s, t, u
<1>4. /\ v \in Seq(T) /\ Len(v) = 2
      /\ \A i \in 1 .. 2 : v[i] = IF i <= 1 THEN s[i] ELSE t[i - 1]
  BY <1>1, <1>2, ConcatProperties DEF s, t
<1> HIDE DEF v
<1>5. v[1] = a /\ v[2] = b
  BY <1>1, <1>2, <1>4 DEF s, t
<1>6. \A i \in 1 .. 2 : u[i] = v[i]
  BY <1>3, <1>5 DEF u
<1>7. u = v
  BY <1>3, <1>4, <1>6, SeqEqual DEF u
<1> QED
  BY <1>1, <1>2, <1>7, ConcatAssociative DEF s, t, u, v

LEMMA Three ==
  ASSUME NEW T, NEW a \in T, NEW b \in T, NEW c \in T, NEW p \in Seq(T)
  PROVE  <<a, b, c>> \o p = <<a>> \o (<<b>> \o (<<c>> \o p))
<1>1. <<a>> \in Seq(T) /\ Len(<<a>>) = 1 /\ <<a>>[1] = a
  OBVIOUS
<1>2. <<b, c>> \in Seq(T) /\ Len(<<b, c>>) = 2 /\ <<b, c>>[1] = b /\ <<b, c>>[2] = c
  OBVIOUS
<1>3. <<a, b, c>> \in Seq(T) /\ Len(<<a, b, c>>) = 3
      /\ <<a, b, c>>[1] = a /\ <<a, b, c>>[2] = b /\ <<a, b, c>>[3] = c
  OBVIOUS
<1> DEFINE s == <<a>>
           t == <<b, c>>
           u == <<a, b, c>>
           v == s \o t
<1> HIDE DEF s, t, u
<1>4. /\ v \in Seq(T) /\ Len(v) = 3
      /\ \A i \in 1 .. 3 : v[i] = IF i <= 1 THEN s[i] ELSE t[i - 1]
  BY <1>1, <1>2, ConcatProperties DEF s, t
<1> HIDE DEF v
<1>5. v[1] = a /\ v[2] = b /\ v[3] = c
  BY <1>1, <1>2, <1>4 DEF s, t
<1>6. \A i \in 1 .. 3 : u[i] = v[i]
  BY <1>3, <1>5 DEF u
<1>7. u = v
  BY <1>3, <1>4, <1>6, SeqEqual DEF u
<1>8. u \o p = s \o (t \o p)
  BY <1>1, <1>2, <1>7, ConcatAssociative DEF s, t, v
<1>9. t \o p = <<b>> \o (<<c>> \o p)
  BY Two DEF t
<1> QED
  BY <1>8, <1>9 DEF s, t, u

LEMMA Labels ==
  ASSUME NEW n
  PROVE  /\ \A o \in Ends \cup Others : <<o>> \in Label(n)
         /\ \A o \in Switching, m \in Mode : <<o, m>> \in Label(n)
         /\ \A f \in Own(n) : <<"frame", f>> \in Label(n) /\ <<"fill", f>> \in Label(n)
<1>1. \A o \in Ends \cup Others : <<o>> \in {<<p>> : p \in Ends \cup Others}
  OBVIOUS
<1>2. \A o \in Switching, m \in Mode : <<o, m>> \in {<<p, l>> : p \in Switching, l \in Mode}
  OBVIOUS
<1>3. \A f \in Own(n), o \in {"frame", "fill"} : <<o, f>> \in {<<p, g>> : p \in {"frame", "fill"}, g \in Own(n)}
  OBVIOUS
<1> QED
  BY <1>1, <1>2, <1>3 DEF Label

\* The registers of the last frame are to be cleared and the chip switched on.
LEMMA PushReceiveBegin ==
  ASSUME NEW n, NEW p \in Stack(n), p[1][1] \in {"csmaAgain", "ackTest", "polled", "frames"}
  PROVE  /\ ReceiveBegin \o p \in Stack(n) /\ (ReceiveBegin \o p)[1] = <<"clear">>
         /\ Keeps(p, ReceiveBegin \o p)
<1> DEFINE a == <<"clear">>
           b == <<"clearAck">>
           c == <<"restart">>
           d == <<"set", "RX">>
           pin == <<"pin">>
           p1 == <<pin>> \o p
           p2 == <<d>> \o p1
           p3 == <<c>> \o p2
           p4 == <<b>> \o p3
           p5 == <<a>> \o p4
<1>1. /\ a \in Label(n) /\ b \in Label(n) /\ c \in Label(n) /\ d \in Label(n) /\ pin \in Label(n)
  BY Labels DEF Others, Switching, Mode
<1>2. /\ a[1] = "clear" /\ b[1] = "clearAck" /\ c[1] = "restart" /\ d[1] = "set" /\ d[2] = "RX" /\ pin[1] = "pin"
  OBVIOUS
<1>3. ReceiveBegin \o p = ((<<a, b, c>> \o <<d>>) \o <<pin>>) \o p
  BY DEF ReceiveBegin, SetMode
<1>4. Follows(a, b) /\ Follows(b, c) /\ Follows(c, d) /\ Follows(d, pin) /\ Follows(pin, p[1])
  BY <1>2 DEF Follows, Switching
<1>5. /\ a[1] \notin Sending \cup {"ackTest"} /\ b[1] \notin Sending \cup {"ackTest"}
      /\ c[1] \notin Sending \cup {"ackTest"} /\ d[1] \notin Sending \cup {"ackTest"}
      /\ pin[1] \notin Sending \cup {"ackTest"}
  BY <1>2 DEF Sending
<1> HIDE DEF a, b, c, d, pin
<1>6. ((<<a, b, c>> \o <<d>>) \o <<pin>>) \o p = p5
  <2> DEFINE s3 == <<a, b, c>>
             s4 == s3 \o <<d>>
  <2>1. <<a, b, c>> \in Seq(Label(n)) /\ <<d>> \in Seq(Label(n)) /\ <<pin>> \in Seq(Label(n)) /\ p \in Seq(Label(n))
    <3>1. <<a, b, c>> \in Seq(Label(n))
      BY <1>1
    <3>2. <<d>> \in Seq(Label(n)) /\ <<pin>> \in Seq(Label(n))
      BY <1>1
    <3>3. p \in Seq(Label(n))
      BY DEF Stack
    <3> QED
      BY <3>1, <3>2, <3>3
  <2>2. p1 \in Seq(Label(n))
    BY <2>1, ConcatProperties
  <2>3. p2 \in Seq(Label(n))
    BY <2>1, <2>2, ConcatProperties
  <2>4. s3 \o p2 = p5
    <3> HIDE DEF p2
    <3> QED
      BY <1>1, <2>3, Three
  <2> HIDE DEF s3
  <2>5. s3 \in Seq(Label(n)) /\ s4 \in Seq(Label(n))
    BY <2>1, ConcatProperties DEF s3
  <2>6. s4 \o p1 = s3 \o p2
    BY <2>1, <2>2, <2>5, ConcatAssociative
  <2> HIDE DEF s4
  <2>7. (s4 \o <<pin>>) \o p = s4 \o p1
    BY <2>1, <2>5, ConcatAssociative
  <2> QED
    BY <2>4, <2>6, <2>7 DEF s3, s4
<1>7. p1 \in Stack(n) /\ p1[1] = pin /\ Keeps(p, p1)
  BY <1>1, <1>4, <1>5, KeepPush
<1> HIDE DEF p1
<1>8. p2 \in Stack(n) /\ p2[1] = d /\ Keeps(p1, p2)
  BY <1>1, <1>4, <1>5, <1>7, KeepPush
<1> HIDE DEF p2
<1>9. p3 \in Stack(n) /\ p3[1] = c /\ Keeps(p2, p3)
  BY <1>1, <1>4, <1>5, <1>8, KeepPush
<1> HIDE DEF p3
<1>10. p4 \in Stack(n) /\ p4[1] = b /\ Keeps(p3, p4)
  BY <1>1, <1>4, <1>5, <1>9, KeepPush
<1> HIDE DEF p4
<1>11. p5 \in Stack(n) /\ p5[1] = a /\ Keeps(p4, p5)
  BY <1>1, <1>4, <1>5, <1>10, KeepPush
<1> HIDE DEF p5
<1>12. Keeps(p, p5)
  BY <1>7, <1>8, <1>9, <1>10, <1>11, KeepsIsTransitive
<1> QED
  BY <1>3, <1>6, <1>11, <1>12 DEF a

\* A frame is to be put into the FIFO and sent.
LEMMA PushSendFrame ==
  ASSUME NEW n, NEW p \in Stack(n), p[1][1] \in {"main", "poll"}, ~Owing(p), NEW f \in Own(n)
  PROVE  /\ SendFrame(f) \o p \in Stack(n) /\ (SendFrame(f) \o p)[1] = <<"set", "STANDBY">>
         /\ (SendFrame(f) \o p)[Len(SendFrame(f) \o p)] = p[Len(p)]
         /\ Owing(SendFrame(f) \o p)
         /\ Holds(SendFrame(f) \o p, "ackTest") <=> Holds(p, "ackTest")
<1> DEFINE a == <<"set", "STANDBY">>
           b == <<"fill", f>>
           c == <<"set", "TX">>
           d == <<"packetSent">>
           p1 == <<a>> \o p
           p2 == <<d>> \o p1
           p3 == <<c>> \o p2
           p4 == <<b>> \o p3
           p5 == <<a>> \o p4
<1>1. a \in Label(n) /\ b \in Label(n) /\ c \in Label(n) /\ d \in Label(n)
  BY Labels DEF Others, Switching, Mode
<1>2. /\ a[1] = "set" /\ a[2] = "STANDBY" /\ b[1] = "fill" /\ c[1] = "set" /\ c[2] = "TX" /\ d[1] = "packetSent"
      /\ a = <<"set", "STANDBY">> /\ c = <<"set", "TX">>
  OBVIOUS
<1>3. SendFrame(f) \o p = ((((<<a>> \o <<b>>) \o <<c>>) \o <<d>>) \o <<a>>) \o p
  BY DEF SendFrame, SetMode
<1>4. Follows(a, b) /\ Follows(b, c) /\ Follows(c, d) /\ Follows(d, a) /\ Follows(a, p[1])
  BY <1>2 DEF Follows, Switching
<1>5. /\ a[1] \notin Sending \cup {"ackTest"} /\ c[1] \notin Sending \cup {"ackTest"}
      /\ d[1] \notin Sending \cup {"ackTest"} /\ b[1] \in {"frame", "fill"} /\ b[1] # "ackTest"
  BY <1>2 DEF Sending
<1> HIDE DEF a, b, c, d
<1>6. ((((<<a>> \o <<b>>) \o <<c>>) \o <<d>>) \o <<a>>) \o p = p5
  <2>1. /\ p \in Seq(Label(n)) /\ p1 \in Seq(Label(n)) /\ p2 \in Seq(Label(n)) /\ p3 \in Seq(Label(n))
        /\ p4 \in Seq(Label(n))
    BY <1>1, ConcatProperties DEF Stack
  <2>2. /\ <<a>> \in Seq(Label(n)) /\ <<b>> \in Seq(Label(n)) /\ <<c>> \in Seq(Label(n)) /\ <<d>> \in Seq(Label(n))
    BY <1>1
  <2> DEFINE s2 == <<a>> \o <<b>>
             s3 == s2 \o <<c>>
             s4 == s3 \o <<d>>
  <2>3. s2 \in Seq(Label(n)) /\ s3 \in Seq(Label(n)) /\ s4 \in Seq(Label(n))
    BY <2>2, ConcatProperties
  <2>4. s2 \o p3 = p5
    BY <2>1, <2>2, ConcatAssociative
  <2> HIDE DEF s2
  <2>5. s3 \o p2 = s2 \o p3
    BY <2>1, <2>2, <2>3, ConcatAssociative
  <2> HIDE DEF s3
  <2>6. s4 \o p1 = s3 \o p2
    BY <2>1, <2>2, <2>3, ConcatAssociative
  <2> HIDE DEF s4
  <2>7. (s4 \o <<a>>) \o p = s4 \o p1
    BY <2>1, <2>2, <2>3, ConcatAssociative
  <2> QED
    BY <2>4, <2>5, <2>6, <2>7 DEF s2, s3, s4
<1>7. p1 \in Stack(n) /\ p1[1] = a /\ Keeps(p, p1)
  BY <1>1, <1>4, <1>5, KeepPush
<1> HIDE DEF p1
<1>8. p2 \in Stack(n) /\ p2[1] = d /\ Keeps(p1, p2)
  BY <1>1, <1>4, <1>5, <1>7, KeepPush
<1> HIDE DEF p2
<1>9. p3 \in Stack(n) /\ p3[1] = c /\ Keeps(p2, p3)
  BY <1>1, <1>4, <1>5, <1>8, KeepPush
<1> HIDE DEF p3
<1>10. ~Owing(p3)
  BY <1>7, <1>8, <1>9 DEF Keeps
<1>11. /\ p4 \in Stack(n) /\ p4[1] = b /\ p4[Len(p4)] = p3[Len(p3)]
       /\ Owing(p4)
       /\ Holds(p4, "ackTest") <=> Holds(p3, "ackTest")
  <2>1. ~Holds(p, "ackTest")
    <3>1. 1 \in 1 .. Len(p)
      BY EmptySeq DEF Stack
    <3> QED
      BY <3>1 DEF Stack, AsksOnly, Sending
  <2>2. ~Holds(p3, "ackTest")
    BY <1>7, <1>8, <1>9, <2>1 DEF Keeps
  <2> QED
    BY <1>1, <1>4, <1>5, <1>9, <1>10, <2>2, PushStack
<1> HIDE DEF p4
<1>12. p5 \in Stack(n) /\ p5[1] = a /\ Keeps(p4, p5)
  BY <1>1, <1>4, <1>5, <1>11, KeepPush
<1> HIDE DEF p5
<1>13. p3[Len(p3)] = p[Len(p)] /\ (Holds(p3, "ackTest") <=> Holds(p, "ackTest"))
  BY <1>7, <1>8, <1>9 DEF Keeps
<1>14. /\ p5[Len(p5)] = p4[Len(p4)]
       /\ Owing(p5) <=> Owing(p4)
       /\ Holds(p5, "ackTest") <=> Holds(p4, "ackTest")
  BY <1>12 DEF Keeps
<1>15. p5[Len(p5)] = p[Len(p)] /\ Owing(p5) /\ (Holds(p5, "ackTest") <=> Holds(p, "ackTest"))
  BY <1>11, <1>13, <1>14
<1>16. SendFrame(f) \o p = p5
  BY <1>3, <1>6
<1> QED
  BY <1>2, <1>12, <1>15, <1>16

-----------------------------------------------------------------------------
(* What a label does to the stacks. *)

Stacks == stk = [n \in Node |-> stk[n]] /\ \A n \in Node : stk[n] \in Stack(n)

\* Only node n takes a step.
Apart(n) == \A o \in Node \ {n} :
    /\ stk'[o] = stk[o] /\ mode'[o] = mode[o] /\ chip'[o] = chip[o] /\ fifo'[o] = fifo[o]
    /\ pending'[o] = pending[o] /\ level'[o] = level[o] /\ mask'[o] = mask[o]
    /\ ackFlag'[o] = ackFlag[o] /\ cleared'[o] = cleared[o] /\ ret'[o] = ret[o] /\ RXFIFO'[o] = RXFIFO[o]

LEMMA Nodes == /\ S # R /\ S \in Node /\ R \in Node /\ Node = {S, R}
               /\ MaxFrames \in Nat /\ MaxFaults \in Nat
BY NodesAssumption, FramesAssumption DEF Node

LEMMA TopIsLabel ==
  ASSUME Stacks, NEW n \in Node
  PROVE  /\ Top(n) \in Label(n)
         /\ Top(n)[1] \in Ends \cup Others => Top(n) = <<Top(n)[1]>>
         /\ Top(n)[1] \in Switching => Top(n)[2] \in Mode /\ Top(n) = <<Top(n)[1], Top(n)[2]>>
         /\ Top(n)[1] \in {"frame", "fill"} => Top(n)[2] \in Own(n)
<1>1. stk[n] \in Seq(Label(n)) /\ stk[n] # <<>>
  BY DEF Stacks, Stack
<1>2. Top(n) \in Label(n)
  BY <1>1 DEF Top
<1>3. CASE \E o \in Ends \cup Others : Top(n) = <<o>>
  BY <1>2, <1>3 DEF Ends, Others, Switching
<1>4. CASE \E o \in Switching, m \in Mode : Top(n) = <<o, m>>
  BY <1>2, <1>4 DEF Ends, Others, Switching
<1>5. CASE \E o \in {"frame", "fill"}, f \in Own(n) : Top(n) = <<o, f>>
  BY <1>2, <1>5 DEF Ends, Others, Switching
<1> QED
  BY <1>2, <1>3, <1>4, <1>5 DEF Label

LEMMA NewStack ==
  ASSUME Stacks, NEW n \in Node, NEW p \in Stack(n), stk' = [stk EXCEPT ![n] = p]
  PROVE  Stacks' /\ stk'[n] = p /\ Top(n)' = p[1] /\ \A o \in Node \ {n} : stk'[o] = stk[o]
<1>1. stk'[n] = p /\ \A o \in Node \ {n} : stk'[o] = stk[o]
  BY DEF Stacks
<1>2. stk' = [m \in Node |-> stk'[m]]
  BY DEF Stacks
<1> QED
  BY <1>1, <1>2 DEF Stacks, Top

Silent == {"set", "select", "write", "mode", "done", "clear", "clearAck", "restart", "pin",
           "send", "csma", "csmaAgain", "packetSent", "starved"}

LEMMA Silence == \A o \in Silent : /\ o \notin Ends \cup {"frame", "fill", "ackTest"}
                                   /\ o # "csmaAgain" => o \notin Sending
BY DEF Silent, Ends, Sending

\* The label is done.
LEMMA Pops ==
  ASSUME Stacks, NEW n \in Node, Goto(n, <<>>), Top(n)[1] \in Silent
  PROVE  /\ Stacks' /\ Follows(Top(n), Top(n)') /\ Keeps(stk[n], stk'[n])
         /\ \A o \in Node \ {n} : stk'[o] = stk[o]
<1> DEFINE q == stk[n]
<1>1. q \in Stack(n) /\ q[1][1] \notin Ends \cup {"frame", "fill", "ackTest"}
  BY Silence DEF Stacks, Top
<1>2. Tail(q) \in Stack(n) /\ Tail(q)[1] = q[2] /\ Follows(q[1], q[2]) /\ Keeps(q, Tail(q))
  BY <1>1, KeepPop
<1>3. <<>> \o Tail(q) = Tail(q)
  BY <1>2, ConcatEmptySeq DEF Stack
<1>4. stk' = [stk EXCEPT ![n] = Tail(q)]
  BY <1>3 DEF Goto
<1> QED
  BY <1>2, <1>4, NewStack DEF Top

\* The label becomes x, which those can follow that could follow the label.
LEMMA Becomes ==
  ASSUME Stacks, NEW n \in Node, NEW x \in Label(n), Goto(n, <<x>>), Top(n)[1] \in Silent,
         x[1] \in Silent \ {"csmaAgain"},
         \A b : Follows(Top(n), b) => Follows(x, b)
  PROVE  /\ Stacks' /\ Top(n)' = x /\ Keeps(stk[n], stk'[n])
         /\ \A o \in Node \ {n} : stk'[o] = stk[o]
<1> DEFINE q == stk[n]
<1>1. q \in Stack(n) /\ q[1][1] \notin Ends \cup {"frame", "fill", "ackTest"}
  BY Silence DEF Stacks, Top
<1>2. Tail(q) \in Stack(n) /\ Tail(q)[1] = q[2] /\ Follows(q[1], q[2]) /\ Keeps(q, Tail(q))
  BY <1>1, KeepPop
<1> DEFINE r == Tail(q)
<1>3. Follows(x, r[1]) /\ x[1] \notin Sending \cup {"ackTest"}
  BY <1>2, Silence DEF Top
<1> HIDE DEF r
<1>4. <<x>> \o r \in Stack(n) /\ (<<x>> \o r)[1] = x /\ Keeps(r, <<x>> \o r)
  BY <1>2, <1>3, KeepPush DEF r
<1>5. stk' = [stk EXCEPT ![n] = <<x>> \o r]
  BY DEF Goto, r
<1>6. Keeps(q, <<x>> \o r)
  BY <1>2, <1>4, KeepsIsTransitive DEF r
<1> QED
  BY <1>4, <1>5, <1>6, NewStack

-----------------------------------------------------------------------------
(* The parts of the invariant that a step leaves alone. *)

Registers == /\ mode \in [Node -> Mode] /\ chip \in [Node -> Mode] /\ fifo \in [Node -> Frame]
             /\ pending \in [Node -> BOOLEAN] /\ mask \in [Node -> BOOLEAN]
             /\ level \in [Node -> {"HI", "OFF"}]
             /\ payload \in [Node -> BOOLEAN] /\ ackFlag \in [Node -> BOOLEAN]
             /\ cleared \in [Node -> BOOLEAN] /\ ret \in [Node -> BOOLEAN]
             /\ RXFIFO \in [Node -> Seq(1 .. MaxFrames)] /\ lost \in 0 .. Len(RXFIFO[R])
             /\ sent \in 0 .. MaxFrames /\ taken \in 0 .. MaxFrames /\ faults \in 0 .. MaxFaults
             /\ acked \in Nat /\ acks \in Nat

LEMMA ShapeIs == Shape <=> Stacks /\ Registers
BY DEF Shape, Stacks, Registers

LEMMA OtherNode ==
  ASSUME NEW n \in Node, Apart(n), \A o \in Node : Tracks(o) /\ Holding(o),
         Tracks(n)', Holding(n)'
  PROVE  (\A o \in Node : Tracks(o) /\ Holding(o))'
<1> SUFFICES ASSUME NEW o \in Node PROVE Tracks(o)' /\ Holding(o)'
  OBVIOUS
<1>1. CASE o = n
  BY <1>1
<1>2. CASE o # n
  <2>1. Tracks(o)'
    BY <1>2 DEF Apart, Tracks, Top
  <2>2. Holding(o)'
    BY <1>2 DEF Apart, Holding, Heard, Sends
  <2> QED
    BY <2>1, <2>2
<1> QED
  BY <1>1, <1>2

\* What R does.
LEMMA NotCounting == ASSUME Apart(R), Counting PROVE Counting'
<1>1. /\ stk'[S] = stk[S] /\ mode'[S] = mode[S]
      /\ ackFlag'[S] = ackFlag[S] /\ cleared'[S] = cleared[S] /\ ret'[S] = ret[S]
  BY Nodes DEF Apart
<1> QED
  BY <1>1 DEF Counting, Stale, Asking, Top

LEMMA KeepsSame == \A q : Keeps(q, q)
BY DEF Keeps

Calm(n) == /\ Keeps(stk[n], stk'[n]) /\ RXFIFO' = RXFIFO /\ acks' = acks /\ acked' = acked /\ sent' = sent
           /\ \A o \in Node : /\ fifo'[o].kind = "ack" => fifo[o].kind = "ack"
                              /\ fifo'[o].kind = "data" => fifo[o].kind = "data"

LEMMA SumsAreNat ==
  ASSUME NEW a \in Nat, NEW b \in Nat
  PROVE  a + b \in Nat /\ \A c \in Nat : a + b + c \in Nat
OBVIOUS

LEMMA NoMore ==
  ASSUME NEW a \in Int, NEW b \in Int, NEW c \in Int, NEW d \in Int, NEW f \in Int, NEW g \in Int,
         a <= d, b <= f, c <= g
  PROVE  a + b + c <= d + f + g
OBVIOUS

\* What the sum is made of.
LEMMA Terms ==
  ASSUME Registers
  PROVE  /\ AckDue \in 0 .. 1 /\ DataDue \in 0 .. 1 /\ AckAtR \in 0 .. 1 /\ DataAtR \in 0 .. 1
         /\ DataAtS \in 0 .. 1 /\ Queued \in Nat /\ acks \in Nat /\ sent \in Nat
         /\ Acks \in Nat /\ AtR \in Nat /\ OnWay \in Nat
<1>1. /\ AckDue \in 0 .. 1 /\ DataDue \in 0 .. 1 /\ AckAtR \in 0 .. 1 /\ DataAtR \in 0 .. 1
      /\ DataAtS \in 0 .. 1
  BY DEF AckDue, DataDue, AckAtR, DataAtR, DataAtS
<1>2. Queued \in Nat /\ acks \in Nat /\ sent \in Nat
  BY Nodes DEF Registers, Queued
<1>3. Acks \in Nat
  BY <1>2 DEF Acks, AckAtR, AckDue
<1>4. AtR \in Nat
  BY <1>2 DEF AtR, DataAtR
<1>5. OnWay \in Nat
  BY DEF OnWay, DataAtS, DataDue
<1> QED
  BY <1>1, <1>2, <1>3, <1>4, <1>5

\* No more of them than before, of none of the three kinds.
LEMMA CarryOn ==
  ASSUME Registers, Registers', Carried, sent' = sent, Acks' <= Acks, AtR' <= AtR, OnWay' <= OnWay
  PROVE  Carried'
<1>1. Acks \in Int /\ AtR \in Int /\ OnWay \in Int /\ Acks' \in Int /\ AtR' \in Int /\ OnWay' \in Int
  <2>1. Acks \in Nat /\ AtR \in Nat /\ OnWay \in Nat
    BY Terms
  <2>2. Queued' \in Nat /\ acks' \in Nat
    BY Nodes DEF Registers, Queued
  <2>3. AckAtR' \in Nat /\ AckDue' \in Nat /\ DataAtR' \in Nat /\ DataAtS' \in Nat /\ DataDue' \in Nat
    BY DEF AckAtR, AckDue, DataAtR, DataAtS, DataDue
  <2>4. Acks' \in Nat /\ AtR' \in Nat /\ OnWay' \in Nat
    BY <2>2, <2>3, SumsAreNat DEF Acks, AtR, OnWay
  <2> QED
    BY <2>1, <2>4
<1>2. Acks' + AtR' + OnWay' <= Acks + AtR + OnWay
  BY <1>1, NoMore
<1>3. \A a \in Int, b \in Int, c \in Int : a <= b /\ b <= c => a <= c
  OBVIOUS
<1>4. Acks' + AtR' + OnWay' \in Int /\ Acks + AtR + OnWay \in Int /\ sent \in Int
  BY <1>1, Terms
<1>5. Acks' + AtR' + OnWay' <= sent
  BY <1>2, <1>3, <1>4 DEF Carried
<1> QED
  BY <1>5 DEF Carried

LEMMA CarriedGently ==
  ASSUME NEW n \in Node, Apart(n), Registers, Registers', Carried,
         Owing(stk'[n]) => Owing(stk[n]), RXFIFO' = RXFIFO, acks' = acks, sent' = sent,
         \A o \in Node : /\ fifo'[o].kind = "ack" => fifo[o].kind = "ack"
                         /\ fifo'[o].kind = "data" => fifo[o].kind = "data"
  PROVE  Carried'
<1>1. (Owing(stk'[S]) => Owing(stk[S])) /\ (Owing(stk'[R]) => Owing(stk[R]))
  BY Nodes DEF Apart
<1>2. Queued' = Queued /\ Queued \in Nat
  BY Terms DEF Queued
<1>3. /\ acks \in Nat
      /\ fifo'[R].kind = "ack" => fifo[R].kind = "ack"
      /\ fifo'[R].kind = "data" => fifo[R].kind = "data"
      /\ fifo'[S].kind = "data" => fifo[S].kind = "data"
  BY Nodes DEF Registers
<1>4. Acks' <= Acks
  BY <1>1, <1>3 DEF Acks, AckAtR, AckDue
<1>5. AtR' <= AtR
  BY <1>2, <1>3 DEF AtR, DataAtR
<1>6. OnWay' <= OnWay
  BY <1>1, <1>3 DEF OnWay, DataAtS, DataDue
<1> QED
  BY <1>4, <1>5, <1>6, CarryOn

LEMMA StillCarried ==
  ASSUME NEW n \in Node, Apart(n), Registers, Registers', Calm(n), Carried
  PROVE  Carried'
BY CarriedGently DEF Calm, Keeps

LEMMA StillEarned ==
  ASSUME NEW n \in Node, Apart(n), Registers, Calm(n), Earned,
         n = S => ret'[S] = ret[S] /\ cleared'[S] = cleared[S]
  PROVE  Earned'
<1>1. Keeps(stk[S], stk'[S]) /\ ret'[S] = ret[S] /\ cleared'[S] = cleared[S]
  BY Nodes, KeepsSame DEF Apart, Calm
<1>2. Found' <=> Found
  BY <1>1 DEF Found, Keeps
<1>3. /\ acks \in Nat /\ acked \in Nat /\ acks' = acks /\ acked' = acked
      /\ fifo'[S].kind = "ack" => fifo[S].kind = "ack"
  BY Nodes DEF Calm, Registers
<1> QED
  BY <1>1, <1>2, <1>3 DEF Earned, Uncounted, Remembered, AckAtS

LEMMA AskerDoesNotSend ==
  ASSUME NEW n, NEW q \in Stack(n), Holds(q, "ackTest")
  PROVE  q[1][1] \notin Sending
<1>1. 1 \in 1 .. Len(q)
  BY EmptySeq DEF Stack
<1> QED
  BY <1>1 DEF Stack, AsksOnly

LEMMA SameCounting ==
  ASSUME Stacks', ackFlag'[S] = ackFlag[S], cleared'[S] = cleared[S], ret'[S] = ret[S], Keeps(stk[S], stk'[S])
  PROVE  /\ Stale' <=> Stale
         /\ Asking' <=> Asking
         /\ Asking' => Top(S)'[1] \notin Sending
<1>1. (Stale' <=> Stale) /\ (Asking' <=> Asking)
  BY DEF Stale, Asking, Keeps
<1>2. Asking' => Top(S)'[1] \notin Sending
  BY Nodes, AskerDoesNotSend DEF Asking, Stacks, Top
<1> QED
  BY <1>1, <1>2

-----------------------------------------------------------------------------
(* The steps of setMode. *)

LEMMA Assemble ==
  ASSUME IInv, NEW n \in Node, Apart(n), Stacks', Registers', Tracks(n)', Holding(n)',
         n = S => Counting', Earned', Carried'
  PROVE  IInv'
<1>1. (\A o \in Node : Tracks(o) /\ Holding(o))'
  BY OtherNode DEF IInv
<1>2. Counting'
  <2>1. CASE n = S
    BY <2>1
  <2>2. CASE n = R
    BY <2>2, NotCounting DEF IInv
  <2> QED
    BY <2>1, <2>2, Nodes
<1>3. Shape'
  BY DEF Shape, Stacks, Registers
<1> QED
  BY <1>1, <1>2, <1>3 DEF IInv

LEMMA AtTop == ASSUME NEW n, NEW op, At(n, op) PROVE Top(n)[1] = op /\ ~(pending[n] /\ level[n] = "HI")
BY DEF At, Top

LEMMA ReadModeStep == ASSUME IInv, NEW n \in Node, ReadMode(n) PROVE IInv'
<1> DEFINE m == Top(n)[2]
<1>1. Stacks /\ Registers
  BY ShapeIs DEF IInv
<1>2. Top(n)[1] = "set" /\ m \in Mode /\ Top(n) = <<"set", m>>
  BY <1>1, AtTop, TopIsLabel DEF ReadMode, Switching
<1>3. mode[n] = chip[n] /\ mask[n] /\ (m = "TX" => mode[n] = "STANDBY")
  BY <1>2 DEF IInv, Tracks, Registers, Shape
<1>4. CASE m = mode[n]
  <2>1. Goto(n, <<>>) /\ UNCHANGED <<level, chipVars, pending, mask, regVars, RXFIFO, lost, ret, history>>
    BY <1>4 DEF ReadMode, Top
  <2>2. Stacks' /\ Follows(Top(n), Top(n)') /\ Keeps(stk[n], stk'[n]) /\ \A o \in Node \ {n} : stk'[o] = stk[o]
    BY <1>1, <1>2, <2>1, Pops DEF Silent
  <2>3. Registers' /\ Apart(n) /\ Calm(n)
    BY <1>1, <2>1, <2>2 DEF Registers, Apart, Calm, chipVars, regVars, history
  <2>4. /\ m = "RX" => Top(n)'[1] = "pin"
        /\ m = "TX" => Top(n)'[1] = "packetSent"
        /\ m = "STANDBY" => Top(n)'[1] \in {"fill", "frame", "csmaAgain", "ackTest", "main", "poll", "frames"}
    BY <1>2, <2>2 DEF Follows, Switching
  <2>5. Tracks(n)'
    BY <1>2, <1>3, <1>4, <2>1, <2>4 DEF Tracks, Top, Mode, chipVars
  <2>6. Holding(n)'
    BY <2>1 DEF IInv, Holding, chipVars, Heard, Sends
  <2>7. n = S => Counting'
    <3> SUFFICES ASSUME n = S PROVE Counting'
      OBVIOUS
    <3>1. (Stale' <=> Stale) /\ (Asking' <=> Asking) /\ (Asking' => Top(S)'[1] \notin Sending)
      BY <2>1, <2>2, SameCounting DEF regVars
    <3>2. /\ Stale => m # "RX" /\ mode[S] # "RX" /\ ~Asking
          /\ Asking => m = "STANDBY"
      BY <1>2 DEF IInv, Counting, Switching
    <3> QED
      BY <1>2, <1>4, <2>1, <2>4, <3>1, <3>2 DEF Counting, Switching, Mode, Sending, chipVars
  <2>8. Earned' /\ Carried'
    BY <1>1, <2>1, <2>3, StillEarned, StillCarried DEF IInv, regVars
  <2> QED
    BY <2>2, <2>3, <2>5, <2>6, <2>7, <2>8, Assemble
<1>5. CASE m # mode[n]
  <2>1. Goto(n, <<<<"select", m>>>>) /\ level' = [level EXCEPT ![n] = "HI"]
        /\ UNCHANGED <<chipVars, pending, mask, regVars, RXFIFO, lost, ret, history>>
    BY <1>5 DEF ReadMode, Top, readReg
  <2>2. Stacks' /\ Top(n)' = <<"select", m>> /\ Keeps(stk[n], stk'[n]) /\ \A o \in Node \ {n} : stk'[o] = stk[o]
    <3>1. \A b : Follows(Top(n), b) => Follows(<<"select", m>>, b)
      BY <1>2 DEF Follows, Switching
    <3>2. <<"select", m>> \in Label(n)
      BY <1>2, Labels DEF Switching
    <3> QED
      BY <1>1, <1>2, <2>1, <3>1, <3>2, Becomes DEF Silent
  <2>3. Registers' /\ Apart(n) /\ Calm(n)
    BY <1>1, <2>1, <2>2 DEF Registers, Apart, Calm, chipVars, regVars, history
  <2>5. Tracks(n)'
    BY <1>2, <1>3, <1>5, <2>1, <2>2 DEF Tracks, Top, Mode, chipVars
  <2>6. Holding(n)'
    BY <2>1 DEF IInv, Holding, chipVars, Heard, Sends
  <2>7. n = S => Counting'
    <3> SUFFICES ASSUME n = S PROVE Counting'
      OBVIOUS
    <3>1. (Stale' <=> Stale) /\ (Asking' <=> Asking)
      BY <2>1, <2>2, SameCounting DEF regVars
    <3>2. /\ Stale => m # "RX" /\ mode[S] # "RX" /\ ~Asking
          /\ Asking => m = "STANDBY"
      BY <1>2 DEF IInv, Counting, Switching
    <3> QED
      BY <1>2, <2>1, <2>2, <3>1, <3>2 DEF Counting, Switching, chipVars
  <2>8. Earned' /\ Carried'
    BY <1>1, <2>1, <2>3, StillEarned, StillCarried DEF IInv, regVars
  <2> QED
    BY <2>2, <2>3, <2>5, <2>6, <2>7, <2>8, Assemble
<1> QED
  BY <1>4, <1>5

LEMMA SelectStep == ASSUME IInv, NEW n \in Node, Select(n) PROVE IInv'
<1> DEFINE m == Top(n)[2]
<1>1. Stacks /\ Registers
  BY ShapeIs DEF IInv
<1>2. Top(n)[1] = "select" /\ m \in Mode /\ Top(n) = <<"select", m>>
  BY <1>1, AtTop, TopIsLabel DEF Select, Switching
<1>3. /\ mode[n] = chip[n] /\ mask[n]
      /\ m = "RX" => mode[n] # "RX"
      /\ m = "TX" => mode[n] = "STANDBY"
  BY <1>2 DEF IInv, Tracks, Registers, Shape
<1>4. Goto(n, <<<<"write", m>>>>) /\ level' = [level EXCEPT ![n] = "OFF"]
      /\ UNCHANGED <<chipVars, pending, mask, regVars, RXFIFO, lost, ret, history>>
  BY DEF Select, Top
<1>5. Stacks' /\ Top(n)' = <<"write", m>> /\ Keeps(stk[n], stk'[n]) /\ \A o \in Node \ {n} : stk'[o] = stk[o]
  <2>1. \A b : Follows(Top(n), b) => Follows(<<"write", m>>, b)
    BY <1>2 DEF Follows, Switching
  <2>2. <<"write", m>> \in Label(n)
    BY <1>2, Labels DEF Switching
  <2> QED
    BY <1>1, <1>2, <1>4, <2>1, <2>2, Becomes DEF Silent
<1>6. Registers' /\ Apart(n) /\ Calm(n)
  BY <1>1, <1>4, <1>5 DEF Registers, Apart, Calm, chipVars, regVars, history
<1>7. Tracks(n)'
  <2>1. level'[n] = "OFF"
    BY <1>1, <1>4 DEF Registers
  <2> QED
    BY <1>2, <1>3, <1>4, <1>5, <2>1 DEF Tracks, Top, Mode, chipVars
<1>8. Holding(n)'
  BY <1>4 DEF IInv, Holding, chipVars, Heard, Sends
<1>9. n = S => Counting'
  <2> SUFFICES ASSUME n = S PROVE Counting'
    OBVIOUS
  <2>1. (Stale' <=> Stale) /\ (Asking' <=> Asking)
    BY <1>4, <1>5, SameCounting DEF regVars
  <2>2. /\ Stale => m # "RX" /\ mode[S] # "RX" /\ ~Asking
        /\ Asking => m = "STANDBY"
    BY <1>2 DEF IInv, Counting, Switching
  <2> QED
    BY <1>2, <1>4, <1>5, <2>1, <2>2 DEF Counting, Switching, chipVars
<1>10. Earned' /\ Carried'
  BY <1>1, <1>4, <1>6, StillEarned, StillCarried DEF IInv, regVars
<1> QED
  BY <1>5, <1>6, <1>7, <1>8, <1>9, <1>10, Assemble

LEMMA SwitchedFrame ==
  ASSUME NEW f \in Frame, NEW m \in Mode
  PROVE  /\ AfterSwitch(f, m) \in Frame
         /\ m = "RX" => AfterSwitch(f, m) = Nothing
         /\ m = "TX" => AfterSwitch(f, m) = f
         /\ m = "STANDBY" => AfterSwitch(f, m).kind \in {"none", "cut", "rest"}
         /\ AfterSwitch(f, m).kind \in {"data", "ack"} => AfterSwitch(f, m) = f
<1>1. 0 \in 0 .. MaxFrames
  BY Nodes
<1> QED
  BY <1>1 DEF AfterSwitch, Nothing, Frame, Mode

LEMMA WriteModeStep == ASSUME IInv, NEW n \in Node, WriteMode(n) PROVE IInv'
<1> DEFINE m == Top(n)[2]
           f == AfterSwitch(fifo[n], m)
<1>1. Stacks /\ Registers
  BY ShapeIs DEF IInv
<1>2. Top(n)[1] = "write" /\ m \in Mode /\ Top(n) = <<"write", m>>
  BY <1>1, AtTop, TopIsLabel DEF WriteMode, Switching
<1>3. /\ mode[n] = chip[n] /\ mask[n]
      /\ m = "RX" => mode[n] # "RX"
      /\ m = "TX" => mode[n] = "STANDBY"
  BY <1>2 DEF IInv, Tracks, Registers, Shape
<1>4. /\ Goto(n, <<<<"mode", m>>>>) /\ level' = [level EXCEPT ![n] = "HI"]
      /\ chip' = [chip EXCEPT ![n] = m] /\ fifo' = [fifo EXCEPT ![n] = f]
      /\ UNCHANGED <<mode, pending, mask, regVars, RXFIFO, lost, ret, history>>
  BY DEF WriteMode, Top
<1>5. Stacks' /\ Top(n)' = <<"mode", m>> /\ Keeps(stk[n], stk'[n]) /\ \A o \in Node \ {n} : stk'[o] = stk[o]
  <2>1. \A b : Follows(Top(n), b) => Follows(<<"mode", m>>, b)
    BY <1>2 DEF Follows, Switching
  <2>2. <<"mode", m>> \in Label(n)
    BY <1>2, Labels DEF Switching
  <2> QED
    BY <1>1, <1>2, <1>4, <2>1, <2>2, Becomes DEF Silent
<1>6. /\ f \in Frame /\ fifo'[n] = f /\ chip'[n] = m
      /\ m = "RX" => f = Nothing
      /\ m = "TX" => f = fifo[n]
      /\ m = "STANDBY" => f.kind \in {"none", "cut", "rest"}
      /\ f.kind \in {"data", "ack"} => f = fifo[n]
  <2>1. fifo[n] \in Frame /\ fifo'[n] = f /\ chip'[n] = m
    BY <1>1, <1>4 DEF Registers
  <2> QED
    BY <1>2, <2>1, SwitchedFrame
<1> HIDE DEF f, m
<1>7. Registers' /\ Apart(n)
  BY <1>1, <1>2, <1>4, <1>5, <1>6 DEF Registers, Apart, regVars, history
<1>8. Calm(n)
  BY <1>1, <1>4, <1>5, <1>6 DEF Calm, history, Registers
<1>9. Tracks(n)'
  BY <1>2, <1>3, <1>4, <1>5, <1>6 DEF Tracks, Mode
<1>10. Holding(n)'
  <2>1. /\ fifo[n].kind = "data" => fifo[n].no \in 1 .. MaxFrames
        /\ fifo[n].kind = Heard(n) => chip[n] = "RX"
        /\ Heard(n) \in {"data", "ack"} /\ Sends(n) \in {"data", "ack"}
    BY DEF IInv, Holding, Heard, Sends
  <2>2. Heard(n)' = Heard(n) /\ Sends(n)' = Sends(n)
    BY DEF Heard, Sends
  <2>3. fifo'[n].kind = "data" => fifo'[n].no \in 1 .. MaxFrames
    BY <1>6, <2>1
  <2>4. fifo'[n].kind = Heard(n) => chip'[n] = "RX"
    BY <1>2, <1>3, <1>6, <2>1 DEF Mode
  <2>5. m # "RX" \/ fifo'[n] = [kind |-> "none", no |-> 0]
    BY <1>6 DEF Nothing
  <2>6. m = "RX" => fifo'[n].kind = "none"
    BY <2>5
  <2> QED
    BY <1>6, <2>1, <2>2, <2>3, <2>4, <2>6 DEF Holding
<1>11. n = S => Counting'
  <2> SUFFICES ASSUME n = S PROVE Counting'
    OBVIOUS
  <2>1. (Stale' <=> Stale) /\ (Asking' <=> Asking)
    BY <1>4, <1>5, SameCounting DEF regVars
  <2>2. /\ Stale => m # "RX" /\ mode[S] # "RX" /\ ~Asking
        /\ Asking => m = "STANDBY"
    BY <1>2 DEF IInv, Counting, Switching
  <2> QED
    BY <1>2, <1>4, <1>5, <2>1, <2>2 DEF Counting, Switching
<1>12. Earned' /\ Carried'
  BY <1>1, <1>4, <1>7, <1>8, StillEarned, StillCarried DEF IInv, regVars
<1> QED
  BY <1>5, <1>7, <1>9, <1>10, <1>11, <1>12, Assemble

LEMMA StoreModeStep == ASSUME IInv, NEW n \in Node, StoreMode(n) PROVE IInv'
<1> DEFINE m == Top(n)[2]
<1>1. Stacks /\ Registers
  BY ShapeIs DEF IInv
<1>2. Top(n)[1] = "mode" /\ m \in Mode /\ Top(n) = <<"mode", m>>
  BY <1>1, AtTop, TopIsLabel DEF StoreMode, Switching
<1>3. chip[n] = m /\ mask[n]
  BY <1>2 DEF IInv, Tracks, Registers, Shape
<1>4. /\ Goto(n, <<>>) /\ mode' = [mode EXCEPT ![n] = m]
      /\ UNCHANGED <<chip, fifo, intVars, regVars, RXFIFO, lost, ret, history>>
  BY DEF StoreMode, Top
<1>5. Stacks' /\ Follows(Top(n), Top(n)') /\ Keeps(stk[n], stk'[n]) /\ \A o \in Node \ {n} : stk'[o] = stk[o]
  BY <1>1, <1>2, <1>4, Pops DEF Silent
<1>6. Registers' /\ Apart(n) /\ Calm(n)
  BY <1>1, <1>2, <1>4, <1>5 DEF Registers, Apart, Calm, intVars, regVars, history
<1>7. mode'[n] = m /\ chip'[n] = m
  BY <1>1, <1>3, <1>4 DEF Registers
<1>8. /\ m = "RX" => Top(n)'[1] = "pin"
      /\ m = "TX" => Top(n)'[1] = "packetSent"
      /\ m = "STANDBY" => Top(n)'[1] \in {"fill", "frame", "csmaAgain", "ackTest", "main", "poll", "frames"}
  BY <1>2, <1>5 DEF Follows, Switching
<1> HIDE DEF m
<1>9. Tracks(n)'
  BY <1>2, <1>3, <1>4, <1>7, <1>8 DEF Tracks, Mode, intVars
<1>10. Holding(n)'
  BY <1>4, <1>7 DEF IInv, Holding, intVars, Heard, Sends
<1>11. n = S => Counting'
  <2> SUFFICES ASSUME n = S PROVE Counting'
    OBVIOUS
  <2>1. (Stale' <=> Stale) /\ (Asking' <=> Asking) /\ (Asking' => Top(S)'[1] \notin Sending)
    BY <1>4, <1>5, SameCounting DEF regVars
  <2>2. /\ Stale => m # "RX" /\ ~Asking
        /\ Asking => m = "STANDBY"
    BY <1>2 DEF IInv, Counting, Switching, m
  <2> QED
    BY <1>2, <1>7, <1>8, <2>1, <2>2 DEF Counting, Switching, Mode, Sending
<1>12. Earned' /\ Carried'
  BY <1>1, <1>4, <1>6, StillEarned, StillCarried DEF IInv, regVars
<1> QED
  BY <1>5, <1>6, <1>9, <1>10, <1>11, <1>12, Assemble

-----------------------------------------------------------------------------
(* The steps of receiveBegin. *)

LEMMA ClearLengthStep == ASSUME IInv, NEW n \in Node, ClearLength(n) PROVE IInv'
<1>1. Stacks /\ Registers /\ Top(n)[1] = "clear"
  BY ShapeIs, AtTop DEF IInv, ClearLength
<1>2. Goto(n, <<>>) /\ payload' = [payload EXCEPT ![n] = FALSE]
      /\ UNCHANGED <<chipVars, intVars, ackFlag, cleared, RXFIFO, lost, ret, history>>
  BY DEF ClearLength
<1>3. Stacks' /\ Follows(Top(n), Top(n)') /\ Keeps(stk[n], stk'[n]) /\ \A o \in Node \ {n} : stk'[o] = stk[o]
  BY <1>1, <1>2, Pops DEF Silent
<1>4. Registers' /\ Apart(n) /\ Calm(n)
  BY <1>1, <1>2, <1>3 DEF Registers, Apart, Calm, chipVars, intVars, history
<1>5. Top(n)'[1] = "clearAck"
  BY <1>1, <1>3 DEF Follows, Switching
<1>6. Tracks(n)'
  BY <1>1, <1>2, <1>5 DEF IInv, Tracks, chipVars, intVars
<1>7. Holding(n)'
  BY <1>2 DEF IInv, Holding, chipVars, intVars, Heard, Sends
<1>8. n = S => Counting'
  <2> SUFFICES ASSUME n = S PROVE Counting'
    OBVIOUS
  <2>1. (Stale' <=> Stale) /\ (Asking' <=> Asking)
    BY <1>2, <1>3, SameCounting
  <2>2. ~Asking
    BY <1>1 DEF IInv, Counting, Switching
  <2> QED
    BY <1>5, <2>1, <2>2 DEF Counting, Switching
<1>9. Earned' /\ Carried'
  BY <1>1, <1>2, <1>4, StillEarned, StillCarried DEF IInv
<1> QED
  BY <1>3, <1>4, <1>6, <1>7, <1>8, <1>9, Assemble

LEMMA ClearAckStep == ASSUME IInv, NEW n \in Node, ClearAck(n) PROVE IInv'
<1>1. Stacks /\ Registers /\ Top(n)[1] = "clearAck"
  BY ShapeIs, AtTop DEF IInv, ClearAck
<1>2. Goto(n, <<>>) /\ ackFlag' = [ackFlag EXCEPT ![n] = FALSE]
      /\ UNCHANGED <<chipVars, intVars, payload, cleared, RXFIFO, lost, ret, history>>
  BY DEF ClearAck
<1>3. Stacks' /\ Follows(Top(n), Top(n)') /\ Keeps(stk[n], stk'[n]) /\ \A o \in Node \ {n} : stk'[o] = stk[o]
  BY <1>1, <1>2, Pops DEF Silent
<1>4. Registers' /\ Apart(n) /\ Calm(n)
  BY <1>1, <1>2, <1>3 DEF Registers, Apart, Calm, chipVars, intVars, history
<1>5. Top(n)'[1] = "restart"
  BY <1>1, <1>3 DEF Follows, Switching
<1>6. Tracks(n)'
  BY <1>1, <1>2, <1>5 DEF IInv, Tracks, chipVars, intVars
<1>7. Holding(n)'
  BY <1>2 DEF IInv, Holding, chipVars, intVars, Heard, Sends
<1>8. n = S => Counting'
  <2> SUFFICES ASSUME n = S PROVE Counting'
    OBVIOUS
  <2>1. ~Stale' /\ (Asking' <=> Asking)
    BY <1>1, <1>2, <1>3 DEF Stale, Asking, Keeps, Registers
  <2>2. ~Asking
    BY <1>1 DEF IInv, Counting, Switching
  <2> QED
    BY <2>1, <2>2 DEF Counting
<1>9. Earned' /\ Carried'
  BY <1>1, <1>2, <1>4, StillEarned, StillCarried DEF IInv
<1> QED
  BY <1>3, <1>4, <1>6, <1>7, <1>8, <1>9, Assemble

LEMMA RestartRxStep == ASSUME IInv, NEW n \in Node, RestartRx(n) PROVE IInv'
<1> DEFINE f == fifo'[n]
<1>1. Stacks /\ Registers /\ Top(n)[1] = "restart"
  BY ShapeIs, AtTop DEF IInv, RestartRx
<1>2. Goto(n, <<>>) /\ fifo' = [fifo EXCEPT ![n] = f] /\ level' = [level EXCEPT ![n] = "HI"]
      /\ UNCHANGED <<mode, chip, pending, mask, regVars, RXFIFO, lost, ret, history>>
  BY <1>1 DEF RestartRx, readReg, Registers
<1>3. Stacks' /\ Follows(Top(n), Top(n)') /\ Keeps(stk[n], stk'[n]) /\ \A o \in Node \ {n} : stk'[o] = stk[o]
  BY <1>1, <1>2, Pops DEF Silent
<1>4. /\ f \in Frame /\ fifo'[n] = f
      /\ f = fifo[n] \/ f = Nothing
      /\ Nothing.kind = "none"
  BY <1>1, <1>2, Nodes DEF RestartRx, Registers, Frame, Nothing
<1> HIDE DEF f
<1>5. Registers' /\ Apart(n) /\ Calm(n)
  BY <1>1, <1>2, <1>3, <1>4 DEF Registers, Apart, Calm, regVars, history
<1>6. Top(n)' = <<"set", "RX">>
  BY <1>1, <1>3 DEF Follows, Switching
<1>7. Tracks(n)'
  BY <1>1, <1>2, <1>6 DEF IInv, Tracks
<1>8. Holding(n)'
  BY <1>2, <1>4 DEF IInv, Holding, Heard, Sends
<1>9. n = S => Counting'
  <2> SUFFICES ASSUME n = S PROVE Counting'
    OBVIOUS
  <2>1. (Stale' <=> Stale) /\ (Asking' <=> Asking)
    BY <1>2, <1>3, SameCounting DEF regVars
  <2>2. ~Asking /\ ~Stale
    BY <1>1 DEF IInv, Counting, Switching
  <2> QED
    BY <2>1, <2>2 DEF Counting
<1>10. Earned' /\ Carried'
  BY <1>1, <1>2, <1>5, StillEarned, StillCarried DEF IInv, regVars
<1> QED
  BY <1>3, <1>5, <1>7, <1>8, <1>9, <1>10, Assemble

LEMMA SetPinStep == ASSUME IInv, NEW n \in Node, SetPin(n) PROVE IInv'
<1>1. Stacks /\ Registers /\ Top(n)[1] = "pin"
  BY ShapeIs, AtTop DEF IInv, SetPin
<1>2. Goto(n, <<>>) /\ mask' = [mask EXCEPT ![n] = TRUE]
      /\ UNCHANGED <<chipVars, pending, level, regVars, RXFIFO, lost, ret, history>>
  BY DEF SetPin
<1>3. Stacks' /\ Follows(Top(n), Top(n)') /\ Keeps(stk[n], stk'[n]) /\ \A o \in Node \ {n} : stk'[o] = stk[o]
  BY <1>1, <1>2, Pops DEF Silent
<1>4. Registers' /\ Apart(n) /\ Calm(n)
  BY <1>1, <1>2, <1>3 DEF Registers, Apart, Calm, chipVars, regVars, history
<1>5. Top(n)'[1] \in {"csmaAgain", "ackTest", "polled", "frames"}
  BY <1>1, <1>3 DEF Follows, Switching
<1>6. Tracks(n)'
  <2>1. mask'[n]
    BY <1>1, <1>2 DEF Registers
  <2> QED
    BY <1>1, <1>2, <1>5, <2>1 DEF IInv, Tracks, chipVars
<1>7. Holding(n)'
  BY <1>2 DEF IInv, Holding, chipVars, Heard, Sends
<1>8. n = S => Counting'
  <2> SUFFICES ASSUME n = S PROVE Counting'
    OBVIOUS
  <2>1. (Stale' <=> Stale) /\ (Asking' <=> Asking)
    BY <1>2, <1>3, SameCounting DEF regVars
  <2>2. ~Asking /\ (Stale => mode[S] # "RX")
    BY <1>1 DEF IInv, Counting, Switching
  <2> QED
    BY <1>2, <1>5, <2>1, <2>2 DEF Counting, Switching, chipVars
<1>9. Earned' /\ Carried'
  BY <1>1, <1>2, <1>4, StillEarned, StillCarried DEF IInv, regVars
<1> QED
  BY <1>3, <1>4, <1>6, <1>7, <1>8, <1>9, Assemble

-----------------------------------------------------------------------------
(* The steps of sending. *)

LEMMA StartSendStep == ASSUME IInv, NEW n \in Node, StartSend(n) PROVE IInv'
<1>1. Stacks /\ Registers /\ Top(n)[1] = "send"
  BY ShapeIs, AtTop DEF IInv, StartSend
<1>2. Goto(n, <<>>) /\ fifo' = [fifo EXCEPT ![n] = Nothing]
      /\ UNCHANGED <<mode, chip, intVars, regVars, RXFIFO, lost, ret, history>>
  BY DEF StartSend
<1>3. Stacks' /\ Follows(Top(n), Top(n)') /\ Keeps(stk[n], stk'[n]) /\ \A o \in Node \ {n} : stk'[o] = stk[o]
  BY <1>1, <1>2, Pops DEF Silent
<1>4. Nothing \in Frame /\ Nothing.kind = "none" /\ fifo'[n] = Nothing
  BY <1>1, <1>2, Nodes DEF Registers, Frame, Nothing
<1>5. Registers' /\ Apart(n) /\ Calm(n)
  BY <1>1, <1>2, <1>3, <1>4 DEF Registers, Apart, Calm, intVars, regVars, history
<1>6. Top(n)'[1] = "csma"
  BY <1>1, <1>3 DEF Follows, Switching
<1>7. Tracks(n)'
  BY <1>1, <1>2, <1>6 DEF IInv, Tracks, intVars
<1>8. Holding(n)'
  BY <1>4 DEF Holding, Heard, Sends
<1>9. n = S => Counting'
  <2> SUFFICES ASSUME n = S PROVE Counting'
    OBVIOUS
  <2>1. (Stale' <=> Stale) /\ (Asking' <=> Asking)
    BY <1>2, <1>3, SameCounting DEF regVars
  <2>2. ~Asking /\ (Stale => mode[S] # "RX")
    BY <1>1 DEF IInv, Counting, Switching
  <2> QED
    BY <1>2, <1>6, <2>1, <2>2 DEF Counting, Switching
<1>10. Earned' /\ Carried'
  BY <1>1, <1>2, <1>5, StillEarned, StillCarried DEF IInv, regVars
<1> QED
  BY <1>3, <1>5, <1>7, <1>8, <1>9, <1>10, Assemble

\* What changes nothing but the stack, and does not ask for an acknowledgement.
LEMMA OnlyStack ==
  ASSUME IInv, NEW n \in Node, Stacks', \A o \in Node \ {n} : stk'[o] = stk[o], Keeps(stk[n], stk'[n]),
         UNCHANGED <<chipVars, intVars, regVars, RXFIFO, lost, ret, history>>,
         Top(n)[1] \in (Others \ {"starved", "ackTest", "done", "clear", "clearAck"}) \cup {"frame"},
         \/ Top(n)'[1] \in (Others \ {"starved", "restart"}) \cup {"frame"}
         \/ Top(n)' = <<"set", "STANDBY">>
  PROVE  IInv'
<1>1. Stacks /\ Registers
  BY ShapeIs DEF IInv
<1>2. Registers' /\ Apart(n) /\ Calm(n)
  BY <1>1 DEF Registers, Apart, Calm, chipVars, intVars, regVars, history
<1>3. Tracks(n)'
  BY DEF IInv, Tracks, chipVars, intVars, Others
<1>4. Holding(n)'
  BY DEF IInv, Holding, chipVars, intVars, Heard, Sends
<1>5. n = S => Counting'
  <2> SUFFICES ASSUME n = S PROVE Counting'
    OBVIOUS
  <2>1. (Stale' <=> Stale) /\ (Asking' <=> Asking)
    BY SameCounting DEF regVars
  <2>2. ~Asking /\ (Stale => mode[S] # "RX")
    BY DEF IInv, Counting, Switching, Others
  <2> QED
    BY <2>1, <2>2 DEF Counting, Switching, chipVars, Others
<1>6. Earned' /\ Carried'
  BY <1>1, <1>2, StillEarned, StillCarried DEF IInv, regVars
<1> QED
  BY <1>2, <1>3, <1>4, <1>5, <1>6, Assemble

LEMMA PacketSentStep == ASSUME IInv, NEW n \in Node, PacketSent(n) PROVE IInv'
<1>1. Stacks /\ Registers /\ Top(n)[1] = "packetSent"
  BY ShapeIs, AtTop DEF IInv, PacketSent
<1>2. Goto(n, <<>>) /\ UNCHANGED <<chipVars, intVars, regVars, RXFIFO, lost, ret, history>>
  BY DEF PacketSent
<1>3. Stacks' /\ Follows(Top(n), Top(n)') /\ Keeps(stk[n], stk'[n]) /\ \A o \in Node \ {n} : stk'[o] = stk[o]
  BY <1>1, <1>2, Pops DEF Silent
<1>4. Top(n)' = <<"set", "STANDBY">>
  BY <1>1, <1>3 DEF Follows, Switching
<1> QED
  BY <1>1, <1>2, <1>3, <1>4, OnlyStack DEF Others

LEMMA StopWaitingStep == ASSUME IInv, NEW n \in Node, StopWaiting(n) PROVE IInv'
<1>1. Stacks /\ Registers /\ Top(n)[1] = "csmaAgain"
  BY ShapeIs, AtTop DEF IInv, StopWaiting
<1>2. Goto(n, <<>>) /\ UNCHANGED <<chipVars, intVars, regVars, RXFIFO, lost, ret, history>>
  BY DEF StopWaiting
<1>3. Stacks' /\ Follows(Top(n), Top(n)') /\ Keeps(stk[n], stk'[n]) /\ \A o \in Node \ {n} : stk'[o] = stk[o]
  BY <1>1, <1>2, Pops DEF Silent
<1>4. Top(n)'[1] = "frame"
  BY <1>1, <1>3 DEF Follows, Switching
<1> QED
  BY <1>1, <1>2, <1>3, <1>4, OnlyStack DEF Others

LEMMA CanSendStep == ASSUME IInv, NEW n \in Node, CanSend(n) PROVE IInv'
<1>1. Stacks /\ Registers /\ Top(n)[1] \in {"csma", "csmaAgain"}
  BY ShapeIs, AtTop DEF IInv, CanSend
<1>2. Goto(n, <<<<"set", "STANDBY">>>>) /\ UNCHANGED <<chipVars, intVars, regVars, RXFIFO, lost, ret, history>>
  BY DEF CanSend, SetMode
<1>3. /\ Stacks' /\ Top(n)' = <<"set", "STANDBY">> /\ Keeps(stk[n], stk'[n])
      /\ \A o \in Node \ {n} : stk'[o] = stk[o]
  <2>1. \A b : Follows(Top(n), b) => Follows(<<"set", "STANDBY">>, b)
    BY <1>1 DEF Follows, Switching
  <2>2. <<"set", "STANDBY">> \in Label(n)
    BY Labels DEF Switching, Mode
  <2> QED
    BY <1>1, <1>2, <2>1, <2>2, Becomes DEF Silent
<1> QED
  BY <1>1, <1>2, <1>3, OnlyStack DEF Others

LEMMA BusyStep == ASSUME IInv, NEW n \in Node, Busy(n) PROVE IInv'
<1> DEFINE q == stk[n]
           r == Tail(q)
           p1 == <<<<"csmaAgain">>>> \o r
           p2 == <<<<"done">>>> \o p1
<1>1. Stacks /\ Registers /\ Top(n)[1] \in {"csma", "csmaAgain"}
  BY ShapeIs, AtTop DEF IInv, Busy
<1>2. Goto(n, <<<<"done">>, <<"csmaAgain">>>>) /\ UNCHANGED <<chipVars, intVars, regVars, RXFIFO, lost, ret, history>>
  BY DEF Busy
<1>3. q \in Stack(n) /\ q[1][1] \notin Ends \cup {"frame", "fill", "ackTest"}
  BY <1>1, Silence DEF Stacks, Top, Silent
<1>4. r \in Stack(n) /\ r[1] = q[2] /\ Follows(q[1], q[2]) /\ Keeps(q, r)
  BY <1>3, KeepPop
<1>5. r[1][1] = "frame"
  BY <1>1, <1>4 DEF Follows, Switching, Top
<1>6. ~Holds(r, "ackTest")
  BY <1>4, <1>5, AskerDoesNotSend DEF Sending
<1>7. <<"done">> \in Label(n) /\ <<"csmaAgain">> \in Label(n)
  BY Labels DEF Others
<1>8. Follows(<<"csmaAgain">>, r[1])
  BY <1>5 DEF Follows
<1> HIDE DEF r
<1>9. p1 \in Stack(n) /\ p1[1] = <<"csmaAgain">> /\ Keeps(r, p1)
  BY <1>4, <1>6, <1>7, <1>8, PushStack DEF Keeps
<1>10. Follows(<<"done">>, p1[1])
  BY <1>9 DEF Follows
<1> HIDE DEF p1
<1>11. p2 \in Stack(n) /\ p2[1] = <<"done">> /\ Keeps(p1, p2)
  BY <1>7, <1>9, <1>10, KeepPush DEF Sending
<1>12. Keeps(q, p2)
  BY <1>4, <1>9, <1>11, KeepsIsTransitive
<1>13. stk' = [stk EXCEPT ![n] = p2]
  <2>1. r \in Seq(Label(n))
    BY <1>4 DEF Stack
  <2>2. \A a, b \in Label(n) : <<a, b>> \o r = <<a>> \o (<<b>> \o r)
    BY <2>1, Two
  <2>3. <<<<"done">>, <<"csmaAgain">>>> \o r = p2
    BY <1>7, <2>2 DEF p1
  <2> QED
    BY <1>2, <2>3 DEF Goto, r
<1> HIDE DEF p2
<1>14. Stacks' /\ stk'[n] = p2 /\ Top(n)' = <<"done">> /\ \A o \in Node \ {n} : stk'[o] = stk[o]
  BY <1>1, <1>11, <1>13, NewStack
<1>15. Keeps(stk[n], stk'[n])
  BY <1>12, <1>14
<1> QED
  BY <1>1, <1>2, <1>14, <1>15, OnlyStack DEF Others

LEMMA CallSendFrameStep == ASSUME IInv, NEW n \in Node, CallSendFrame(n) PROVE IInv'
<1> DEFINE q == stk[n]
           r == Tail(q)
           f == Top(n)[2]
           p == SendFrame(f) \o r
<1>1. Stacks /\ Registers /\ Top(n)[1] = "frame"
  BY ShapeIs, AtTop DEF IInv, CallSendFrame
<1>2. Goto(n, SendFrame(f)) /\ UNCHANGED <<chipVars, intVars, regVars, RXFIFO, lost, ret, history>>
  BY DEF CallSendFrame, Top
<1>3. q \in Stack(n) /\ q[1][1] = "frame" /\ q[1][1] \notin Ends /\ f \in Own(n)
  BY <1>1, TopIsLabel DEF Stacks, Top, Ends
<1>4. /\ r \in Stack(n) /\ r[1] = q[2] /\ Follows(q[1], q[2])
      /\ r[Len(r)] = q[Len(q)] /\ ~Owing(r) /\ Owing(q)
      /\ Holds(q, "ackTest") <=> Holds(r, "ackTest")
  BY <1>3, PopStack
<1>5. r[1][1] \in {"main", "poll"}
  BY <1>3, <1>4 DEF Follows, Switching
<1> HIDE DEF r, f
<1>6. /\ p \in Stack(n) /\ p[1] = <<"set", "STANDBY">> /\ p[Len(p)] = r[Len(r)] /\ Owing(p)
      /\ Holds(p, "ackTest") <=> Holds(r, "ackTest")
  BY <1>3, <1>4, <1>5, PushSendFrame
<1>7. Keeps(q, p)
  BY <1>4, <1>6 DEF Keeps
<1>8. stk' = [stk EXCEPT ![n] = p]
  BY <1>2 DEF Goto, r
<1> HIDE DEF p
<1>9. Stacks' /\ stk'[n] = p /\ Top(n)' = <<"set", "STANDBY">> /\ \A o \in Node \ {n} : stk'[o] = stk[o]
  BY <1>1, <1>6, <1>8, NewStack
<1>10. Keeps(stk[n], stk'[n])
  BY <1>7, <1>9
<1> QED
  BY <1>1, <1>2, <1>9, <1>10, OnlyStack

-----------------------------------------------------------------------------
(* The two sums, for the steps in which something moves. *)

LEMMA EarnedOn ==
  ASSUME Registers, Earned, Found' => Found, cleared'[S] = cleared[S],
         fifo'[S].kind = "ack" => fifo[S].kind = "ack", acks' = acks, acked' = acked
  PROVE  Earned'
<1>1. acks \in Nat /\ acked \in Nat
  BY DEF Registers
<1> QED
  BY <1>1 DEF Earned, Uncounted, Remembered, AckAtS

Shift(a, b, c) == Acks' <= Acks + a /\ AtR' <= AtR + b /\ OnWay' <= OnWay + c

LEMMA CarryAny ==
  ASSUME Registers, Registers', Carried, NEW a \in Int, NEW b \in Int, NEW c \in Int, Shift(a, b, c),
         sent' = sent + (a + b + c)
  PROVE  Carried'
<1>1. Acks \in Int /\ AtR \in Int /\ OnWay \in Int /\ Acks' \in Int /\ AtR' \in Int /\ OnWay' \in Int
  <2>1. Acks \in Nat /\ AtR \in Nat /\ OnWay \in Nat
    BY Terms
  <2>2. Queued' \in Nat /\ acks' \in Nat
    BY Nodes DEF Registers, Queued
  <2>3. AckAtR' \in Nat /\ AckDue' \in Nat /\ DataAtR' \in Nat /\ DataAtS' \in Nat /\ DataDue' \in Nat
    BY DEF AckAtR, AckDue, DataAtR, DataAtS, DataDue
  <2>4. Acks' \in Nat /\ AtR' \in Nat /\ OnWay' \in Nat
    BY <2>2, <2>3, SumsAreNat DEF Acks, AtR, OnWay
  <2> QED
    BY <2>1, <2>4
<1>2. \A x, y, z, x1, y1, z1, s \in Int :
         x1 <= x + a /\ y1 <= y + b /\ z1 <= z + c /\ x + y + z <= s => x1 + y1 + z1 <= s + (a + b + c)
  OBVIOUS
<1>3. sent \in Int
  BY Terms
<1>4. Acks' + AtR' + OnWay' <= sent + (a + b + c)
  BY <1>1, <1>2, <1>3 DEF Shift, Carried
<1> QED
  BY <1>4 DEF Carried

-----------------------------------------------------------------------------
(* The steps of receiveDone and of ACKReceived. *)

\* Who polls for an acknowledgement polls with ACKReceived.
LEMMA DoneEnds ==
  ASSUME NEW n, NEW q \in Stack(n), q[1][1] = "done", ~Holds(q, "ackTest")
  PROVE  q[Len(q)][1] # "polled"
<1> DEFINE r == Tail(q)
           s == Tail(r)
           u == Tail(s)
<1>1. /\ r \in Stack(n) /\ r[Len(r)] = q[Len(q)] /\ ~Holds(r, "ackTest")
      /\ r[1][1] \in {"csmaAgain", "ackTest", "frames"}
  BY PopStack DEF Ends, Follows, Switching
<1>2. r[1][1] # "ackTest"
  <2>1. 1 \in 1 .. Len(r)
    BY <1>1, EmptySeq DEF Stack
  <2> QED
    BY <1>1, <2>1 DEF Holds
<1> HIDE DEF r
<1>3. CASE r[1][1] = "frames"
  <2>1. r = <<r[1]>>
    BY <1>1, <1>3, EndIsAll DEF Ends
  <2>2. Len(r) = 1
    BY <2>1
  <2>3. r[Len(r)] = r[1]
    BY <2>2
  <2> QED
    BY <1>1, <1>3, <2>3
<1>4. CASE r[1][1] = "csmaAgain"
  <2>1. s \in Stack(n) /\ s[Len(s)] = r[Len(r)] /\ s[1][1] = "frame"
    BY <1>1, <1>4, PopStack DEF Ends, Follows, Switching
  <2> HIDE DEF s
  <2>2. u \in Stack(n) /\ u[Len(u)] = s[Len(s)] /\ u[1][1] \in {"main", "poll"}
    BY <2>1, PopStack DEF Ends, Follows, Switching
  <2> HIDE DEF u
  <2>3. u = <<u[1]>>
    BY <2>2, EndIsAll DEF Ends
  <2>4. Len(u) = 1
    BY <2>3
  <2>5. u[Len(u)] = u[1]
    BY <2>4
  <2> QED
    BY <1>1, <2>1, <2>2, <2>5
<1> QED
  BY <1>1, <1>2, <1>3, <1>4

LEMMA receiveDoneStep == ASSUME IInv, NEW n \in Node, receiveDone(n) PROVE IInv'
<1> DEFINE q == stk[n]
           r == Tail(q)
           got == mode[n] = "RX" /\ payload[n]
<1>1. Stacks /\ Registers /\ Top(n)[1] = "done"
  BY ShapeIs, AtTop DEF IInv, receiveDone
<1>2. /\ ret' = [ret EXCEPT ![n] = got]
      /\ UNCHANGED <<chipVars, pending, mask, regVars, RXFIFO, lost, history>>
  BY DEF receiveDone
<1>3. q \in Stack(n) /\ q[1][1] = "done" /\ q[1][1] \notin Ends \cup {"frame", "fill", "ackTest"}
  BY <1>1, Silence DEF Stacks, Top, Silent
<1>4. ret'[n] = got /\ got \in BOOLEAN /\ \A o \in Node \ {n} : ret'[o] = ret[o]
  BY <1>1, <1>2 DEF Registers
<1>5. ASSUME Stacks', Keeps(stk[n], stk'[n]), \A o \in Node \ {n} : stk'[o] = stk[o],
             level' \in [Node -> {"HI", "OFF"}], \A o \in Node \ {n} : level'[o] = level[o],
             \/ Top(n)'[1] \in {"csmaAgain", "ackTest", "frames", "clear"} /\ ~got
             \/ Top(n)' = <<"set", "STANDBY">>
      PROVE  IInv'
  <2>1. Registers' /\ Apart(n) /\ Calm(n)
    BY <1>1, <1>2, <1>4, <1>5 DEF Registers, Apart, Calm, chipVars, regVars, history
  <2>2. Tracks(n)'
    BY <1>1, <1>2, <1>5 DEF IInv, Tracks, chipVars
  <2>3. Holding(n)'
    BY <1>2 DEF IInv, Holding, chipVars, Heard, Sends
  <2>4. n = S => Counting'
    <3> SUFFICES ASSUME n = S PROVE Counting'
      OBVIOUS
    <3>1. (Stale' <=> Stale) /\ (Asking' => got)
      BY <1>2, <1>4 DEF Stale, Asking, regVars
    <3>2. Stale => mode[S] # "RX"
      BY <1>1 DEF IInv, Counting, Switching
    <3> QED
      BY <1>2, <1>5, <3>1, <3>2 DEF Counting, Switching, chipVars
  <2>5. Carried'
    BY <1>1, <2>1, StillCarried DEF IInv
  <2>6. Earned'
    <3>1. Found' => Found
      <4>1. CASE n = S
        <5>1. ~Found'
          BY <1>3, <1>5, <4>1, DoneEnds DEF Found, Keeps
        <5> QED
          BY <5>1
      <4>2. CASE n = R
        BY <1>4, <1>5, <4>2, Nodes DEF Found
      <4> QED
        BY <4>1, <4>2, Nodes
    <3> QED
      BY <1>1, <1>2, <3>1, EarnedOn DEF IInv, chipVars, regVars, history
  <2> QED
    BY <1>5, <2>1, <2>2, <2>3, <2>4, <2>5, <2>6, Assemble
<1>6. CASE mode[n] = "RX" /\ ~payload[n]
  <2>1. Goto(n, <<>>) /\ UNCHANGED level
    BY <1>6 DEF receiveDone
  <2>2. Stacks' /\ Follows(Top(n), Top(n)') /\ Keeps(stk[n], stk'[n]) /\ \A o \in Node \ {n} : stk'[o] = stk[o]
    BY <1>1, <2>1, Pops DEF Silent
  <2>3. Top(n)'[1] \in {"csmaAgain", "ackTest", "frames"}
    BY <1>1, <2>2 DEF Follows, Switching
  <2>4. level' \in [Node -> {"HI", "OFF"}] /\ \A o \in Node \ {n} : level'[o] = level[o]
    BY <1>1, <2>1 DEF Registers
  <2> QED
    BY <1>5, <1>6, <2>2, <2>3, <2>4
<1>7. CASE ~(mode[n] = "RX" /\ ~payload[n])
  <2>1. level' = [level EXCEPT ![n] = "OFF"]
    BY <1>7 DEF receiveDone
  <2>2. level' \in [Node -> {"HI", "OFF"}] /\ \A o \in Node \ {n} : level'[o] = level[o]
    BY <1>1, <2>1 DEF Registers
  <2>3. CASE mode[n] = "RX"
    <3>1. Goto(n, <<<<"set", "STANDBY">>>>)
      BY <1>7, <2>3 DEF receiveDone, SetMode
    <3>2. \A b : Follows(Top(n), b) => Follows(<<"set", "STANDBY">>, b)
      BY <1>1 DEF Follows, Switching
    <3>3. <<"set", "STANDBY">> \in Label(n)
      BY Labels DEF Switching, Mode
    <3>4. /\ Stacks' /\ Top(n)' = <<"set", "STANDBY">> /\ Keeps(stk[n], stk'[n])
          /\ \A o \in Node \ {n} : stk'[o] = stk[o]
      BY <1>1, <3>1, <3>2, <3>3, Becomes DEF Silent
    <3> QED
      BY <1>5, <2>2, <3>4
  <2>4. CASE mode[n] # "RX"
    <3> DEFINE p == ReceiveBegin \o r
    <3>1. r \in Stack(n) /\ r[1] = q[2] /\ Follows(q[1], q[2]) /\ Keeps(q, r)
      BY <1>3, KeepPop
    <3>2. r[1][1] \in {"csmaAgain", "ackTest", "polled", "frames"}
      BY <1>3, <3>1 DEF Follows, Switching
    <3> HIDE DEF r
    <3>3. p \in Stack(n) /\ p[1] = <<"clear">> /\ Keeps(r, p)
      BY <3>1, <3>2, PushReceiveBegin
    <3>4. Keeps(q, p)
      BY <3>1, <3>3, KeepsIsTransitive
    <3>5. stk' = [stk EXCEPT ![n] = p]
      BY <1>7, <2>4 DEF receiveDone, Goto, r
    <3> HIDE DEF p
    <3>6. Stacks' /\ stk'[n] = p /\ Top(n)' = <<"clear">> /\ \A o \in Node \ {n} : stk'[o] = stk[o]
      BY <1>1, <3>3, <3>5, NewStack
    <3>7. Top(n)'[1] = "clear" /\ Keeps(stk[n], stk'[n])
      BY <3>4, <3>6
    <3> QED
      BY <1>5, <2>2, <2>4, <3>6, <3>7
  <2> QED
    BY <2>3, <2>4
<1> QED
  BY <1>6, <1>7

\* ACKReceived is called by the polling and by nothing else.
LEMMA AskedByPolling ==
  ASSUME NEW n, NEW q \in Stack(n), q[1][1] = "ackTest"
  PROVE  /\ Tail(q) \in Stack(n) /\ Tail(q)[1] = <<"polled">> /\ Tail(q)[Len(Tail(q))] = <<"polled">>
         /\ ~Holds(Tail(q), "ackTest") /\ ~Owing(Tail(q)) /\ Holds(q, "ackTest")
<1> DEFINE r == Tail(q)
<1>1. r \in Stack(n) /\ r[1][1] = "polled" /\ Holds(q, "ackTest")
  BY PopStack DEF Ends, Follows, Switching
<1> HIDE DEF r
<1>2. r = <<r[1]>>
  BY <1>1, EndIsAll DEF Ends
<1>3. r[1] \in Label(n)
  BY <1>1, EmptySeq DEF Stack
<1>4. r[1] = <<"polled">>
  BY <1>1, <1>3 DEF Label, Switching, Ends, Others
<1>5. <<"polled">> \in Label(n)
  BY <1>3, <1>4
<1>6. /\ <<<<"polled">>>>[Len(<<<<"polled">>>>)] = <<"polled">>
      /\ ~Owing(<<<<"polled">>>>)
      /\ ~Holds(<<<<"polled">>>>, "ackTest")
  BY <1>5, LastLabel DEF Ends
<1> QED
  BY <1>1, <1>2, <1>4, <1>6 DEF r

LEMMA AckTestStep == ASSUME IInv, NEW n \in Node, AckTest(n) PROVE IInv'
<1> DEFINE q == stk[n]
           r == Tail(q)
           p == ReceiveBegin \o r
           got == IF ret[n] THEN ackFlag[n] ELSE ~cleared[n]
<1>1. Stacks /\ Registers /\ Top(n)[1] = "ackTest"
  BY ShapeIs, AtTop DEF IInv, AckTest
<1>2. /\ ret' = [ret EXCEPT ![n] = got]
      /\ cleared' = [cleared EXCEPT ![n] = @ \/ got]
      /\ UNCHANGED <<chipVars, intVars, payload, ackFlag, RXFIFO, lost, history>>
  BY DEF AckTest
<1>3. /\ q \in Stack(n) /\ r \in Stack(n) /\ r[1] = <<"polled">> /\ r[Len(r)] = <<"polled">>
      /\ ~Holds(r, "ackTest") /\ ~Owing(r) /\ Holds(q, "ackTest")
  BY <1>1, AskedByPolling DEF Stacks, Top
<1>4. /\ got \in BOOLEAN /\ ret'[n] = got /\ cleared'[n] = (cleared[n] \/ got)
      /\ cleared[n] \in BOOLEAN /\ ret[n] \in BOOLEAN /\ ackFlag[n] \in BOOLEAN
      /\ \A o \in Node \ {n} : ret'[o] = ret[o] /\ cleared'[o] = cleared[o]
  BY <1>1, <1>2 DEF Registers
<1> HIDE DEF r
<1>5. \E s \in Stack(n) : /\ stk' = [stk EXCEPT ![n] = s] /\ s[Len(s)] = <<"polled">>
                          /\ ~Holds(s, "ackTest") /\ ~Owing(s)
                          /\ (ret[n] /\ s[1] = <<"polled">>) \/ (~ret[n] /\ s[1] = <<"clear">>)
  <2>1. CASE ret[n]
    <3>1. <<>> \o r = r
      BY <1>3, ConcatEmptySeq DEF Stack
    <3>2. stk' = [stk EXCEPT ![n] = r]
      BY <2>1, <3>1 DEF AckTest, Goto, r
    <3> QED
      BY <1>3, <2>1, <3>2
  <2>2. CASE ~ret[n]
    <3>1. p \in Stack(n) /\ p[1] = <<"clear">> /\ Keeps(r, p)
      <4>1. r[1][1] = "polled"
        BY <1>3
      <4> QED
        BY <1>3, <4>1, PushReceiveBegin
    <3>2. stk' = [stk EXCEPT ![n] = p]
      BY <2>2 DEF AckTest, Goto, r
    <3> QED
      BY <1>3, <2>2, <3>1, <3>2 DEF Keeps
  <2> QED
    BY <2>1, <2>2
<1>6. /\ Stacks' /\ \A o \in Node \ {n} : stk'[o] = stk[o]
      /\ stk'[n][Len(stk'[n])] = <<"polled">> /\ ~Holds(stk'[n], "ackTest") /\ ~Owing(stk'[n])
      /\ (ret[n] /\ Top(n)' = <<"polled">>) \/ (~ret[n] /\ Top(n)' = <<"clear">>)
  BY <1>1, <1>5, NewStack
<1> HIDE DEF got
<1>7. Registers' /\ Apart(n)
  BY <1>1, <1>2, <1>4, <1>6 DEF Registers, Apart, chipVars, intVars, history
<1>8. Tracks(n)'
  BY <1>1, <1>2, <1>6 DEF IInv, Tracks, chipVars, intVars
<1>9. Holding(n)'
  BY <1>2 DEF IInv, Holding, chipVars, intVars, Heard, Sends
<1>10. n = S => (ret[S] => mode[S] # "RX" /\ ~Stale)
  BY <1>1, <1>3 DEF IInv, Counting, Asking
<1>11. n = S => Counting'
  <2> SUFFICES ASSUME n = S PROVE Counting'
    OBVIOUS
  <2>1. ~Asking'
    BY <1>6 DEF Asking
  <2>2. Top(S)'[1] = "clear" \/ (Top(S)'[1] = "polled" /\ mode'[S] # "RX")
    BY <1>2, <1>6, <1>10 DEF chipVars
  <2> QED
    BY <2>1, <2>2 DEF Counting, Switching
<1>12. Carried'
  BY <1>1, <1>2, <1>6, <1>7, CarriedGently DEF IInv, chipVars, history
<1>13. Earned'
  <2>1. CASE n = R
    <3>1. Found' => Found
      BY <1>4, <1>6, <2>1, Nodes DEF Found
    <3> QED
      BY <1>1, <1>2, <1>4, <2>1, <3>1, Nodes, EarnedOn DEF IInv, chipVars, history
  <2>2. CASE n = S
    <3>1. ~Found
      BY <1>3, <2>2 DEF Found
    <3>2. Found' => ret'[S]
      BY DEF Found
    <3>3. got => ~cleared[S]
      BY <1>4, <1>10, <2>2 DEF got, Stale
    <3>4. acks \in Nat /\ acked \in Nat /\ acks' = acks /\ acked' = acked /\ fifo' = fifo
      BY <1>1, <1>2 DEF Registers, chipVars, history
    <3>5. AckAtS' = AckAtS
      BY <3>4 DEF AckAtS
    <3>6. Uncounted' + Remembered' <= Uncounted + Remembered
      <4>1. CASE got
        <5>1. Remembered = 1 /\ Remembered' = 0 /\ Uncounted' \in {0, 1} /\ Uncounted = 0
          BY <1>4, <2>2, <3>1, <3>3, <4>1 DEF Remembered, Uncounted
        <5> QED
          BY <5>1 DEF Remembered, Uncounted
      <4>2. CASE ~got
        <5>1. Remembered' = Remembered /\ Uncounted' = 0 /\ Uncounted = 0
          BY <1>4, <2>2, <3>1, <3>2, <4>2 DEF Remembered, Uncounted
        <5> QED
          BY <5>1 DEF Remembered, Uncounted
      <4> QED
        BY <4>1, <4>2
    <3>7. /\ Uncounted \in {0, 1} /\ Remembered \in {0, 1} /\ AckAtS \in {0, 1}
          /\ Uncounted' \in {0, 1} /\ Remembered' \in {0, 1}
      BY DEF Uncounted, Remembered, AckAtS
    <3>8. \A a, b \in Nat, u, v, w, x, y \in {0, 1} : x + y <= u + v /\ a + u + v + w <= b => a + x + y + w <= b
      OBVIOUS
    <3> QED
      BY <3>4, <3>5, <3>6, <3>7, <3>8 DEF IInv, Earned
  <2> QED
    BY <2>1, <2>2, Nodes
<1> QED
  BY <1>6, <1>7, <1>8, <1>9, <1>11, <1>12, <1>13, Assemble

-----------------------------------------------------------------------------
(* The frame goes into the FIFO, and on the air. *)

LEMMA OwnFrames ==
  ASSUME NEW n \in Node, NEW f \in Own(n)
  PROVE  /\ f \in Frame /\ f.kind = Sends(n) /\ f.kind # Heard(n) /\ f # Nothing
         /\ f.kind = "data" => f.no \in 1 .. MaxFrames
BY Nodes DEF Own, Frame, Data, AckFrame, Nothing, Sends, Heard

LEMMA FillStep == ASSUME IInv, NEW n \in Node, Fill(n) PROVE IInv'
<1> DEFINE q == stk[n]
           r == Tail(q)
           f == Top(n)[2]
           g == IF fifo[n] = Nothing THEN f ELSE [kind |-> "bad", no |-> 0]
<1>1. Stacks /\ Registers /\ Top(n)[1] = "fill"
  BY ShapeIs, AtTop DEF IInv, Fill
<1>2. /\ Goto(n, <<>>) /\ fifo' = [fifo EXCEPT ![n] = g]
      /\ pending' = [pending EXCEPT ![n] = @ \/ (mask[n] /\ fifo[n] = Nothing)]
      /\ UNCHANGED <<mode, chip, level, mask, regVars, RXFIFO, lost, ret, history>>
  BY DEF Fill, Top
<1>3. q \in Stack(n) /\ q[1][1] = "fill" /\ q[1][1] \notin Ends /\ f \in Own(n)
  BY <1>1, TopIsLabel DEF Stacks, Top, Ends
<1> HIDE DEF f
<1>4. /\ r \in Stack(n) /\ r[1] = q[2] /\ Follows(q[1], q[2])
      /\ r[Len(r)] = q[Len(q)] /\ ~Owing(r) /\ Owing(q)
      /\ Holds(q, "ackTest") <=> Holds(r, "ackTest")
  BY <1>3, PopStack
<1>5. r[1] = <<"set", "TX">>
  BY <1>3, <1>4 DEF Follows, Switching
<1>6. f \in Frame /\ f.kind = Sends(n) /\ f.kind # Heard(n) /\ (f.kind = "data" => f.no \in 1 .. MaxFrames)
  BY <1>3, OwnFrames
<1>7. /\ g \in Frame /\ g.kind \in {Sends(n), "bad"} /\ g.kind # Heard(n)
      /\ g.kind = "data" => g.no \in 1 .. MaxFrames
      /\ g.kind # "bad" => fifo[n] = Nothing
  BY <1>6, Nodes DEF Frame, Heard, Sends
<1> HIDE DEF r, g
<1>8. stk' = [stk EXCEPT ![n] = r]
  <2>1. <<>> \o r = r
    BY <1>4, ConcatEmptySeq DEF Stack
  <2> QED
    BY <1>2, <2>1 DEF Goto, r
<1>9. Stacks' /\ stk'[n] = r /\ Top(n)' = <<"set", "TX">> /\ \A o \in Node \ {n} : stk'[o] = stk[o]
  BY <1>1, <1>4, <1>5, <1>8, NewStack
<1>10. fifo'[n] = g /\ \A o \in Node \ {n} : fifo'[o] = fifo[o] /\ pending'[o] = pending[o]
  BY <1>1, <1>2 DEF Registers
<1>11. Registers' /\ Apart(n)
  BY <1>1, <1>2, <1>7, <1>9, <1>10 DEF Registers, Apart, regVars, history
<1>12. mode[n] = "STANDBY" /\ chip[n] = "STANDBY" /\ mask[n]
  BY <1>1 DEF IInv, Tracks
<1>13. Tracks(n)'
  BY <1>2, <1>9, <1>12 DEF Tracks
<1>14. Holding(n)'
  BY <1>2, <1>7, <1>10, <1>12 DEF Holding, Heard, Sends
<1>15. n = S => Counting'
  <2> SUFFICES ASSUME n = S PROVE Counting'
    OBVIOUS
  <2>1. (Stale' <=> Stale) /\ (Asking' <=> Asking)
    BY <1>2, <1>4, <1>9 DEF Stale, Asking, regVars
  <2>2. ~Asking
    BY <1>1 DEF IInv, Counting, Switching
  <2> QED
    BY <1>2, <1>9, <1>12, <2>1, <2>2 DEF Counting, Switching
<1>16. Earned'
  <2>1. Found' => Found
    <3>1. CASE n = S
      BY <1>2, <1>4, <1>9, <3>1 DEF Found
    <3>2. CASE n = R
      BY <1>2, <1>9, <3>2, Nodes DEF Found
    <3> QED
      BY <3>1, <3>2, Nodes
  <2>2. fifo'[S].kind = "ack" => fifo[S].kind = "ack"
    BY <1>7, <1>10, Nodes DEF Heard
  <2> QED
    BY <1>1, <1>2, <2>1, <2>2, EarnedOn DEF IInv, regVars, history
<1>17. Carried'
  <2>1. /\ acks' = acks /\ acks \in Nat /\ sent' = sent /\ RXFIFO' = RXFIFO /\ Queued' = Queued /\ Queued \in Nat
    BY <1>1, <1>2, Terms DEF Registers, Queued, history
  <2>2. CASE n = S
    <3>1. Owing(stk'[R]) = Owing(stk[R]) /\ fifo'[R] = fifo[R] /\ Owing(stk[S]) /\ ~Owing(stk'[S])
      BY <1>4, <1>9, <1>10, <2>2, Nodes
    <3>2. DataDue = 1 /\ DataDue' = 0
      BY <3>1 DEF DataDue
    <3>3. fifo'[S].kind = "data" => fifo[S].kind # "data"
      BY <1>7, <1>10, <2>2 DEF Nothing
    <3>4. Acks' <= Acks
      BY <2>1, <3>1 DEF Acks, AckAtR, AckDue
    <3>5. AtR' <= AtR
      BY <2>1, <3>1 DEF AtR, DataAtR
    <3>6. OnWay' <= OnWay
      BY <3>2, <3>3 DEF OnWay, DataAtS
    <3> QED
      BY <1>1, <1>11, <2>1, <3>4, <3>5, <3>6, CarryOn DEF IInv
  <2>3. CASE n = R
    <3>1. Owing(stk'[S]) = Owing(stk[S]) /\ fifo'[S] = fifo[S] /\ Owing(stk[R]) /\ ~Owing(stk'[R])
      BY <1>4, <1>9, <1>10, <2>3, Nodes
    <3>2. AckDue = 1 /\ AckDue' = 0
      BY <3>1 DEF AckDue
    <3>3. fifo'[R].kind = "ack" => fifo[R].kind # "ack"
      BY <1>7, <1>10, <2>3 DEF Nothing
    <3>4. fifo'[R].kind # "data"
      BY <1>7, <1>10, <2>3, Nodes DEF Heard
    <3>5. Acks' <= Acks
      BY <2>1, <3>2, <3>3 DEF Acks, AckAtR
    <3>6. AtR' <= AtR
      BY <2>1, <3>4 DEF AtR, DataAtR
    <3>7. OnWay' <= OnWay
      BY <3>1 DEF OnWay, DataAtS, DataDue
    <3> QED
      BY <1>1, <1>11, <2>1, <3>5, <3>6, <3>7, CarryOn DEF IInv
  <2> QED
    BY <2>2, <2>3, Nodes
<1> QED
  BY <1>9, <1>11, <1>13, <1>14, <1>15, <1>16, <1>17, Assemble

\* What becomes of a frame on the air: o hears it, whole or spoilt, or nobody does.
LEMMA OnTheAir ==
  ASSUME IInv, NEW n \in Node, Transmit(n)
  PROVE  /\ chip[n] = "TX" /\ fifo[n].kind \in {Sends(n), "bad"} /\ fifo'[n] = Nothing /\ pending'[n] = pending[n]
         /\ faults' \in 0 .. MaxFaults /\ fifo' \in [Node -> Frame] /\ pending' \in [Node -> BOOLEAN]
         /\ \A o \in Node \ {n} :
               \/ fifo'[o] = fifo[o] /\ pending'[o] = pending[o]
               \/ /\ Listening(o) /\ pending'[o] = (pending[o] \/ mask[o])
                  /\ \/ fifo'[o] = fifo[n]
                     \/ fifo'[o].kind \in {"bad", "short"} /\ fifo'[o] \in Frame
<1>1. Registers
  BY ShapeIs DEF IInv
<1>2. chip[n] = "TX" /\ fifo[n].kind \in {Sends(n), "bad"}
  BY DEF IInv, Holding, Transmit, Heard, Sends
<1>3. PICK o \in Node \ {n}, as \in {fifo[n].kind, "bad", "short", "none"} :
         /\ faults' = IF as = fifo[n].kind THEN faults ELSE faults + 1
         /\ faults' <= MaxFaults
         /\ IF Listening(o) /\ as # "none"
            THEN /\ fifo' = [fifo EXCEPT ![n] = Nothing,
                                         ![o] = IF as = fifo[n].kind THEN fifo[n] ELSE [kind |-> as, no |-> 0]]
                 /\ pending' = [pending EXCEPT ![o] = @ \/ mask[o]]
            ELSE fifo' = [fifo EXCEPT ![n] = Nothing] /\ UNCHANGED pending
  BY DEF Transmit
<1>4. faults' \in 0 .. MaxFaults
  <2>1. faults' <= MaxFaults /\ (faults' = faults \/ faults' = faults + 1)
    BY <1>3
  <2>2. faults \in Nat
    BY <1>1, Nodes DEF Registers
  <2> QED
    BY <2>1, <2>2, Nodes
<1>5. Nothing \in Frame /\ [kind |-> "bad", no |-> 0] \in Frame /\ [kind |-> "short", no |-> 0] \in Frame
  BY Nodes DEF Nothing, Frame
<1>6. \A p \in Node \ {n} : p = o
  BY <1>3, Nodes
<1>7. CASE Listening(o) /\ as # "none"
  <2> DEFINE f == IF as = fifo[n].kind THEN fifo[n] ELSE [kind |-> as, no |-> 0]
  <2>1. fifo' = [fifo EXCEPT ![n] = Nothing, ![o] = f] /\ pending' = [pending EXCEPT ![o] = @ \/ mask[o]]
    BY <1>3, <1>7
  <2>2. f \in Frame /\ (f = fifo[n] \/ f.kind \in {"bad", "short"})
    BY <1>1, <1>3, <1>5, <1>7 DEF Registers
  <2> HIDE DEF f
  <2>3. /\ fifo'[n] = Nothing /\ pending'[n] = pending[n] /\ fifo'[o] = f /\ pending'[o] = (pending[o] \/ mask[o])
        /\ fifo' \in [Node -> Frame] /\ pending' \in [Node -> BOOLEAN]
    BY <1>1, <1>3, <1>5, <2>1, <2>2 DEF Registers
  <2> QED
    BY <1>2, <1>4, <1>6, <1>7, <2>2, <2>3
<1>8. CASE ~(Listening(o) /\ as # "none")
  <2>1. fifo' = [fifo EXCEPT ![n] = Nothing] /\ pending' = pending
    BY <1>3, <1>8
  <2> QED
    BY <1>1, <1>2, <1>4, <1>5, <2>1 DEF Registers
<1> QED
  BY <1>7, <1>8

LEMMA TransmitStep == ASSUME IInv, NEW n \in Node, Transmit(n) PROVE IInv'
<1>1. Stacks /\ Registers
  BY ShapeIs DEF IInv
<1>2. /\ acks' = IF fifo[n].kind = "ack" THEN acks + 1 ELSE acks
      /\ UNCHANGED <<stk, mode, chip, level, mask, regVars, RXFIFO, lost, ret, sent, acked, taken>>
  BY DEF Transmit
<1>3. /\ chip[n] = "TX" /\ fifo[n].kind \in {Sends(n), "bad"} /\ fifo'[n] = Nothing /\ pending'[n] = pending[n]
      /\ faults' \in 0 .. MaxFaults /\ fifo' \in [Node -> Frame] /\ pending' \in [Node -> BOOLEAN]
  BY OnTheAir
<1>4. \A o \in Node \ {n} :
         \/ fifo'[o] = fifo[o] /\ pending'[o] = pending[o]
         \/ /\ Listening(o) /\ pending'[o] = (pending[o] \/ mask[o])
            /\ \/ fifo'[o] = fifo[n]
               \/ fifo'[o].kind \in {"bad", "short"}
  BY OnTheAir
<1>5. Nothing.kind = "none"
  BY DEF Nothing
<1>6. Stacks' /\ Registers'
  <2>1. acks' \in Nat
    BY <1>1, <1>2 DEF Registers
  <2> QED
    BY <1>1, <1>2, <1>3, <2>1 DEF Registers, Stacks, regVars
<1>7. ASSUME NEW o \in Node PROVE Tracks(o)' /\ Holding(o)'
  <2>1. Tracks(o) /\ Holding(o)
    BY DEF IInv
  <2>2. CASE o = n \/ (fifo'[o] = fifo[o] /\ pending'[o] = pending[o])
    <3>1. Tracks(o)'
      BY <1>2, <1>3, <1>5, <2>1, <2>2 DEF Tracks, Top
    <3>2. Holding(o)'
      BY <1>2, <1>3, <1>5, <2>1, <2>2 DEF Holding, Heard, Sends
    <3> QED
      BY <3>1, <3>2
  <2>3. CASE /\ o # n /\ Listening(o) /\ pending'[o] = (pending[o] \/ mask[o])
             /\ fifo'[o] = fifo[n] \/ fifo'[o].kind \in {"bad", "short"}
    <3>1. chip[o] = "RX" /\ mode[o] = "RX" /\ mask[o]
      BY <2>1, <2>3 DEF Listening, Tracks
    <3>2. Tracks(o)'
      BY <1>2, <2>1, <3>1 DEF Tracks, Top
    <3>3. Sends(n) = Heard(o) /\ Sends(n) # Sends(o) /\ Sends(n) \in {"data", "ack"} /\ Sends(o) \in {"data", "ack"}
      BY <2>3, Nodes DEF Heard, Sends
    <3>4. fifo[n].kind = "data" => fifo[n].no \in 1 .. MaxFrames
      BY DEF IInv, Holding
    <3>5. /\ fifo'[o].kind \in {Sends(n), "bad", "short"} /\ pending'[o]
          /\ fifo'[o].kind = "data" => fifo'[o].no \in 1 .. MaxFrames
      BY <1>3, <2>3, <3>1, <3>3, <3>4
    <3>6. Heard(o)' = Heard(o) /\ Sends(o)' = Sends(o)
      BY DEF Heard, Sends
    <3>7. chip'[o] = "RX" /\ mode'[o] = "RX"
      BY <1>2, <3>1
    <3>8. Holding(o)'
      BY <3>3, <3>5, <3>6, <3>7 DEF Holding
    <3> QED
      BY <3>2, <3>8
  <2> QED
    BY <1>4, <2>2, <2>3
<1>8. Counting'
  BY <1>2 DEF IInv, Counting, Stale, Asking, Top, regVars
<1>9. /\ acks \in Nat /\ acked \in Nat /\ sent' = sent /\ acked' = acked /\ Queued' = Queued /\ Queued \in Nat
      /\ AckDue' = AckDue /\ DataDue' = DataDue /\ AckDue \in {0, 1} /\ DataDue \in {0, 1}
      /\ Uncounted' = Uncounted /\ Remembered' = Remembered
      /\ Uncounted \in {0, 1} /\ Remembered \in {0, 1}
  <2>1. acks \in Nat /\ acked \in Nat /\ sent' = sent /\ acked' = acked /\ Queued' = Queued /\ Queued \in Nat
    BY <1>1, <1>2, Terms DEF Registers, Queued
  <2>2. AckDue' = AckDue /\ DataDue' = DataDue /\ AckDue \in {0, 1} /\ DataDue \in {0, 1}
    BY <1>2 DEF AckDue, DataDue
  <2>3. Uncounted' = Uncounted /\ Remembered' = Remembered /\ Uncounted \in {0, 1} /\ Remembered \in {0, 1}
    BY <1>2 DEF Uncounted, Remembered, Found, regVars
  <2> QED
    BY <2>1, <2>2, <2>3
<1>10. CASE n = R
  <2>1. /\ fifo[R].kind \in {"ack", "bad"} /\ fifo'[R].kind = "none"
        /\ fifo'[S].kind = "ack" => fifo[R].kind = "ack" \/ fifo[S].kind = "ack"
        /\ fifo'[S].kind = "data" => fifo[S].kind = "data"
    BY <1>3, <1>4, <1>5, <1>10, Nodes DEF Sends
  <2>2. Earned'
    <3>1. acks' + AckAtS >= acks + AckAtS'
      BY <1>2, <1>9, <1>10, <2>1 DEF AckAtS
    <3>2. \A a, k, l \in Nat, u, r, x, y \in {0, 1} : a + u + r + x <= k /\ l + x >= k + y => a + u + r + y <= l
      OBVIOUS
    <3>3. AckAtS \in {0, 1} /\ AckAtS' \in {0, 1} /\ acks' \in Nat
      BY <1>6 DEF AckAtS, Registers
    <3>4. Uncounted' + Remembered' \in Nat
      BY DEF Uncounted, Remembered
    <3> QED
      BY <1>9, <3>1, <3>2, <3>3 DEF IInv, Earned
  <2>3. Carried'
    <3>1. Acks' <= Acks
      BY <1>2, <1>9, <1>10, <2>1 DEF Acks, AckAtR
    <3>2. AtR' <= AtR
      BY <1>9, <2>1 DEF AtR, DataAtR
    <3>3. OnWay' <= OnWay
      BY <1>9, <2>1 DEF OnWay, DataAtS
    <3> QED
      BY <1>1, <1>6, <1>9, <3>1, <3>2, <3>3, CarryOn DEF IInv
  <2> QED
    BY <1>6, <1>7, <1>8, <2>2, <2>3, ShapeIs DEF IInv, Shape, Stacks, Registers
<1>11. CASE n = S
  <2>1. /\ fifo[S].kind \in {"data", "bad"} /\ fifo'[S].kind = "none"
        /\ fifo'[R].kind = "ack" => fifo[R].kind = "ack"
        /\ fifo'[R].kind = "data" => fifo[S].kind = "data" \/ fifo[R].kind = "data"
    BY <1>3, <1>4, <1>5, <1>11, Nodes DEF Sends
  <2>2. Earned'
    <3>1. acks' = acks /\ AckAtS' = 0 /\ AckAtS = 0
      BY <1>2, <1>11, <2>1 DEF AckAtS
    <3> QED
      BY <1>9, <3>1 DEF IInv, Earned
  <2>3. Carried'
    <3>1. Acks' <= Acks
      BY <1>2, <1>9, <1>11, <2>1 DEF Acks, AckAtR
    <3>2. CASE fifo[S].kind = "data"
      <4>1. Acks' <= Acks + 0
        BY <1>1, <3>1, Terms
      <4>2. AtR' <= AtR + 1
        BY <1>9 DEF AtR, DataAtR
      <4>3. OnWay' <= OnWay + (-1)
        BY <1>9, <2>1, <3>2 DEF OnWay, DataAtS
      <4>4. Shift(0, 1, -1)
        BY <4>1, <4>2, <4>3 DEF Shift
      <4>5. sent' = sent + (0 + 1 + (-1))
        BY <1>1, <1>9, Terms
      <4> QED
        BY <1>1, <1>6, <4>4, <4>5, CarryAny DEF IInv
    <3>3. CASE fifo[S].kind # "data"
      <4>1. AtR' <= AtR
        BY <1>9, <2>1, <3>3 DEF AtR, DataAtR
      <4>2. OnWay' <= OnWay
        BY <1>9, <2>1 DEF OnWay, DataAtS
      <4> QED
        BY <1>1, <1>6, <1>9, <3>1, <4>1, <4>2, CarryOn DEF IInv
    <3> QED
      BY <3>2, <3>3
  <2> QED
    BY <1>6, <1>7, <1>8, <2>2, <2>3, ShapeIs DEF IInv, Shape, Stacks, Registers
<1> QED
  BY <1>10, <1>11, Nodes

-----------------------------------------------------------------------------
(* The steps of the interrupt handler. *)

LEMMA IgnoredStep == ASSUME IInv, NEW n \in Node, InterruptIgnored(n) PROVE IInv'
<1>1. Stacks /\ Registers
  BY ShapeIs DEF IInv
<1>2. /\ pending' = [pending EXCEPT ![n] = FALSE] /\ (mode[n] # "RX" \/ fifo[n] = Nothing)
      /\ UNCHANGED <<stk, chipVars, level, mask, regVars, RXFIFO, lost, ret, history>>
  BY DEF InterruptIgnored, Served
<1>3. Stacks' /\ Registers' /\ Apart(n) /\ Calm(n)
  BY <1>1, <1>2, KeepsSame DEF Stacks, Registers, Apart, Calm, chipVars, regVars, history
<1>4. Tracks(n)'
  BY <1>2 DEF IInv, Tracks, Top, chipVars
<1>5. Holding(n)'
  <2>1. chip[n] = "RX" => fifo[n] = Nothing
    BY <1>2 DEF IInv, Holding
  <2>2. Nothing.kind = "none"
    BY DEF Nothing
  <2> QED
    BY <1>2, <2>1, <2>2 DEF IInv, Holding, Heard, Sends, chipVars
<1>6. Counting'
  BY <1>2 DEF IInv, Counting, Stale, Asking, Top, chipVars, regVars
<1>7. Earned' /\ Carried'
  BY <1>1, <1>2, <1>3, StillEarned, StillCarried DEF IInv, regVars
<1> QED
  BY <1>3, <1>4, <1>5, <1>6, <1>7, Assemble

\* The handler finds no frame that was cut off, but between WriteMode and StoreMode.
LEMMA InterruptedAt ==
  ASSUME IInv, NEW n \in Node, level[n] = "HI", mode[n] = "RX"
  PROVE  /\ Top(n)[1] \notin {"write", "starved"}
         /\ fifo[n].kind = "cut" => Top(n)[1] = "mode" /\ chip[n] = "STANDBY"
         /\ fifo[n].kind \in {"data", "ack", "bad", "short"} => Top(n)[1] # "mode" /\ chip[n] = "RX"
         /\ fifo[n].kind \in {"data", "ack"} => fifo[n].kind = Heard(n)
<1>1. Tracks(n) /\ Holding(n)
  BY DEF IInv
<1>2. Top(n)[1] \notin {"write", "starved"}
  BY <1>1 DEF Tracks
<1>3. fifo[n].kind = "cut" => Top(n)[1] = "mode" /\ chip[n] = "STANDBY"
  BY <1>1, <1>2 DEF Tracks, Holding
<1>4. fifo[n].kind \in {"data", "ack", "bad", "short"} => Top(n)[1] # "mode" /\ chip[n] = "RX"
  BY <1>1, <1>2 DEF Tracks
<1>5. fifo[n].kind \in {"data", "ack"} => fifo[n].kind = Heard(n)
  BY <1>1, <1>4 DEF Holding, Heard, Sends
<1> QED
  BY <1>2, <1>3, <1>4, <1>5

LEMMA StarvesStep == ASSUME IInv, NEW n \in Node, InterruptStarves(n) PROVE IInv'
<1> DEFINE q == stk[n]
           p == <<<<"starved">>>> \o q
<1>1. Stacks /\ Registers
  BY ShapeIs DEF IInv
<1>2. /\ pending' = [pending EXCEPT ![n] = FALSE] /\ level[n] = "HI" /\ mode[n] = "RX" /\ fifo[n].kind = "cut"
      /\ stk' = [stk EXCEPT ![n] = p]
      /\ level' = [level EXCEPT ![n] = "OFF"] /\ mask' = [mask EXCEPT ![n] = FALSE]
      /\ UNCHANGED <<chipVars, regVars, RXFIFO, lost, ret, history>>
  BY <1>1 DEF InterruptStarves, Served, Stacks
<1>3. Top(n)[1] = "mode" /\ chip[n] = "STANDBY"
  BY <1>2, InterruptedAt
<1>4. q \in Stack(n) /\ <<"starved">> \in Label(n) /\ Follows(<<"starved">>, q[1])
  BY <1>1, Labels DEF Stacks, Others, Follows
<1> HIDE DEF q
<1>5. p \in Stack(n) /\ p[1] = <<"starved">> /\ Keeps(q, p)
  BY <1>4, KeepPush DEF Sending
<1> HIDE DEF p
<1>6. Stacks' /\ stk'[n] = p /\ Top(n)' = <<"starved">> /\ \A o \in Node \ {n} : stk'[o] = stk[o]
  BY <1>1, <1>2, <1>5, NewStack
<1>7. Registers' /\ Apart(n) /\ Calm(n)
  BY <1>1, <1>2, <1>5, <1>6 DEF Registers, Apart, Calm, chipVars, regVars, history, q
<1>8. Tracks(n)'
  <2>1. level'[n] = "OFF"
    BY <1>1, <1>2 DEF Registers
  <2> QED
    BY <1>2, <1>3, <1>6, <2>1 DEF Tracks, chipVars
<1>9. Holding(n)'
  BY <1>2, <1>3 DEF IInv, Holding, Heard, Sends, chipVars
<1>10. n = S => Counting'
  <2> SUFFICES ASSUME n = S PROVE Counting'
    OBVIOUS
  <2>1. (Stale' <=> Stale) /\ (Asking' <=> Asking)
    BY <1>2, <1>5, <1>6, SameCounting DEF regVars, q
  <2>2. ~Stale
    BY <1>2, <1>3 DEF IInv, Counting
  <2> QED
    BY <1>6, <2>1, <2>2 DEF Counting, Switching
<1>11. Earned' /\ Carried'
  BY <1>1, <1>2, <1>7, StillEarned, StillCarried DEF IInv, regVars
<1> QED
  BY <1>6, <1>7, <1>8, <1>9, <1>10, <1>11, Assemble

\* What the handler throws away.
LEMMA Dropped ==
  ASSUME IInv, NEW n \in Node, level[n] = "HI", mode[n] = "RX", fifo[n].kind \in {"bad", "short"},
         pending' = [pending EXCEPT ![n] = FALSE],
         payload' = [payload EXCEPT ![n] = FALSE], ackFlag' = [ackFlag EXCEPT ![n] = FALSE],
         NEW f \in Frame, f.kind \in {"none", "rest"}, fifo' = [fifo EXCEPT ![n] = f],
         UNCHANGED <<stk, mode, chip, level, mask, cleared, RXFIFO, lost, ret, history>>
  PROVE  IInv'
<1>1. Stacks /\ Registers
  BY ShapeIs DEF IInv
<1>2. Top(n)[1] \notin {"write", "starved", "mode"} /\ chip[n] = "RX"
  BY InterruptedAt
<1>3. fifo'[n] = f
  BY <1>1 DEF Registers
<1>4. Stacks' /\ Registers' /\ Apart(n)
  BY <1>1, <1>3 DEF Stacks, Registers, Apart, history
<1>5. Calm(n)
  BY <1>1, <1>3, KeepsSame DEF Calm, history, Registers
<1>6. Tracks(n)'
  BY <1>2 DEF IInv, Tracks, Top
<1>7. Holding(n)'
  BY <1>2, <1>3 DEF Holding, Heard, Sends
<1>8. n = S => Counting'
  <2> SUFFICES ASSUME n = S PROVE Counting'
    OBVIOUS
  <2>1. ~Stale' /\ (Asking' <=> Asking) /\ Top(S)' = Top(S)
    BY <1>1 DEF Stale, Asking, Registers, Top
  <2> QED
    BY <2>1 DEF IInv, Counting
<1>9. Earned' /\ Carried'
  BY <1>1, <1>4, <1>5, StillEarned, StillCarried DEF IInv
<1> QED
  BY <1>4, <1>6, <1>7, <1>8, <1>9, Assemble

LEMMA ShortStep == ASSUME IInv, NEW n \in Node, InterruptShort(n) PROVE IInv'
<1>1. Nothing \in Frame /\ Nothing.kind = "none" /\ [kind |-> "rest", no |-> 0] \in Frame
  BY Nodes DEF Nothing, Frame
<1>2. \E f \in Frame : f.kind \in {"none", "rest"} /\ fifo' = [fifo EXCEPT ![n] = f]
  BY <1>1 DEF InterruptShort
<1> QED
  BY <1>2, Dropped DEF InterruptShort, Served

LEMMA BadStep == ASSUME IInv, NEW n \in Node, InterruptBad(n) PROVE IInv'
<1>1. Nothing \in Frame /\ Nothing.kind = "none"
  BY Nodes DEF Nothing, Frame
<1> QED
  BY <1>1, Dropped DEF InterruptBad, Served

\* What the handler takes: the receiver is off afterwards.
LEMMA Taken ==
  ASSUME IInv, NEW n \in Node, level[n] = "HI", mode[n] = "RX", fifo[n].kind \in {"data", "ack"},
         pending' = [pending EXCEPT ![n] = FALSE], InterruptStandby(n),
         UNCHANGED <<stk, level, mask, ret, history>>, lost' \in 0 .. Len(RXFIFO'[R]),
         payload' \in [Node -> BOOLEAN], ackFlag' \in [Node -> BOOLEAN], cleared' \in [Node -> BOOLEAN],
         RXFIFO' \in [Node -> Seq(1 .. MaxFrames)],
         \A o \in Node \ {n} : ackFlag'[o] = ackFlag[o] /\ cleared'[o] = cleared[o] /\ RXFIFO'[o] = RXFIFO[o],
         n = S => ~(ackFlag'[S] /\ cleared'[S])
  PROVE  /\ fifo[n].kind = Heard(n) /\ fifo'[n].kind = "none" /\ \A o \in Node \ {n} : fifo'[o] = fifo[o]
         /\ Stacks' /\ Registers' /\ Apart(n) /\ Tracks(n)' /\ Holding(n)' /\ (n = S => Counting')
<1>1. Stacks /\ Registers
  BY ShapeIs DEF IInv
<1>2. Top(n)[1] \notin {"write", "starved", "mode"} /\ chip[n] = "RX" /\ fifo[n].kind = Heard(n)
  BY InterruptedAt
<1>3. /\ mode' = [mode EXCEPT ![n] = "STANDBY"] /\ chip' = [chip EXCEPT ![n] = "STANDBY"]
      /\ fifo' = [fifo EXCEPT ![n] = Nothing]
  BY DEF InterruptStandby
<1>4. /\ Nothing.kind = "none" /\ Nothing \in Frame /\ fifo'[n] = Nothing /\ mode'[n] = "STANDBY" /\ chip'[n] = "STANDBY"
      /\ \A o \in Node \ {n} : fifo'[o] = fifo[o]
  BY <1>1, <1>3, Nodes DEF Registers, Nothing, Frame
<1>5. Stacks' /\ Registers' /\ Apart(n)
  BY <1>1, <1>3, <1>4 DEF Stacks, Registers, Apart, Mode, history
<1>6. Tracks(n)'
  BY <1>2, <1>4 DEF IInv, Tracks, Top
<1>7. Holding(n)'
  BY <1>4 DEF Holding, Heard, Sends
<1>8. n = S => Counting'
  <2> SUFFICES ASSUME n = S PROVE Counting'
    OBVIOUS
  <2>1. ~Stale' /\ (Asking' <=> Asking) /\ Top(S)' = Top(S) /\ mode'[S] = "STANDBY"
    BY <1>4 DEF Stale, Asking, Top
  <2> QED
    BY <2>1 DEF IInv, Counting
<1> QED
  BY <1>2, <1>4, <1>5, <1>6, <1>7, <1>8

LEMMA AckStep == ASSUME IInv, NEW n \in Node, InterruptAck(n) PROVE IInv'
<1>1. Stacks /\ Registers
  BY ShapeIs DEF IInv
<1>2. /\ level[n] = "HI" /\ mode[n] = "RX" /\ fifo[n].kind = "ack" /\ InterruptStandby(n)
      /\ pending' = [pending EXCEPT ![n] = FALSE] /\ payload' = [payload EXCEPT ![n] = TRUE]
      /\ ackFlag' = [ackFlag EXCEPT ![n] = TRUE] /\ cleared' = [cleared EXCEPT ![n] = FALSE]
      /\ UNCHANGED <<stk, level, mask, RXFIFO, lost, ret, history>>
  BY DEF InterruptAck, Served
<1>3. /\ payload' \in [Node -> BOOLEAN] /\ ackFlag' \in [Node -> BOOLEAN] /\ cleared' \in [Node -> BOOLEAN]
      /\ RXFIFO' \in [Node -> Seq(1 .. MaxFrames)] /\ lost' \in 0 .. Len(RXFIFO'[R]) /\ ~cleared'[n]
      /\ \A o \in Node \ {n} : ackFlag'[o] = ackFlag[o] /\ cleared'[o] = cleared[o] /\ RXFIFO'[o] = RXFIFO[o]
  BY <1>1, <1>2 DEF Registers
<1>4. /\ fifo[n].kind = Heard(n) /\ fifo'[n].kind = "none" /\ \A o \in Node \ {n} : fifo'[o] = fifo[o]
      /\ Stacks' /\ Registers' /\ Apart(n) /\ Tracks(n)' /\ Holding(n)' /\ (n = S => Counting')
  BY <1>2, <1>3, Taken
<1>5. n = S
  BY <1>2, <1>4, Nodes DEF Heard
<1>6. Carried'
  BY <1>1, <1>2, <1>4, CarriedGently DEF IInv, history
<1>7. Earned'
  <2>1. acks' = acks /\ acked' = acked /\ Uncounted' = Uncounted /\ acks \in Nat /\ acked \in Nat
    BY <1>1, <1>2 DEF Uncounted, Found, Registers, history
  <2>2. AckAtS = 1 /\ AckAtS' = 0 /\ Remembered' = 1
    BY <1>2, <1>3, <1>4, <1>5 DEF AckAtS, Remembered
  <2>3. Uncounted \in {0, 1} /\ Remembered \in {0, 1}
    BY DEF Uncounted, Remembered
  <2>4. \A a, b \in Nat, u, r \in {0, 1} : a + u + r + 1 <= b => a + u + 1 + 0 <= b
    OBVIOUS
  <2> QED
    BY <2>1, <2>2, <2>3, <2>4 DEF IInv, Earned
<1> QED
  BY <1>4, <1>6, <1>7, Assemble

LEMMA DataStep == ASSUME IInv, NEW n \in Node, InterruptData(n) PROVE IInv'
<1>1. Stacks /\ Registers
  BY ShapeIs DEF IInv
<1>2. /\ level[n] = "HI" /\ mode[n] = "RX" /\ fifo[n].kind = "data" /\ InterruptStandby(n)
      /\ pending' = [pending EXCEPT ![n] = FALSE] /\ payload' = [payload EXCEPT ![n] = TRUE]
      /\ ackFlag' = [ackFlag EXCEPT ![n] = FALSE]
      /\ RXFIFO' = [RXFIFO EXCEPT ![n] = Append(@, fifo[n].no)]
      /\ UNCHANGED <<stk, level, mask, cleared, lost, ret, history>>
  BY DEF InterruptData, DataHandled, Served
<1>3. RXFIFO[n] \in Seq(1 .. MaxFrames) /\ fifo[n].no \in 1 .. MaxFrames
  BY <1>1, <1>2 DEF Registers, IInv, Holding
<1>4. Append(RXFIFO[n], fifo[n].no) \in Seq(1 .. MaxFrames) /\ Len(Append(RXFIFO[n], fifo[n].no)) = Len(RXFIFO[n]) + 1
  BY <1>3, AppendProperties
<1>5. /\ RXFIFO'[n] = Append(RXFIFO[n], fifo[n].no) /\ RXFIFO' \in [Node -> Seq(1 .. MaxFrames)]
      /\ lost' \in 0 .. Len(RXFIFO'[R])
  <2>1. RXFIFO'[n] = Append(RXFIFO[n], fifo[n].no) /\ RXFIFO' \in [Node -> Seq(1 .. MaxFrames)]
    BY <1>1, <1>2, <1>4 DEF Registers
  <2>2. n # R => RXFIFO'[R] = RXFIFO[R]
    BY <1>1, <1>2, Nodes DEF Registers
  <2>3. Len(RXFIFO[R]) \in Nat /\ lost \in 0 .. Len(RXFIFO[R]) /\ lost' = lost
    BY <1>1, <1>2, Nodes DEF Registers
  <2>4. Len(RXFIFO'[R]) \in {Len(RXFIFO[R]), Len(RXFIFO[R]) + 1}
    BY <1>4, <2>1, <2>2
  <2> QED
    BY <2>1, <2>3, <2>4
<1>6. /\ payload' \in [Node -> BOOLEAN] /\ ackFlag' \in [Node -> BOOLEAN] /\ cleared' \in [Node -> BOOLEAN]
      /\ ~ackFlag'[n]
      /\ \A o \in Node \ {n} : ackFlag'[o] = ackFlag[o] /\ cleared'[o] = cleared[o] /\ RXFIFO'[o] = RXFIFO[o]
  BY <1>1, <1>2 DEF Registers
<1>7. /\ fifo[n].kind = Heard(n) /\ fifo'[n].kind = "none" /\ \A o \in Node \ {n} : fifo'[o] = fifo[o]
      /\ Stacks' /\ Registers' /\ Apart(n) /\ Tracks(n)' /\ Holding(n)' /\ (n = S => Counting')
  BY <1>2, <1>5, <1>6, Taken
<1>8. n = R
  BY <1>2, <1>7, Nodes DEF Heard
<1>9. Earned'
  <2>1. Found' => Found
    BY <1>2 DEF Found
  <2>2. fifo'[S] = fifo[S] /\ cleared'[S] = cleared[S]
    BY <1>2, <1>7, <1>8, Nodes
  <2> QED
    BY <1>1, <1>2, <2>1, <2>2, EarnedOn DEF IInv, history
<1>10. Carried'
  <2>1. acks' = acks /\ sent' = sent /\ fifo'[S] = fifo[S] /\ stk' = stk /\ acks \in Nat
    BY <1>1, <1>2, <1>7, <1>8, Nodes DEF history, Registers
  <2>2. Queued' = Queued + 1 /\ Queued \in Nat
    BY <1>1, <1>4, <1>5, <1>8, Terms DEF Queued
  <2>3. Acks' <= Acks
    BY <1>7, <1>8, <2>1 DEF Acks, AckAtR, AckDue
  <2>4. AtR' <= AtR
    <3>1. DataAtR = 1 /\ DataAtR' = 0
      BY <1>2, <1>7, <1>8 DEF DataAtR
    <3> QED
      BY <2>2, <3>1 DEF AtR
  <2>5. OnWay' <= OnWay
    BY <2>1 DEF OnWay, DataAtS, DataDue
  <2> QED
    BY <1>1, <1>7, <2>1, <2>3, <2>4, <2>5, CarryOn DEF IInv
<1> QED
  BY <1>7, <1>9, <1>10, Assemble

-----------------------------------------------------------------------------
(* The steps of the programs. *)

LEMMA SendStack ==
  ASSUME NEW n, NEW f \in Own(n), NEW e \in {"main", "poll"}
  PROVE  /\ Send(f) \o <<<<e>>>> \in Stack(n) /\ (Send(f) \o <<<<e>>>>)[1] = <<"send">>
         /\ (Send(f) \o <<<<e>>>>)[Len(Send(f) \o <<<<e>>>>)] = <<e>>
         /\ ~Holds(Send(f) \o <<<<e>>>>, "ackTest")
<1> DEFINE p == <<<<e>>>>
           a == <<"send">>
           b == <<"csma">>
           c == <<"frame", f>>
           p1 == <<c>> \o p
           p2 == <<b>> \o p1
           p3 == <<a>> \o p2
<1>1. a \in Label(n) /\ b \in Label(n) /\ c \in Label(n) /\ <<e>> \in Label(n)
  BY Labels DEF Others, Ends
<1>2. p \in Stack(n) /\ p[1] = <<e>> /\ p[Len(p)] = <<e>> /\ ~Owing(p) /\ ~Holds(p, "ackTest")
  BY <1>1, LastLabel DEF Ends
<1>3. a[1] = "send" /\ b[1] = "csma" /\ c[1] = "frame"
  OBVIOUS
<1>4. Follows(a, b) /\ Follows(b, c) /\ Follows(c, p[1])
  BY <1>2, <1>3 DEF Follows
<1>5. Send(f) = <<a, b, c>>
  BY DEF Send
<1> HIDE DEF a, b, c, p
<1>6. p1 \in Stack(n) /\ p1[1] = c /\ p1[Len(p1)] = <<e>> /\ ~Holds(p1, "ackTest")
  BY <1>1, <1>2, <1>3, <1>4, PushStack
<1> HIDE DEF p1
<1>7. p2 \in Stack(n) /\ p2[1] = b /\ Keeps(p1, p2)
  BY <1>1, <1>3, <1>4, <1>6, KeepPush DEF Sending
<1> HIDE DEF p2
<1>8. p3 \in Stack(n) /\ p3[1] = a /\ Keeps(p2, p3)
  BY <1>1, <1>3, <1>4, <1>7, KeepPush DEF Sending
<1>9. p3[Len(p3)] = <<e>> /\ ~Holds(p3, "ackTest")
  BY <1>6, <1>7, <1>8 DEF Keeps
<1>10. Send(f) \o p = p3
  <2>1. p \in Seq(Label(n))
    BY <1>2 DEF Stack
  <2>2. \A x, y, z \in Label(n) : <<x, y, z>> \o p = <<x>> \o (<<y>> \o (<<z>> \o p))
    BY <2>1, Three
  <2> QED
    BY <1>1, <1>5, <2>2 DEF p1, p2
<1> QED
  BY <1>8, <1>9, <1>10 DEF a, p

LEMMA AskStack ==
  ASSUME NEW n
  PROVE  /\ ACKReceived \o <<<<"polled">>>> \in Stack(n) /\ (ACKReceived \o <<<<"polled">>>>)[1] = <<"done">>
         /\ Holds(ACKReceived \o <<<<"polled">>>>, "ackTest") /\ ~Owing(ACKReceived \o <<<<"polled">>>>)
<1> DEFINE p == <<<<"polled">>>>
           a == <<"done">>
           b == <<"ackTest">>
           p1 == <<b>> \o p
           p2 == <<a>> \o p1
<1>1. a \in Label(n) /\ b \in Label(n) /\ <<"polled">> \in Label(n)
  BY Labels DEF Others, Ends
<1>2. p \in Stack(n) /\ p[1] = <<"polled">> /\ ~Owing(p)
  BY <1>1, LastLabel DEF Ends
<1>3. a[1] = "done" /\ b[1] = "ackTest"
  OBVIOUS
<1>4. Follows(a, b) /\ Follows(b, p[1])
  BY <1>2, <1>3 DEF Follows
<1>5. \A i \in 1 .. Len(p) : p[i][1] \notin Sending
  BY DEF Sending
<1>6. ACKReceived = <<a, b>>
  BY DEF ACKReceived
<1> HIDE DEF a, b, p
<1>7. b[1] \notin {"frame", "fill"} /\ b[1] \notin Sending
  BY <1>3 DEF Sending
<1>8. p1 \in Stack(n) /\ p1[1] = b /\ Holds(p1, "ackTest") /\ ~Owing(p1)
  BY <1>1, <1>2, <1>3, <1>4, <1>5, <1>7, PushStack
<1> HIDE DEF p1
<1>9. p2 \in Stack(n) /\ p2[1] = a /\ Keeps(p1, p2)
  BY <1>1, <1>3, <1>4, <1>8, KeepPush DEF Sending
<1>10. ACKReceived \o p = p2
  <2>1. p \in Seq(Label(n))
    BY <1>2 DEF Stack
  <2> QED
    BY <1>1, <1>6, <2>1, Two DEF p1
<1> QED
  BY <1>8, <1>9, <1>10 DEF a, p, Keeps

LEMMA FramesStack ==
  ASSUME NEW n
  PROVE  /\ <<<<"done">>, <<"frames">>>> \in Stack(n) /\ <<<<"done">>, <<"frames">>>>[1] = <<"done">>
         /\ ~Owing(<<<<"done">>, <<"frames">>>>)
<1> DEFINE a == <<"done">>
           b == <<"frames">>
           p == <<a, b>>
<1>1. a \in Label(n) /\ b \in Label(n)
  BY Labels DEF Others, Ends
<1>2. a[1] = "done" /\ b[1] = "frames"
  OBVIOUS
<1>3. Follows(a, b)
  BY <1>2 DEF Follows
<1> HIDE DEF a, b
<1>4. p \in Seq(Label(n)) /\ Len(p) = 2 /\ p[1] = a /\ p[2] = b /\ p # <<>>
  BY <1>1
<1> HIDE DEF p
<1>5. \A i \in 1 .. 2 : p[i][1] \notin {"frame", "fill", "ackTest"}
  BY <1>2, <1>4
<1>6. \A i \in 1 .. 1 : Follows(p[i], p[i + 1])
  BY <1>3, <1>4
<1>7. Linked(p) /\ OweOne(p) /\ AsksOnly(p) /\ ~Owing(p)
  BY <1>4, <1>5, <1>6 DEF Linked, OweOne, AsksOnly, Holds, Owing
<1>8. p \in Stack(n)
  BY <1>2, <1>4, <1>7 DEF Stack, Ends
<1> QED
  BY <1>4, <1>7, <1>8 DEF p, a, b

\* A program goes on: nothing is left below.
LEMMA GoesFrom ==
  ASSUME Stacks, NEW n \in Node, NEW e \in Ends, Top(n)[1] = e, NEW p \in Stack(n), Goto(n, p)
  PROVE  /\ Stacks' /\ stk'[n] = p /\ Top(n)' = p[1] /\ \A o \in Node \ {n} : stk'[o] = stk[o]
         /\ Top(n)[1] = e /\ ~Owing(stk[n]) /\ ~Holds(stk[n], "ackTest") /\ stk[n][Len(stk[n])] = <<e>>
<1> DEFINE q == stk[n]
<1>1. q \in Stack(n) /\ Top(n) = <<e>>
  BY TopIsLabel DEF Stacks
<1>2. q[1] = <<e>>
  BY <1>1 DEF Top
<1>3. q = <<<<e>>>> /\ Tail(q) = <<>>
  BY <1>1, <1>2, EndIsAll
<1>4. <<e>> \in Label(n)
  BY Labels
<1>5. ~Owing(q) /\ ~Holds(q, "ackTest") /\ q[Len(q)] = <<e>>
  BY <1>3, <1>4, LastLabel DEF Ends
<1>6. p \o <<>> = p
  BY ConcatEmptySeq DEF Stack
<1>7. stk' = [stk EXCEPT ![n] = p]
  BY <1>3, <1>6 DEF Goto
<1>8. Stacks' /\ stk'[n] = p /\ Top(n)' = p[1] /\ \A o \in Node \ {n} : stk'[o] = stk[o]
  BY <1>7, NewStack
<1> QED
  BY <1>1, <1>5, <1>8

LEMMA GoesOn ==
  ASSUME Stacks, NEW n \in Node, NEW e \in Ends, At(n, e), NEW p \in Stack(n), Goto(n, p)
  PROVE  /\ Stacks' /\ stk'[n] = p /\ Top(n)' = p[1] /\ \A o \in Node \ {n} : stk'[o] = stk[o]
         /\ Top(n)[1] = e /\ ~Owing(stk[n]) /\ ~Holds(stk[n], "ackTest") /\ stk[n][Len(stk[n])] = <<e>>
BY AtTop, GoesFrom

\* A program changes no register of the driver.
LEMMA Programs ==
  ASSUME IInv, NEW n \in Node, Stacks', \A o \in Node \ {n} : stk'[o] = stk[o] /\ RXFIFO'[o] = RXFIFO[o],
         UNCHANGED <<chipVars, intVars, regVars, ret>>, Registers',
         Top(n)[1] \in Ends, Top(n)'[1] \in {"send", "done", "main", "poll"},
         n = S => (Holds(stk'[S], "ackTest") => Top(S)'[1] = "done"),
         Earned', Carried'
  PROVE  IInv'
<1>1. Apart(n)
  BY DEF Apart, chipVars, intVars, regVars
<1>2. Tracks(n)'
  BY DEF IInv, Tracks, chipVars, intVars, Ends
<1>3. Holding(n)'
  BY DEF IInv, Holding, Heard, Sends, chipVars, intVars
<1>4. n = S => Counting'
  <2> SUFFICES ASSUME n = S PROVE Counting'
    OBVIOUS
  <2>1. (Stale' <=> Stale) /\ (Asking' => Top(S)'[1] = "done")
    BY DEF Stale, Asking, regVars
  <2>2. Stale => mode[S] # "RX"
    BY DEF IInv, Counting, Ends
  <2> QED
    BY <2>1, <2>2 DEF Counting, Switching, chipVars
<1> QED
  BY <1>1, <1>2, <1>3, <1>4, Assemble

LEMMA SendNextStep == ASSUME IInv, SendNext PROVE IInv'
<1> DEFINE f == Data(sent + 1)
           p == Send(f) \o <<<<"poll">>>>
<1>1. Stacks /\ Registers
  BY ShapeIs DEF IInv
<1>2. /\ At(S, "main") /\ sent < MaxFrames /\ sent' = sent + 1 /\ Goto(S, p)
      /\ UNCHANGED <<chipVars, intVars, regVars, RXFIFO, lost, ret, acked, taken, acks, faults>>
  BY DEF SendNext
<1>3. sent' \in 1 .. MaxFrames
  BY <1>1, <1>2, Nodes DEF Registers
<1>4. f \in Own(S)
  BY <1>2, <1>3 DEF Own
<1> HIDE DEF f
<1>5. p \in Stack(S) /\ p[1] = <<"send">> /\ p[Len(p)] = <<"poll">> /\ ~Holds(p, "ackTest")
  BY <1>4, SendStack
<1> HIDE DEF p
<1>6. /\ Stacks' /\ stk'[S] = p /\ Top(S)' = <<"send">> /\ Top(S)[1] = "main" /\ ~Owing(stk[S])
      /\ \A o \in Node \ {S} : stk'[o] = stk[o]
  BY <1>1, <1>2, <1>5, GoesOn, Nodes DEF Ends
<1>7. Registers'
  BY <1>1, <1>2, <1>3, Nodes DEF Registers, chipVars, intVars, regVars
<1>8. Earned'
  <2>1. ~Found'
    BY <1>5, <1>6 DEF Found
  <2> QED
    BY <1>1, <1>2, <2>1, EarnedOn DEF IInv, chipVars, regVars
<1>9. Carried'
  <2>1. stk'[R] = stk[R] /\ acks' = acks /\ fifo' = fifo /\ Queued' = Queued /\ acks \in Nat /\ Queued \in Nat
    BY <1>1, <1>2, <1>6, Nodes, Terms DEF chipVars, Queued
  <2>2. Acks' <= Acks + 0
    BY <2>1 DEF Acks, AckAtR, AckDue
  <2>3. AtR' <= AtR + 0
    BY <2>1 DEF AtR, DataAtR
  <2>4. OnWay' <= OnWay + 1
    <3>1. DataDue = 0
      BY <1>6 DEF DataDue
    <3> QED
      BY <2>1, <3>1 DEF OnWay, DataAtS, DataDue
  <2>5. Shift(0, 0, 1)
    BY <2>2, <2>3, <2>4 DEF Shift
  <2>6. sent' = sent + (0 + 0 + 1)
    BY <1>2
  <2> QED
    BY <1>1, <1>7, <2>5, <2>6, CarryAny DEF IInv
<1> QED
  BY <1>2, <1>5, <1>6, <1>7, <1>8, <1>9, Nodes, Programs DEF Ends

\* The polling goes round, or the program starts again.
LEMMA GoesRound ==
  ASSUME IInv, NEW n \in Node, NEW e \in Ends, At(n, e), NEW p \in Stack(n), Goto(n, p), ~Owing(p),
         p[1][1] \in {"done", "main", "poll"}, Holds(p, "ackTest") => p[1][1] = "done",
         UNCHANGED <<chipVars, intVars, regVars, RXFIFO, lost, ret, sent, taken, acks, faults>>, acked' \in Nat,
         Earned'
  PROVE  IInv'
<1>1. Stacks /\ Registers
  BY ShapeIs DEF IInv
<1>2. /\ Stacks' /\ stk'[n] = p /\ Top(n)' = p[1] /\ Top(n)[1] = e
      /\ \A o \in Node \ {n} : stk'[o] = stk[o]
  BY <1>1, GoesOn
<1>3. Registers' /\ Apart(n)
  BY <1>1, <1>2 DEF Registers, Apart, chipVars, intVars, regVars
<1>4. Carried'
  BY <1>1, <1>2, <1>3, CarriedGently DEF IInv, chipVars
<1> QED
  BY <1>2, <1>3, <1>4, Programs

LEMMA PollStep == ASSUME IInv, Poll PROVE IInv'
<1> DEFINE p == ACKReceived \o <<<<"polled">>>>
<1>1. Stacks /\ Registers
  BY ShapeIs DEF IInv
<1>2. At(S, "poll") /\ Goto(S, p) /\ UNCHANGED <<chipVars, intVars, regVars, RXFIFO, lost, ret, history>>
  BY DEF Poll
<1>3. p \in Stack(S) /\ p[1] = <<"done">> /\ Holds(p, "ackTest") /\ ~Owing(p)
  BY AskStack
<1> HIDE DEF p
<1>4. stk'[S] = p
  BY <1>1, <1>2, <1>3, GoesOn, Nodes DEF Ends
<1>5. ~Found'
  BY <1>3, <1>4 DEF Found
<1>6. Earned'
  BY <1>1, <1>2, <1>5, EarnedOn DEF IInv, chipVars, regVars, history
<1>7. acked' \in Nat
  BY <1>1, <1>2 DEF Registers, history
<1> QED
  BY <1>2, <1>3, <1>6, <1>7, Nodes, GoesRound DEF Ends, history

LEMMA PollEndsStep == ASSUME IInv, PollEnds PROVE IInv'
<1> DEFINE p == <<<<"main">>>>
<1>1. Stacks /\ Registers
  BY ShapeIs DEF IInv
<1>2. At(S, "poll") /\ Goto(S, p) /\ UNCHANGED <<chipVars, intVars, regVars, RXFIFO, lost, ret, history>>
  BY DEF PollEnds
<1>3. <<"main">> \in Label(S)
  BY Labels DEF Ends
<1>4. p \in Stack(S) /\ p[1] = <<"main">> /\ p[Len(p)] = <<"main">> /\ ~Holds(p, "ackTest") /\ ~Owing(p)
  BY <1>3, LastLabel DEF Ends
<1> HIDE DEF p
<1>5. stk'[S] = p
  BY <1>1, <1>2, <1>4, GoesOn, Nodes DEF Ends
<1>6. ~Found'
  BY <1>4, <1>5 DEF Found
<1>7. Earned'
  BY <1>1, <1>2, <1>6, EarnedOn DEF IInv, chipVars, regVars, history
<1>8. acked' \in Nat
  BY <1>1, <1>2 DEF Registers, history
<1> QED
  BY <1>2, <1>4, <1>7, <1>8, Nodes, GoesRound DEF Ends, history

LEMMA PolledStep == ASSUME IInv, Polled PROVE IInv'
<1> DEFINE e == IF ret[S] THEN "main" ELSE "poll"
           p == <<<<e>>>>
<1>1. Stacks /\ Registers
  BY ShapeIs DEF IInv
<1>2. /\ At(S, "polled") /\ Goto(S, p) /\ acked' = IF ret[S] THEN acked + 1 ELSE acked
      /\ UNCHANGED <<chipVars, intVars, regVars, RXFIFO, lost, ret, sent, taken, acks, faults>>
  BY DEF Polled
<1>3. e \in {"main", "poll"}
  OBVIOUS
<1> HIDE DEF e
<1>4. <<e>> \in Label(S) /\ <<e>>[1] = e /\ e \in Ends
  BY <1>3, Labels DEF Ends
<1>5. p \in Stack(S) /\ p[1] = <<e>> /\ p[Len(p)] = <<e>> /\ ~Holds(p, "ackTest") /\ ~Owing(p)
  BY <1>3, <1>4, LastLabel
<1> HIDE DEF p
<1>6. stk'[S] = p /\ ~Holds(stk[S], "ackTest") /\ stk[S][Len(stk[S])] = <<"polled">>
  BY <1>1, <1>2, <1>5, GoesOn, Nodes DEF Ends
<1>7. ~Found'
  BY <1>3, <1>4, <1>5, <1>6 DEF Found
<1>8. Found <=> ret[S]
  BY <1>6 DEF Found
<1>9. acked \in Nat /\ acked' \in Nat /\ acks \in Nat
  BY <1>1, <1>2 DEF Registers
<1>10. Earned'
  <2>1. acked' + Uncounted' = acked + Uncounted
    BY <1>2, <1>7, <1>8, <1>9 DEF Uncounted
  <2>2. acks' = acks /\ Remembered' = Remembered /\ AckAtS' = AckAtS
    BY <1>2 DEF Remembered, AckAtS, chipVars, regVars
  <2> QED
    BY <2>1, <2>2 DEF IInv, Earned
<1> QED
  BY <1>2, <1>3, <1>4, <1>5, <1>9, <1>10, Nodes, GoesRound DEF Ends

LEMMA SameFound ==
  ASSUME IInv, stk'[S] = stk[S], UNCHANGED <<chipVars, regVars, ret, acked, acks>>
  PROVE  Earned'
BY ShapeIs, EarnedOn DEF IInv, Found, chipVars, regVars

LEMMA AskFramesStep == ASSUME IInv, AskFrames PROVE IInv'
<1> DEFINE p == <<<<"done">>, <<"frames">>>>
<1>1. Stacks /\ Registers
  BY ShapeIs DEF IInv
<1>2. At(R, "main") /\ Goto(R, p) /\ UNCHANGED <<chipVars, intVars, regVars, RXFIFO, lost, ret, history>>
  BY DEF AskFrames
<1>3. p \in Stack(R) /\ p[1] = <<"done">> /\ ~Owing(p)
  BY FramesStack
<1> HIDE DEF p
<1>4. stk'[S] = stk[S]
  BY <1>1, <1>2, <1>3, GoesOn, Nodes DEF Ends
<1>5. Earned'
  BY <1>2, <1>4, SameFound DEF history
<1>6. acked' \in Nat
  BY <1>1, <1>2 DEF Registers, history
<1> QED
  BY <1>2, <1>3, <1>5, <1>6, Nodes, GoesRound DEF Ends, history

LEMMA NoFramesStep == ASSUME IInv, NoFrames PROVE IInv'
<1> DEFINE p == <<<<"main">>>>
<1>1. Stacks /\ Registers
  BY ShapeIs DEF IInv
<1>2. At(R, "frames") /\ Goto(R, p) /\ UNCHANGED <<chipVars, intVars, regVars, RXFIFO, lost, ret, history>>
  BY DEF NoFrames
<1>3. <<"main">> \in Label(R)
  BY Labels DEF Ends
<1>4. p \in Stack(R) /\ p[1] = <<"main">> /\ ~Holds(p, "ackTest") /\ ~Owing(p)
  BY <1>3, LastLabel DEF Ends
<1> HIDE DEF p
<1>5. stk'[S] = stk[S]
  BY <1>1, <1>2, <1>4, GoesOn, Nodes DEF Ends
<1>6. Earned'
  BY <1>2, <1>5, SameFound DEF history
<1>7. acked' \in Nat
  BY <1>1, <1>2 DEF Registers, history
<1> QED
  BY <1>2, <1>4, <1>6, <1>7, Nodes, GoesRound DEF Ends, history

\* What fifo_read finds when the count says that there is a frame.
LEMMA NotEmptyQueue ==
  ASSUME Registers, ~(Len(RXFIFO[R]) <= lost)
  PROVE  /\ RXFIFO[R] \in Seq(1 .. MaxFrames) /\ Head(RXFIFO[R]) \in 1 .. MaxFrames
         /\ Tail(RXFIFO[R]) \in Seq(1 .. MaxFrames) /\ Len(Tail(RXFIFO[R])) = Len(RXFIFO[R]) - 1
         /\ Len(RXFIFO[R]) \in Nat /\ lost \in 0 .. Len(RXFIFO[R]) - 1
<1>1. RXFIFO[R] \in Seq(1 .. MaxFrames) /\ Len(RXFIFO[R]) \in Nat /\ lost \in 0 .. Len(RXFIFO[R])
  BY Nodes DEF Registers
<1>2. RXFIFO[R] # <<>>
  BY <1>1, EmptySeq
<1>3. lost \in 0 .. Len(RXFIFO[R]) - 1
  BY <1>1
<1> QED
  BY <1>1, <1>2, <1>3, HeadTailProperties

LEMMA ReadFrameStep == ASSUME IInv, ReadFrame PROVE IInv'
<1> DEFINE p == Send(AckFrame) \o <<<<"main">>>>
<1>1. Stacks /\ Registers
  BY ShapeIs DEF IInv
<1>2. /\ At(R, "frames") /\ ~(Len(RXFIFO[R]) <= lost) /\ taken' = Head(RXFIFO[R])
      /\ RXFIFO' = [RXFIFO EXCEPT ![R] = Tail(@)] /\ lost' = lost /\ Goto(R, p)
      /\ UNCHANGED <<chipVars, intVars, regVars, ret, sent, acked, acks, faults>>
  BY DEF ReadFrame, fifo_isEmpty, fifo_read, simpleSendACK
<1>3. AckFrame \in Own(R)
  BY Nodes DEF Own
<1>4. p \in Stack(R) /\ p[1] = <<"send">>
  BY <1>3, SendStack
<1> HIDE DEF p
<1>5. /\ Stacks' /\ stk'[R] = p /\ Top(R)' = <<"send">> /\ Top(R)[1] = "frames" /\ ~Owing(stk[R])
      /\ stk'[S] = stk[S]
  BY <1>1, <1>2, <1>4, GoesOn, Nodes DEF Ends
<1>6. /\ RXFIFO[R] \in Seq(1 .. MaxFrames) /\ Head(RXFIFO[R]) \in 1 .. MaxFrames
      /\ Tail(RXFIFO[R]) \in Seq(1 .. MaxFrames) /\ Len(Tail(RXFIFO[R])) = Len(RXFIFO[R]) - 1
      /\ lost \in 0 .. Len(RXFIFO[R]) - 1
  BY <1>1, <1>2, NotEmptyQueue
<1>7. /\ RXFIFO' \in [Node -> Seq(1 .. MaxFrames)] /\ RXFIFO'[R] = Tail(RXFIFO[R])
      /\ RXFIFO'[S] = RXFIFO[S] /\ lost' \in 0 .. Len(RXFIFO'[R])
  BY <1>1, <1>2, <1>6, Nodes DEF Registers
<1>8. taken' \in 0 .. MaxFrames
  BY <1>2, <1>6, Nodes
<1>9. Registers'
  BY <1>1, <1>2, <1>7, <1>8 DEF Registers, chipVars, intVars, regVars
<1>10. Earned'
  BY <1>2, <1>5, SameFound
<1>11. Carried'
  <2>1. acks' = acks /\ fifo' = fifo /\ acks \in Nat /\ Queued' = Queued - 1 /\ Queued \in Nat
    <3>1. Queued' = Queued - 1
      BY <1>6, <1>7 DEF Queued
    <3> QED
      BY <1>1, <1>2, <3>1, Terms DEF chipVars
  <2>2. Acks' <= Acks + 1
    <3>1. AckDue = 0
      BY <1>5 DEF AckDue
    <3> QED
      BY <2>1, <3>1 DEF Acks, AckAtR, AckDue
  <2>3. AtR' <= AtR + (-1)
    BY <2>1 DEF AtR, DataAtR
  <2>4. OnWay' <= OnWay + 0
    BY <1>5, <2>1 DEF OnWay, DataAtS, DataDue
  <2>5. Shift(1, -1, 0)
    BY <2>2, <2>3, <2>4 DEF Shift
  <2>6. sent' = sent + (1 + (-1) + 0)
    BY <1>1, <1>2, Terms
  <2> QED
    BY <1>1, <1>9, <2>5, <2>6, CarryAny DEF IInv
<1>12. \A o \in Node \ {R} : stk'[o] = stk[o] /\ RXFIFO'[o] = RXFIFO[o]
  BY <1>5, <1>7, Nodes
<1> QED
  BY <1>2, <1>5, <1>9, <1>10, <1>11, <1>12, Nodes, Programs DEF Ends

\* Both at once: the handler's frame takes the place of the one that is read.
LEMMA ReadFrameRacedStep == ASSUME IInv, ReadFrameRaced PROVE IInv'
<1> DEFINE p == Send(AckFrame) \o <<<<"main">>>>
<1>1. Stacks /\ Registers
  BY ShapeIs DEF IInv
<1>2. /\ Top(R)[1] = "frames" /\ ~(Len(RXFIFO[R]) <= lost) /\ taken' = Head(RXFIFO[R])
      /\ RXFIFO' = [RXFIFO EXCEPT ![R] = Append(Tail(@), fifo[R].no)] /\ lost' = lost + 1 /\ Goto(R, p)
      /\ level[R] = "HI" /\ mode[R] = "RX" /\ fifo[R].kind = "data"
      /\ pending' = [pending EXCEPT ![R] = FALSE] /\ payload' = [payload EXCEPT ![R] = TRUE]
      /\ ackFlag' = [ackFlag EXCEPT ![R] = FALSE]
      /\ mode' = [mode EXCEPT ![R] = "STANDBY"] /\ chip' = [chip EXCEPT ![R] = "STANDBY"]
      /\ fifo' = [fifo EXCEPT ![R] = Nothing]
      /\ UNCHANGED <<level, mask, cleared, ret, sent, acked, acks, faults>>
  BY DEF ReadFrameRaced, DataHandled, InterruptStandby, Served, fifo_isEmpty, fifo_readRaced, simpleSendACK, Top
<1>3. AckFrame \in Own(R)
  BY Nodes DEF Own
<1>4. p \in Stack(R) /\ p[1] = <<"send">>
  BY <1>3, SendStack
<1> HIDE DEF p
<1>5. /\ Stacks' /\ stk'[R] = p /\ Top(R)' = <<"send">> /\ ~Owing(stk[R]) /\ stk'[S] = stk[S]
  BY <1>1, <1>2, <1>4, GoesFrom, Nodes DEF Ends
<1>6. /\ RXFIFO[R] \in Seq(1 .. MaxFrames) /\ Head(RXFIFO[R]) \in 1 .. MaxFrames
      /\ Tail(RXFIFO[R]) \in Seq(1 .. MaxFrames) /\ Len(Tail(RXFIFO[R])) = Len(RXFIFO[R]) - 1
      /\ Len(RXFIFO[R]) \in Nat /\ lost \in 0 .. Len(RXFIFO[R]) - 1 /\ fifo[R].no \in 1 .. MaxFrames
  BY <1>1, <1>2, Nodes, NotEmptyQueue DEF IInv, Holding
<1>7. /\ Append(Tail(RXFIFO[R]), fifo[R].no) \in Seq(1 .. MaxFrames)
      /\ Len(Append(Tail(RXFIFO[R]), fifo[R].no)) = Len(RXFIFO[R])
  BY <1>6, AppendProperties
<1>8. /\ RXFIFO' \in [Node -> Seq(1 .. MaxFrames)] /\ Len(RXFIFO'[R]) = Len(RXFIFO[R])
      /\ RXFIFO'[S] = RXFIFO[S] /\ lost' \in 0 .. Len(RXFIFO'[R])
  <2>1. /\ RXFIFO' \in [Node -> Seq(1 .. MaxFrames)] /\ RXFIFO'[S] = RXFIFO[S]
        /\ RXFIFO'[R] = Append(Tail(RXFIFO[R]), fifo[R].no)
    BY <1>1, <1>2, <1>7, Nodes DEF Registers
  <2> QED
    BY <1>2, <1>6, <1>7, <2>1
<1>9. /\ Nothing \in Frame /\ fifo'[R] = Nothing /\ Nothing.kind = "none" /\ fifo'[S] = fifo[S]
      /\ mode'[R] = "STANDBY" /\ chip'[R] = "STANDBY" /\ chip[R] = "RX"
  <2>1. chip[R] = "RX"
    BY <1>2, Nodes, InterruptedAt
  <2> QED
    BY <1>1, <1>2, <2>1, Nodes DEF Registers, Nothing, Frame
<1>10. taken' \in 0 .. MaxFrames
  BY <1>2, <1>6, Nodes
<1>11. Registers'
  BY <1>1, <1>2, <1>8, <1>9, <1>10 DEF Registers, Mode
<1>12. Apart(R)
  BY <1>1, <1>2, <1>5, <1>8, <1>9, Nodes DEF Apart, Registers
<1>13. Tracks(R)'
  BY <1>2, <1>5, <1>9, Nodes DEF IInv, Tracks
<1>14. Holding(R)'
  BY <1>9 DEF Holding, Heard, Sends
<1>15. Earned'
  <2>1. cleared'[S] = cleared[S] /\ (Found' => Found)
    BY <1>2, <1>5 DEF Found
  <2> QED
    BY <1>1, <1>2, <1>9, <2>1, EarnedOn DEF IInv
<1>16. Carried'
  <2>1. acks' = acks /\ sent' = sent /\ acks \in Nat /\ sent \in Nat /\ Queued' = Queued /\ Queued \in Nat
    BY <1>1, <1>2, <1>8, Terms DEF Queued
  <2>2. Acks' <= Acks + 1
    <3>1. AckDue = 0 /\ AckAtR' = 0
      BY <1>5, <1>9 DEF AckDue, AckAtR
    <3> QED
      BY <2>1, <3>1 DEF Acks, AckAtR, AckDue
  <2>3. AtR' <= AtR + (-1)
    <3>1. DataAtR = 1 /\ DataAtR' = 0
      BY <1>2, <1>9 DEF DataAtR
    <3> QED
      BY <2>1, <3>1 DEF AtR
  <2>4. OnWay' <= OnWay + 0
    BY <1>5, <1>9 DEF OnWay, DataAtS, DataDue
  <2>5. Shift(1, -1, 0)
    BY <2>2, <2>3, <2>4 DEF Shift
  <2>6. sent' = sent + (1 + (-1) + 0)
    BY <2>1
  <2> QED
    BY <1>1, <1>11, <2>5, <2>6, CarryAny DEF IInv
<1> QED
  BY <1>5, <1>11, <1>12, <1>13, <1>14, <1>15, <1>16, Nodes, Assemble

-----------------------------------------------------------------------------
(* The invariant holds. *)

LEMMA InitIInv == Init => IInv
<1> SUFFICES ASSUME Init PROVE IInv
  OBVIOUS
<1>1. \A n \in Node : stk[n] = <<<<"main">>>> /\ <<"main">> \in Label(n)
  BY Labels DEF Init, Ends
<1>2. \A n \in Node : stk[n] \in Stack(n) /\ Top(n) = <<"main">> /\ ~Owing(stk[n]) /\ stk[n][Len(stk[n])] = <<"main">>
  BY <1>1, LastLabel DEF Top, Ends
<1>3. Stacks
  BY <1>2 DEF Stacks, Init
<1>4. Nothing \in Frame /\ Nothing.kind = "none"
  BY Nodes DEF Nothing, Frame
<1>5. Registers
  BY <1>4, Nodes DEF Init, setupRadio, Registers, Mode
<1>6. \A n \in Node : Tracks(n) /\ Holding(n)
  BY <1>2, <1>4 DEF Init, setupRadio, Tracks, Holding, Heard, Sends
<1>7. Counting
  BY Nodes, <1>2 DEF Counting, Stale, Asking, Init, Switching
<1>8. ~ret[S] /\ cleared[S] /\ fifo[S] = Nothing /\ fifo[R] = Nothing /\ RXFIFO[R] = <<>>
  BY Nodes DEF Init, setupRadio
<1>9. Earned
  <2>1. Uncounted = 0 /\ Remembered = 0 /\ AckAtS = 0
    BY <1>4, <1>8 DEF Uncounted, Found, Remembered, AckAtS
  <2> QED
    BY <2>1 DEF Earned, Init
<1>10. Carried
  <2>1. AckAtR = 0 /\ DataAtR = 0 /\ DataAtS = 0 /\ AckDue = 0 /\ DataDue = 0
    BY <1>2, <1>4, <1>8, Nodes DEF AckAtR, DataAtR, DataAtS, AckDue, DataDue
  <2>2. Queued = 0
    BY <1>8 DEF Queued
  <2> QED
    BY <2>1, <2>2 DEF Carried, Acks, AtR, OnWay, Init
<1> QED
  BY <1>3, <1>5, <1>6, <1>7, <1>9, <1>10, ShapeIs DEF IInv

LEMMA Stutters == ASSUME IInv, UNCHANGED vars PROVE IInv'
<1>1. UNCHANGED <<stk, chipVars, intVars, regVars, RXFIFO, lost, ret, history>>
  BY DEF vars
<1>2. Stacks /\ Registers
  BY ShapeIs DEF IInv
<1>3. Stacks' /\ Registers' /\ Apart(S) /\ Calm(S)
  BY <1>1, <1>2, KeepsSame DEF Stacks, Registers, Apart, Calm, chipVars, intVars, regVars, history
<1>4. Tracks(S)'
  BY <1>1, Nodes DEF IInv, Tracks, Top, chipVars, intVars
<1>5. Holding(S)'
  BY <1>1, Nodes DEF IInv, Holding, Heard, Sends, chipVars, intVars
<1>6. Counting'
  BY <1>1 DEF IInv, Counting, Stale, Asking, Top, chipVars, regVars
<1>7. Earned' /\ Carried'
  BY <1>1, <1>2, <1>3, Nodes, StillEarned, StillCarried DEF IInv, regVars
<1> QED
  BY <1>3, <1>4, <1>5, <1>6, <1>7, Nodes, Assemble

LEMMA NextIInv == IInv /\ [Next]_vars => IInv'
<1> SUFFICES ASSUME IInv, [Next]_vars PROVE IInv'
  OBVIOUS
<1>1. CASE UNCHANGED vars
  BY <1>1, Stutters
<1>2. CASE Sender
  BY <1>2, SendNextStep, PollStep, PollEndsStep, PolledStep DEF Sender
<1>3. CASE Receiver
  BY <1>3, AskFramesStep, NoFramesStep, ReadFrameStep, ReadFrameRacedStep DEF Receiver
<1>4. ASSUME NEW n \in Node, Driver(n) PROVE IInv'
  <2>1. CASE ReadMode(n) \/ Select(n) \/ WriteMode(n) \/ StoreMode(n)
    BY <2>1, ReadModeStep, SelectStep, WriteModeStep, StoreModeStep
  <2>2. CASE ClearLength(n) \/ ClearAck(n) \/ RestartRx(n) \/ SetPin(n)
    BY <2>2, ClearLengthStep, ClearAckStep, RestartRxStep, SetPinStep
  <2>3. CASE receiveDone(n) \/ AckTest(n)
    BY <2>3, receiveDoneStep, AckTestStep
  <2>4. CASE StartSend(n) \/ CanSend(n) \/ Busy(n) \/ StopWaiting(n)
    BY <2>4, StartSendStep, CanSendStep, BusyStep, StopWaitingStep
  <2>5. CASE CallSendFrame(n) \/ Fill(n) \/ PacketSent(n)
    BY <2>5, CallSendFrameStep, FillStep, PacketSentStep
  <2> QED
    BY <1>4, <2>1, <2>2, <2>3, <2>4, <2>5 DEF Driver
<1>5. ASSUME NEW n \in Node, interruptHandler(n) PROVE IInv'
  BY <1>5, IgnoredStep, StarvesStep, ShortStep, BadStep, AckStep, DataStep DEF interruptHandler
<1>6. ASSUME NEW n \in Node, Transmit(n) PROVE IInv'
  BY <1>6, TransmitStep
<1> QED
  BY <1>1, <1>2, <1>3, <1>4, <1>5, <1>6 DEF Next

LEMMA Invariance == Spec => []IInv
BY InitIInv, NextIInv, PTL DEF Spec

-----------------------------------------------------------------------------
(* What follows from it. *)

LEMMA Bounded == IInv => acked <= acks /\ acks <= MaxFrames /\ acked \in 0 .. MaxFrames /\ acks \in 0 .. MaxFrames
<1> SUFFICES ASSUME IInv PROVE acked <= acks /\ acks <= MaxFrames /\ acked \in Nat /\ acks \in Nat
  BY Nodes
<1>1. Registers
  BY ShapeIs DEF IInv
<1>2. acked \in Nat /\ acks \in Nat /\ sent <= MaxFrames /\ sent \in Nat
  BY <1>1, Nodes DEF Registers
<1>3. acked <= acks
  <2>1. Uncounted \in Nat /\ Remembered \in Nat /\ AckAtS \in Nat
    BY DEF Uncounted, Remembered, AckAtS
  <2>2. \A a, b, u, r, x \in Nat : a + u + r + x <= b => a <= b
    OBVIOUS
  <2> QED
    BY <1>2, <2>1, <2>2 DEF IInv, Earned
<1>4. acks <= sent
  <2>1. AckAtR \in Nat /\ AckDue \in Nat /\ AtR \in Nat /\ OnWay \in Nat
    BY <1>1, Terms
  <2>2. \A a, b, c, d, x, y \in Nat : a + x + y + c + d <= b => a <= b
    OBVIOUS
  <2> QED
    BY <1>2, <2>1, <2>2 DEF IInv, Carried, Acks
<1> QED
  BY <1>2, <1>3, <1>4, Nodes

LEMMA QueueIsBounded == IInv => Queued <= MaxFrames /\ Queued \in Nat
<1> SUFFICES ASSUME IInv PROVE Queued <= MaxFrames /\ Queued \in Nat
  OBVIOUS
<1>1. Registers
  BY ShapeIs DEF IInv
<1>2. Acks \in Nat /\ DataAtR \in Nat /\ OnWay \in Nat /\ Queued \in Nat /\ sent \in Nat
  BY <1>1, Terms
<1>3. sent <= MaxFrames /\ MaxFrames \in Nat
  BY <1>1, Nodes DEF Registers
<1>4. \A a, d, w, q, s, m \in Nat : a + (q + d) + w <= s /\ s <= m => q <= m
  OBVIOUS
<1> QED
  BY <1>2, <1>3, <1>4 DEF IInv, Carried, AtR

\* Every register of the driver and every history variable has its type, and no
\* more acknowledgements go out or are counted than frames were sent
\* (radio/RFM69.cpp, the statics of the driver).
THEOREM TypeCorrect == Spec => []TypeOK
<1>1. IInv => TypeOK
  <2> SUFFICES ASSUME IInv PROVE TypeOK
    OBVIOUS
  <2>1. Stacks /\ Registers
    BY ShapeIs DEF IInv
  <2>2. \A n \in Node : stk[n] # <<>>
    BY <2>1 DEF Stacks, Stack
  <2> QED
    <3>1. lost \in 0 .. MaxFrames
      <4>1. Queued <= MaxFrames /\ Queued \in Nat
        BY QueueIsBounded
      <4> QED
        BY <2>1, <4>1, Nodes DEF Registers, Queued
    <3> QED
      BY <2>1, <2>2, <3>1, Bounded DEF TypeOK, Registers
<1> QED
  BY <1>1, Invariance, PTL

\* Whatever interrupts come, and wherever in setMode they do, _mode is what the
\* chip does, but between the two writes of setMode and in a handler that starves
\* there (RFM69.cpp, setMode and interruptHandler).
THEOREM ModeIsTheChips == Spec => []ModeTracksChip
<1>1. IInv => ModeTracksChip
  BY DEF IInv, ModeTracksChip, Tracks, Op, Top
<1> QED
  BY <1>1, Invariance, PTL

\* No order of the handler, which sets the flag, of receiveBegin, which clears one
\* of its two copies, and of ACKReceived, which clears the other, makes the sender
\* count an acknowledgement twice (RFM69.cpp, ACKReceived).
THEOREM NoAckCountsTwice == Spec => []AcksAreEarned
<1>1. IInv => AcksAreEarned
  BY Bounded DEF AcksAreEarned
<1> QED
  BY <1>1, Invariance, PTL

\* Whatever is masked, disabled or being handled when a frame comes, its interrupt
\* stays pending until the handler has looked into the FIFO.
THEOREM EveryFrameInterrupts == Spec => []NoFrameUnnoticed
<1>1. IInv => NoFrameUnnoticed
  BY DEF IInv, NoFrameUnnoticed, Holding
<1> QED
  BY <1>1, Invariance, PTL

\* The handler is never served while the main context writes to the chip: select
\* has set the level OFF (RFM69.cpp, select and unselect).
THEOREM SpiIsExclusive == Spec => SpiExclusive
<1>1. IInv /\ [Next]_vars => [\A n \in Node : Op(n) = "write" => ~(pending[n] /\ ~pending'[n])]_vars
  <2> SUFFICES ASSUME IInv, Next, NEW n \in Node, Op(n) = "write", pending[n], ~pending'[n] PROVE FALSE
    OBVIOUS
  <2>1. Registers /\ level[n] = "OFF"
    BY ShapeIs DEF IInv, Tracks, Op, Top
  <2>2. pending' # pending
    OBVIOUS
  <2>3. ~Sender /\ ~Receiver
    <3>1. ASSUME ReadFrameRaced PROVE FALSE
      <4>1. Op(R) = "frames" /\ pending' = [pending EXCEPT ![R] = FALSE]
        BY <3>1 DEF ReadFrameRaced, DataHandled, Served, Op
      <4> QED
        BY <2>1, <4>1 DEF Registers
    <3> QED
      BY <2>2, <3>1 DEF Sender, Receiver, SendNext, Poll, PollEnds, Polled, AskFrames, NoFrames, ReadFrame, intVars
  <2>4. ASSUME NEW m \in Node, Driver(m) PROVE FALSE
    <3>1. Fill(m)
      BY <2>2, <2>4 DEF Driver, ReadMode, Select, WriteMode, StoreMode, ClearLength, ClearAck, RestartRx, SetPin,
                        receiveDone, AckTest, StartSend, CanSend, Busy, StopWaiting, CallSendFrame, PacketSent, intVars
    <3>2. pending' = [pending EXCEPT ![m] = @ \/ (mask[m] /\ fifo[m] = Nothing)]
      BY <3>1 DEF Fill
    <3> QED
      BY <2>1, <3>2 DEF Registers
  <2>5. ASSUME NEW m \in Node, interruptHandler(m) PROVE FALSE
    <3>1. level[m] = "HI" /\ pending' = [pending EXCEPT ![m] = FALSE]
      BY <2>5 DEF interruptHandler, InterruptIgnored, InterruptStarves, InterruptShort, InterruptBad, InterruptAck,
                  InterruptData, DataHandled, Served
    <3> QED
      BY <2>1, <3>1 DEF Registers
  <2>6. ASSUME NEW m \in Node, Transmit(m) PROVE FALSE
    BY <2>6, OnTheAir
  <2> QED
    BY <2>3, <2>4, <2>5, <2>6 DEF Next
<1> QED
  BY <1>1, Invariance, PTL DEF Spec, SpiExclusive

=============================================================================
