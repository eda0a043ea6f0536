-------------------------- MODULE SpiMemLine_proofs --------------------------
(***************************************************************************)
(* Program and device stay in step: what the line and the device hold at   *)
(* every point of a call as long as no transfer has failed, and from it    *)
(* that no answer is left over, that a page is moved whole, and that a     *)
(* call fails only if the device refused a part of it.                     *)
(***************************************************************************)
EXTENDS SpiMemDrvs_proofs

(* Nothing is under way. *)
Settled == down = << >> /\ up = << >> /\ dev = Idle

(* The first n columns have been moved: to databuf, or to the chip.        *)
SoFar(n) == \A c \in Columns : c < n =>
               /\ dir = "in"  => buf[c] = << page, c >>
               /\ dir = "out" => loaded[c] = << page, c >>

(* All that an operation sends to the chip, and all that it reads but the  *)
(* first bytes.                                                            *)
Sent(o)      == HeadItems(o) \o DataOut(o)
DataIn(from) == [ k \in 1 .. RdLen(op) - from |-> << page, col + from + k - 1 >> ]
-----------------------------------------------------------------------------
LEMMA Joined ==
    ASSUME NEW a, NEW b, NEW c
    PROVE  /\ << a >> \o << b >> = << a, b >>
           /\ << a >> \o << >> \o << >> = << a >>
           /\ << a >> \o << b >> \o << >> = << a, b >>
           /\ << a >> \o << b >> \o << c >> = << a, b, c >>
           /\ << a >> \o << >> = << a >>
           /\ << a, b >> \o << >> = << a, b >>
           /\ << a, b, c >> \o << >> = << a, b, c >>
<1> DEFINE S == {a, b, c}
<1>1. /\ << a >> \in Seq(S) /\ << b >> \in Seq(S) /\ << c >> \in Seq(S)
      /\ << a, b >> \in Seq(S) /\ << a, b, c >> \in Seq(S)
  OBVIOUS
<1>2. << a >> \o << b >> = << a, b >>
  <2> DEFINE t == << a >> \o << b >>
  <2>1. t \in Seq(S) /\ Len(t) = 2 /\ t[1] = a /\ t[2] = b
    BY <1>1, ConcatProperties
  <2> HIDE DEF S, t
  <2>2. t = << a, b >>
    BY <1>1, <2>1, SeqEqual
  <2> QED
    BY <2>2 DEF t
<1>3. << a, b >> \o << c >> = << a, b, c >>
  <2> DEFINE t == << a, b >> \o << c >>
  <2>1. /\ t \in Seq(S) /\ Len(t) = 3
        /\ t[1] = a /\ t[2] = b /\ t[3] = c
    BY <1>1, ConcatProperties
  <2> HIDE DEF S, t
  <2>2. t = << a, b, c >>
    BY <1>1, <2>1, SeqEqual
  <2> QED
    BY <2>2 DEF t
<1> HIDE DEF S
<1>4. /\ << a >> \o << >> = << a >>
      /\ << a, b >> \o << >> = << a, b >>
      /\ << a, b, c >> \o << >> = << a, b, c >>
  BY <1>1, ConcatEmptySeq
<1> QED
  BY <1>2, <1>3, <1>4

LEMMA SentIs ==
    ASSUME TInv, pc \in InOp
    PROVE  /\ Sent(op) \in Seq(Piece)
           /\ dir = "none" => Sent(op) = << Opcode(op) >>
           /\ dir = "in" => Sent(op) = << Opcode(op), Address, Bare("dummy") >>
           /\ dir = "out" =>
                 /\ Len(Sent(op)) = 2 + op.data.nbytes
                 /\ Sent(op)[1] = Opcode(op) /\ Sent(op)[2] = Address
                 /\ \A k \in 1 .. op.data.nbytes :
                       Sent(op)[2 + k] = Byte(<< page, col + k - 1 >>)
<1>1. HeadItems(op) \in Seq(Piece) /\ DataOut(op) \in Seq(Piece)
  BY HeadPieces, DataPieces
<1>2. /\ dir = "none" => op.addr.nbytes = 0 /\ op.dummy.nbytes = 0
      /\ dir = "in"   => op.addr.nbytes = 2 /\ op.dummy.nbytes = 1
      /\ dir = "out"  => op.addr.nbytes = 2 /\ op.dummy.nbytes = 0
      /\ op.dir = dir /\ op.data.nbytes \in Nat
  BY OpFacts, TemplateIs DEF PhaseOf, TInv, Looping
<1>3. dir \in Dirs
  BY DEF TInv, Looping
<1> DEFINE a == IF op.addr.nbytes > 0 THEN << Address >> ELSE << >>
           d == [ k \in 1 .. op.dummy.nbytes |-> Bare("dummy") ]
<1>4. /\ dir = "none" => a = << >> /\ d = << >>
      /\ dir = "in"   => a = << Address >> /\ d = << Bare("dummy") >>
      /\ dir = "out"  => a = << Address >> /\ d = << >>
  <2>1. op.dummy.nbytes = 0 => d = << >>
    OBVIOUS
  <2>2. op.dummy.nbytes = 1 => d = << Bare("dummy") >>
    <3>1. [ k \in 1 .. 1 |-> Bare("dummy") ] = << Bare("dummy") >>
      OBVIOUS
    <3> QED
      BY <3>1
  <2>3. /\ op.addr.nbytes = 0 => a = << >>
        /\ op.addr.nbytes = 2 => a = << Address >>
    OBVIOUS
  <2> HIDE DEF a, d
  <2> QED
    BY <1>2, <2>1, <2>2, <2>3
<1>0. HeadItems(op) = << Opcode(op) >> \o a \o d
  BY DEF HeadItems
<1> HIDE DEF a, d
<1>5. CASE dir = "none"
  <2>1. HeadItems(op) = << Opcode(op) >>
    BY <1>0, <1>4, <1>5, Joined
  <2>2. DataOut(op) = << >>
    BY <1>2, <1>5 DEF DataOut
  <2> QED
    BY <1>1, <1>5, <2>1, <2>2, Joined DEF Sent
<1>6. CASE dir = "in"
  <2>0. HeadItems(op) = << Opcode(op) >> \o << Address >> \o << Bare("dummy") >>
    BY <1>0, <1>4, <1>6
  <2>1. HeadItems(op) = << Opcode(op), Address, Bare("dummy") >>
    BY <2>0, Joined, Zenon
  <2>2. DataOut(op) = << >>
    BY <1>2, <1>6 DEF DataOut
  <2> QED
    BY <1>1, <1>6, <2>1, <2>2, Joined DEF Sent
<1>7. CASE dir = "out"
  <2>2. HeadItems(op) = << Opcode(op), Address >>
    BY <1>0, <1>4, <1>7, Joined
  <2> DEFINE s == [ k \in 1 .. op.data.nbytes |-> Byte(<< page, col + k - 1 >>) ]
  <2>3. DataOut(op) = s /\ Len(s) = op.data.nbytes
    BY <1>2, <1>7 DEF DataOut
  <2>4. \A k \in 1 .. op.data.nbytes : s[k] = Byte(<< page, col + k - 1 >>)
    OBVIOUS
  <2> HIDE DEF s
  <2>5. Sent(op) = << Opcode(op), Address >> \o s
    BY <2>2, <2>3 DEF Sent
  <2>6. << Opcode(op), Address >> \in Seq(Piece) /\ s \in Seq(Piece)
    BY <1>1, <2>2, <2>3
  <2>7. /\ Len(Sent(op)) = 2 + op.data.nbytes
        /\ \A i \in 1 .. 2 + op.data.nbytes : Sent(op)[i] =
              IF i <= 2 THEN << Opcode(op), Address >>[i] ELSE s[i - 2]
        /\ Sent(op) \in Seq(Piece)
    BY <2>3, <2>5, <2>6, ConcatProperties
  <2>8. \A k \in 1 .. op.data.nbytes : Sent(op)[2 + k] = s[k]
    <3> TAKE k \in 1 .. op.data.nbytes
    <3>1. 2 + k \in 1 .. 2 + op.data.nbytes /\ ~ (2 + k <= 2) /\ (2 + k) - 2 = k
      BY <1>2
    <3> QED
      BY <2>7, <3>1
  <2>9. Sent(op)[1] = Opcode(op) /\ Sent(op)[2] = Address
    BY <1>2, <2>7
  <2> QED
    BY <1>2, <1>7, <2>4, <2>7, <2>8, <2>9
<1> QED
  BY <1>3, <1>5, <1>6, <1>7 DEF Dirs

(* The chip answers an operation with the columns it asked for.            *)
LEMMA ReadBack ==
    ASSUME TInv, pc \in InOp
    PROVE  ChipData(Sent(op), RdLen(op), Wires) = DataIn(0)
<1>1. op.dir = dir /\ op.data.nbytes \in Nat /\ col \in Nat /\ col + op.data.nbytes <= Bytes
      /\ dir \in Dirs
  BY OpFacts DEF TInv, Looping
<1>2. RdLen(op) \in Nat
  BY <1>1 DEF RdLen
<1>3. CASE dir = "in"
  <2>1. Sent(op) = << Opcode(op), Address, Bare("dummy") >>
    BY <1>3, SentIs
  <2>2. op.data.width = Wires
    BY <1>1, <1>3, OpFacts, TemplateIs
  <2>3. /\ Len(Sent(op)) = 3 /\ Sent(op)[1] = Opcode(op) /\ Sent(op)[2] = Address
    BY <2>1
  <2>4. Is(Sent(op), "in", Wires)
    BY <1>1, <1>3, <2>2, <2>3 DEF Is, Opcode
  <2>5. Column(Sent(op)) = col /\ Sent(op)[1].page = page
    BY <2>3 DEF Column, Opcode, Address
  <2>6. ASSUME NEW k \in 1 .. RdLen(op)
        PROVE  (IF Is(Sent(op), "in", Wires) /\ Column(Sent(op)) + k - 1 \in Columns
                THEN << Sent(op)[1].page, Column(Sent(op)) + k - 1 >> ELSE Stale)
               = << page, col + 0 + k - 1 >>
    <3>1. RdLen(op) = op.data.nbytes
      BY <1>1, <1>3 DEF RdLen
    <3>2. col + k - 1 \in Columns /\ col + 0 + k - 1 = col + k - 1
      BY <1>1, <3>1, Sizes DEF Columns
    <3> QED
      BY <2>4, <2>5, <3>2
  <2>7. RdLen(op) - 0 = RdLen(op)
    BY <1>2
  <2> QED
    BY <2>6, <2>7 DEF ChipData, DataIn
<1>4. CASE dir # "in"
  <2>1. RdLen(op) = 0
    BY <1>1, <1>4 DEF RdLen
  <2> QED
    BY <2>1 DEF ChipData, DataIn
<1> QED
  BY <1>3, <1>4

(* A load puts what was sent behind what was loaded before.                *)
LEMMA Loads ==
    ASSUME TInv, pc \in InOp, SoFar(col)
    PROVE  LET l == ChipLoads(Sent(op), Wires)
           IN  /\ l \in [ Columns -> Value ]
               /\ dir # "out" => l = loaded
               /\ dir = "out" => \A c \in Columns :
                     c < col + op.data.nbytes => l[c] = << page, c >>
<1>1. op.dir = dir /\ op.data.nbytes \in Nat /\ col \in Nat /\ dir \in Dirs
      /\ loaded \in [ Columns -> Value ]
  BY OpFacts DEF TInv, Looping, FarTyped
<1>2. ChipLoads(Sent(op), Wires) \in [ Columns -> Value ]
  BY <1>1, SentIs, ChipLoadsType
<1>3. CASE dir # "out"
  <2>1. Sent(op)[1] = Opcode(op)
    BY <1>1, <1>3, SentIs DEF Dirs
  <2>2. ~ Is(Sent(op), "out", Wires)
    BY <1>1, <1>3, <2>1 DEF Is, Opcode
  <2> QED
    BY <1>2, <1>3, <2>2 DEF ChipLoads
<1>4. CASE dir = "out"
  <2>1. /\ Len(Sent(op)) = 2 + op.data.nbytes
        /\ Sent(op)[1] = Opcode(op) /\ Sent(op)[2] = Address
        /\ \A k \in 1 .. op.data.nbytes : Sent(op)[2 + k] = Byte(<< page, col + k - 1 >>)
    BY <1>4, SentIs
  <2>2. op.data.width = Wires
    BY <1>1, <1>4, OpFacts, TemplateIs
  <2>3. Is(Sent(op), "out", Wires) /\ Column(Sent(op)) = col
    BY <1>1, <1>4, <2>1, <2>2 DEF Is, Opcode, Column, Address
  <2>4. ASSUME NEW c \in Columns, c < col + op.data.nbytes
        PROVE  ChipLoads(Sent(op), Wires)[c] = << page, c >>
    <3> DEFINE k == 3 + c - col
    <3>1. ChipLoads(Sent(op), Wires)[c] =
             IF k \in 3 .. Len(Sent(op)) /\ Sent(op)[k].t = "byte"
             THEN Sent(op)[k].v ELSE loaded[c]
      BY <2>3 DEF ChipLoads
    <3>2. c \in Int
      BY Sizes DEF Columns
    <3>3. CASE c < col
      <4>1. k \notin 3 .. Len(Sent(op))
        BY <1>1, <2>1, <3>2, <3>3
      <4> QED
        BY <1>4, <3>1, <3>3, <4>1 DEF SoFar
    <3>4. CASE ~ (c < col)
      <4> DEFINE i == 1 + c - col
      <4>0. Len(Sent(op)) = 2 + op.data.nbytes
        BY <2>1
      <4>1. i \in 1 .. op.data.nbytes /\ k = 2 + i /\ col + i - 1 = c
            /\ k \in 3 .. Len(Sent(op))
        BY <1>1, <4>0, <2>4, <3>2, <3>4
      <4> HIDE DEF i, k
      <4>2. Sent(op)[k] = Byte(<< page, c >>)
        BY <2>1, <4>1
      <4> QED
        BY <3>1, <4>1, <4>2 DEF Byte
    <3> QED
      BY <3>3, <3>4
  <2> QED
    BY <1>2, <1>4, <2>4
<1> QED
  BY <1>3, <1>4

(* What is read is filled in behind what was read before.                  *)
LEMMA FillsUp ==
    ASSUME NEW at \in Nat, NEW values \in Seq(Value),
           \A c \in Columns : c < at => buf[c] = << page, c >>,
           \A k \in 1 .. Len(values) : values[k] = << page, at + k - 1 >>
    PROVE  \A c \in Columns : c < at + Len(values) => Filled(at, values)[c] = << page, c >>
<1>1. SUFFICES ASSUME NEW c \in Columns, c < at + Len(values)
               PROVE  Filled(at, values)[c] = << page, c >>
  OBVIOUS
<1>2. c \in Int /\ Len(values) \in Nat /\ DOMAIN values = 1 .. Len(values)
  BY Sizes DEF Columns
<1> DEFINE k == c - at + 1
<1>3. Filled(at, values)[c] = IF k \in DOMAIN values THEN values[k] ELSE buf[c]
  BY DEF Filled
<1>4. CASE c < at
  <2>1. k \notin DOMAIN values
    BY <1>2, <1>4
  <2> QED
    BY <1>1, <1>3, <1>4, <2>1
<1>5. CASE ~ (c < at)
  <2>1. k \in 1 .. Len(values) /\ at + k - 1 = c
    BY <1>1, <1>2, <1>5
  <2> QED
    BY <1>2, <1>3, <2>1
<1> QED
  BY <1>4, <1>5
-----------------------------------------------------------------------------
(* serprog.  What is on the line back from a read of the programmer.       *)
Acked(items) == << Bare("ack") >> \o items
MapReply  == [ k \in 1 .. MapLen |-> Bare("map") ]
FreqReply == [ k \in 1 .. 4 |-> Bare("freq") ]
BytesIn(from) ==
    [ k \in 1 .. RdLen(op) - from |-> Byte(<< page, col + from + k - 1 >>) ]

(* What the programmer still waits for when it has taken j of the writes   *)
(* of an operation: the address is two bytes.                              *)
Owed(j) == Len(Chunks(op)) - j + IF op.addr.nbytes > 0 /\ j <= 2 THEN 1 ELSE 0

(* n writes have been sent, some of them taken and not yet all.            *)
Told(j, n) == /\ down = SubSeq(Chunks(op), j + 1, n)
              /\ dev = IF j = 0 THEN Idle
                       ELSE Dev("op", Owed(j), RdLen(op), SubSeq(Chunks(op), 2, j))
UpTo(n)    == up = << >> /\ \E j \in 0 .. n : j < Len(Chunks(op)) /\ Told(j, n)

Answered ==
    /\ down = << >> /\ dev = Idle
    /\ \/ up = << Bare("nak") >> /\ refused
       \/ /\ up = Acked(BytesIn(0))
          /\ SoFar(IF dir = "out" THEN col + op.data.nbytes ELSE col)

(* The programmer as tcflush finds it: an earlier run may have left it in  *)
(* an operation.                                                           *)
Fresh == dev = Idle \/ \E n \in 1 .. 2, rd \in 0 .. 1 : dev = Dev("op", n, rd, << >>)

Syncing ==
    /\ step \in 1 .. 3
    /\ step = 1 => down = << >> /\ up = << >> /\ Fresh
    /\ step = 2 => \/ down = << Bare("sync") >> /\ up = << >> /\ Fresh
                   \/ /\ down = << >> /\ dev = Idle
                      /\ up \in { << Bare("nak"), Bare("ack") >>, << Bare("nak") >> }
                   \/ down = << >> /\ (up = << >> \/ Head(up).t = "ack")
    /\ step = 3 => down = << >> /\ (up = << >> \/ (up = << Bare("ack") >> /\ dev = Idle))

Mapping ==
    /\ step \in 1 .. 3 /\ dev = Idle
    /\ step = 1 => down = << >> /\ up = << >>
    /\ step = 2 => \/ down = << Bare("map") >> /\ up = << >>
                   \/ down = << >> /\ up = Acked(MapReply)
    /\ step = 3 => down = << >> /\ up = MapReply

Tuning ==
    /\ step \in 1 .. 3
    /\ step = 1 => down = << >> /\ up = << >> /\ dev = Idle
    /\ step = 2 => \/ down = << Bare("freq"), Bare("param") >> /\ up = << >> /\ dev = Idle
                   \/ down = << Bare("param") >> /\ up = << >>
                      /\ dev = Dev("freq", 4, 0, << >>)
                   \/ down = << >> /\ up = Acked(FreqReply) /\ dev = Idle
    /\ step = 3 => down = << >> /\ up = FreqReply /\ dev = Idle

SerAt ==
    /\ pc = "open" => down = << >> /\ up = << >> /\ Fresh
    /\ pc = "sync" => Syncing
    /\ pc = "map"  => Mapping
    /\ pc = "freq" => Tuning
    /\ pc = "idle" => Settled
    /\ pc = "part" => Settled /\ SoFar(col)
    /\ pc = "send" => UpTo(step - 1) /\ SoFar(col)
    /\ pc = "ack"  => step = 0 /\ ((UpTo(Len(Chunks(op))) /\ SoFar(col)) \/ Answered)
    /\ pc = "data" => /\ down = << >> /\ dev = Idle /\ dir = "in"
                      /\ step < op.data.nbytes
                      /\ up = BytesIn(step) /\ SoFar(col + step)

SerEnded ==
    /\ outcome = "failed" => refused
    /\ outcome = "done" => /\ pc \in {"idle", "closed"} /\ Settled
                           /\ dir # "none" => SoFar(Bytes)

SerInv == drv = "serprog" =>
             /\ glitch # "now"
             /\ glitch = "none" => SerAt /\ SerEnded
-----------------------------------------------------------------------------
(* The adapter that is open is the only one there is. *)
LEMMA NotTheOthers ==
    ASSUME HInv, TInv
    PROVE  /\ drv # "serprog" => ~ SerProgram /\ ~ Programmer
           /\ drv # "ch347"   => ~ ChProgram /\ ~ Bridge
           /\ drv # "fx2qspi" => ~ FxProgram /\ ~ Firmware
<1>1. OwnStates
  BY DEF TInv
<1>2. drv # "serprog" => ~ SerProgram /\ ~ Programmer
  BY <1>1 DEF OwnStates, SerPcs, SerProgram, Programmer, SyncWrite, SyncRead, ExecWrite,
              ExecAck, ExecReply, Send, OpAck, OpRead
<1>3. drv # "ch347" => ~ ChProgram /\ ~ Bridge
  BY <1>1 DEF OwnStates, Settings, ChProgram, Bridge, Setting, Select, ExchangeOut,
              ExchangeIn, HeadOut, BodyOut, BodyIn, Deselect
<1>4. drv # "fx2qspi" => ~ FxProgram /\ ~ Firmware
  BY <1>1 DEF OwnStates, FxProgram, Firmware, ResetOut, ResetIn, Phases, PacketsOut,
              PacketsIn, End
<1> QED
  BY <1>2, <1>3, <1>4

(* Once a transfer has failed, that is not forgotten. *)
LEMMA Remembered ==
    ASSUME HInv, TInv, [Next]_vars
    PROVE  /\ drv' = drv
           /\ glitch' = "none" => glitch = "none"
           /\ drv = "serprog" /\ glitch' = "now" => glitch = "now"
<1> DEFINE Kept == /\ glitch' = "none" => glitch = "none"
                   /\ drv = "serprog" /\ glitch' = "now" => glitch = "now"
<1>1. /\ \A items : Written(items) \/ WriteFails(items) => Kept
      /\ \A n, fault : Taken(n) \/ ReadFails(fault, n) => Kept
      /\ \A fault : Fails(fault) => Kept
      /\ TimesOut \/ UNCHANGED line => Kept
  BY DEF Written, WriteFails, Taken, ReadFails, Fails, TimesOut, line
<1>2. CASE Common
  <2>1. drv' = drv
    BY <1>2 DEF Common, Open, OpenFails, Unwind, RemoveAdapter, Call, Part, PartsEnd
  <2>2. Kept
    BY <1>2 DEF Common, Open, OpenFails, Unwind, RemoveAdapter, Call, Part, PartsEnd, line
  <2> QED
    BY <2>1, <2>2
<1>3. CASE SerProgram
  <2>1. drv' = drv
    BY <1>3 DEF SerProgram, SyncWrite, SyncRead, ExecWrite, ExecAck, ExecReply, Send, OpAck,
                OpRead
  <2>2. Kept
    <3> HIDE DEF Kept
    <3>1. \A ok : CheckAck(ok) => Kept
      BY <1>1 DEF CheckAck
    <3>2. \A n : Received(n) => Kept
      BY <1>1 DEF Received
    <3> QED
      BY <1>1, <1>3, <3>1, <3>2 DEF SerProgram, SyncWrite, SyncRead, ExecWrite, ExecAck,
                                    ExecReply, Send, OpAck, OpRead
  <2> QED
    BY <2>1, <2>2
<1>4. CASE ChProgram
  <2>1. drv' = drv
    BY <1>4 DEF ChProgram, Setting, Select, ExchangeOut, ExchangeIn, HeadOut, BodyOut,
                BodyIn, Deselect
  <2>2. drv = "ch347"
    BY <1>4, NotTheOthers
  <2>3. \A cs : ChipSelect(cs) => Kept
    BY <2>2 DEF ChipSelect, Unseen, Written
  <2>4. Kept
    <3> HIDE DEF Kept
    <3>1. \A p : SendFails(p) => Kept
      BY <1>1 DEF SendFails
    <3>2. \A cmd, max : Receives(cmd, max) => Kept
      BY <1>1 DEF Receives
    <3>3. \A cmd, max : ReceiveFails(cmd, max) => Kept
      <4>1. UNCHANGED glitch => Kept
        BY DEF Kept
      <4> QED
        BY <1>1, <4>1 DEF ReceiveFails
    <3> QED
      BY <1>1, <1>4, <2>3, <3>1, <3>2, <3>3
         DEF ChProgram, Setting, Select, ExchangeOut, ExchangeIn, HeadOut, BodyOut, BodyIn,
             Deselect
  <2> QED
    BY <2>1, <2>4
<1>5. CASE FxProgram
  <2>1. drv' = drv
    BY <1>5 DEF FxProgram, ResetOut, ResetIn, Phases, PacketsOut, PacketsIn, End
  <2>2. Kept
    <3> HIDE DEF Kept
    <3>1. InFails => Kept
      BY <1>1 DEF InFails
    <3>2. \A items : OutFails(items) => Kept
      BY <1>1 DEF OutFails
    <3> QED
      BY <1>1, <1>5, <3>1, <3>2
         DEF FxProgram, ResetOut, ResetIn, Phases, PacketsOut, PacketsIn, End
  <2> QED
    BY <2>1, <2>2
<1>6. CASE Device \/ UNCHANGED vars
  BY <1>6 DEF Device, Programmer, Bridge, Firmware, vars
<1> QED
  BY <1>2, <1>3, <1>4, <1>5, <1>6 DEF Next, Program
-----------------------------------------------------------------------------
(* Sequences: taking the first of a line, or the first few of an answer.   *)
LEMMA FirstTaken ==
    ASSUME NEW S, NEW x \in S, NEW s \in Seq(S)
    PROVE  LET u == << x >> \o s
           IN  /\ u \in Seq(S) /\ u # << >> /\ Len(u) = 1 + Len(s)
               /\ u[1] = x /\ Head(u) = x /\ Tail(u) = s
               /\ SubSeq(u, 2, Len(u)) = s
<1> DEFINE u == << x >> \o s
<1>1. << x >> \in Seq(S) /\ Len(<< x >>) = 1 /\ << x >>[1] = x
  OBVIOUS
<1>2. /\ u \in Seq(S) /\ Len(u) = 1 + Len(s)
      /\ \A i \in 1 .. 1 + Len(s) : u[i] = IF i <= 1 THEN x ELSE s[i - 1]
  BY <1>1, ConcatProperties
<1> HIDE DEF u
<1>3. Len(s) \in Nat /\ u # << >> /\ u[1] = x
  BY <1>2
<1>4. /\ Head(u) = x /\ Tail(u) \in Seq(S) /\ Len(Tail(u)) = Len(s)
      /\ \A i \in 1 .. Len(s) : Tail(u)[i] = u[i + 1]
  BY <1>2, <1>3, HeadTailProperties
<1>5. Tail(u) = s
  <2>1. ASSUME NEW i \in 1 .. Len(s) PROVE Tail(u)[i] = s[i]
    <3>1. i + 1 \in 1 .. 1 + Len(s) /\ ~ (i + 1 <= 1) /\ (i + 1) - 1 = i
      BY <1>3
    <3> QED
      BY <1>2, <1>4, <3>1
  <2> QED
    BY <1>4, <2>1, SeqEqual
<1>6. Tail(u) = SubSeq(u, 2, Len(u))
  BY <1>2, <1>3, TailIsSubSeq
<1> QED
  BY <1>2, <1>3, <1>4, <1>5, <1>6 DEF u

LEMMA OneTaken ==
    ASSUME NEW x
    PROVE  /\ << x >> # << >> /\ Head(<< x >>) = x /\ Tail(<< x >>) = << >>
           /\ Len(<< x >>) = 1 /\ SubSeq(<< x >>, 2, 1) = << >>
<1>1. SubSeq(<< x >>, 2, 1) = << >>
  BY SubSeqEmpty
<1> QED
  BY <1>1

LEMMA SecondLeft == ASSUME NEW a, NEW b PROVE SubSeq(<< a, b >>, 2, 2) = << b >>
<1> DEFINE S == {a, b}
           u == << a, b >>
           r == SubSeq(u, 2, 2)
<1>1. /\ u \in Seq(S) /\ Len(u) = 2 /\ u[2] = b
      /\ << b >> \in Seq(S) /\ Len(<< b >>) = 1 /\ << b >>[1] = b
  OBVIOUS
<1> HIDE DEF S, u
<1>2. /\ SubSeq(u, 1 + 1, Len(u)) \in Seq(S) /\ Len(SubSeq(u, 1 + 1, Len(u))) = 1
      /\ SubSeq(u, 1 + 1, Len(u))[1] = u[1 + 1]
  BY <1>1, RestOf
<1>3. r \in Seq(S) /\ Len(r) = 1 /\ r[1] = b
  BY <1>1, <1>2
<1> HIDE DEF r
<1>4. r = << b >>
  BY <1>1, <1>3, SeqEqual
<1> QED
  BY <1>4 DEF r, u

LEMMA NothingAdded ==
    /\ \A x : << >> \o << x >> = << x >>
    /\ \A S : \A s \in Seq(S) : << >> \o s = s
BY ConcatEmptySeq

(* What the programmer is told for an operation. *)
LEMMA ChunksAre ==
    ASSUME TInv, pc \in InOp
    PROVE  /\ Chunks(op) \in Seq(Piece) /\ Len(Chunks(op)) >= 2
           /\ Chunks(op) = << Header(op) >> \o Sent(op)
           /\ Len(Chunks(op)) = 1 + Len(Sent(op))
           /\ Chunks(op)[1] = Header(op)
           /\ Len(Chunks(op)) - 1 + (IF op.addr.nbytes > 0 THEN 1 ELSE 0) = WrLen(op)
           /\ \A k \in 2 .. Len(Chunks(op)) :
                 /\ Chunks(op)[k] = Sent(op)[k - 1]
                 /\ Size(Chunks(op)[k]) = IF op.addr.nbytes > 0 /\ k = 3 THEN 2 ELSE 1
           /\ op.addr.nbytes > 0 => Len(Chunks(op)) >= 3
           /\ SubSeq(Chunks(op), 2, Len(Chunks(op))) = Sent(op)
<1>1. Header(op) \in Piece
  <2>1. op.addr.nbytes \in Nat /\ op.dummy.nbytes \in Nat /\ op.data.nbytes \in Nat
    BY OpFacts DEF TInv, Looping
  <2>2. WrLen(op) \in Nat /\ RdLen(op) \in Nat
    BY <2>1 DEF WrLen, RdLen, Head1
  <2> QED
    BY <2>2 DEF Header, Piece
<1>2. Sent(op) \in Seq(Piece)
  BY SentIs
<1>3. Chunks(op) = << Header(op) >> \o Sent(op)
  <2>1. << Header(op) >> \in Seq(Piece)
    BY <1>1
  <2> QED
    BY <2>1, HeadPieces, DataPieces, ConcatAssociative DEF Chunks, Sent
<1>4. /\ Chunks(op) \in Seq(Piece) /\ Len(Chunks(op)) = 1 + Len(Sent(op))
      /\ Chunks(op)[1] = Header(op)
      /\ SubSeq(Chunks(op), 2, Len(Chunks(op))) = Sent(op)
  BY <1>1, <1>2, <1>3, FirstTaken
<1>5. Len(Sent(op)) \in Nat
  BY <1>2
<1>6. ASSUME NEW k \in 2 .. Len(Chunks(op)) PROVE Chunks(op)[k] = Sent(op)[k - 1]
  <2>1. << Header(op) >> \in Seq(Piece) /\ Len(<< Header(op) >>) = 1
    BY <1>1
  <2>2. k \in 1 .. 1 + Len(Sent(op)) /\ ~ (k <= 1)
    BY <1>4, <1>5
  <2> QED
    BY <1>2, <1>3, <2>1, <2>2, ConcatProperties
<1>7. /\ dir = "none" => op.addr.nbytes = 0 /\ op.dummy.nbytes = 0
      /\ dir = "in"   => op.addr.nbytes = 2 /\ op.dummy.nbytes = 1
      /\ dir = "out"  => op.addr.nbytes = 2 /\ op.dummy.nbytes = 0
      /\ op.dir = dir /\ op.data.nbytes \in Nat /\ dir \in Dirs
  BY OpFacts, TemplateIs DEF PhaseOf, TInv, Looping
<1>8. Size(Opcode(op)) = 1 /\ Size(Address) = 2 /\ Size(Bare("dummy")) = 1
      /\ \A v : Size(Byte(v)) = 1
  BY DEF Size, Opcode, Address, Bare, Byte
<1>9. /\ Len(Sent(op)) >= 1
      /\ Len(Sent(op)) + (IF op.addr.nbytes > 0 THEN 1 ELSE 0) = WrLen(op)
      /\ op.addr.nbytes > 0 => Len(Sent(op)) >= 2
      /\ \A i \in 1 .. Len(Sent(op)) :
            Size(Sent(op)[i]) = IF op.addr.nbytes > 0 /\ i = 2 THEN 2 ELSE 1
  <2>1. CASE dir = "none"
    <3>1. Sent(op) = << Opcode(op) >>
      BY <2>1, SentIs
    <3>2. Len(Sent(op)) = 1 /\ Sent(op)[1] = Opcode(op)
      BY <3>1
    <3> QED
      BY <1>7, <1>8, <2>1, <3>2 DEF WrLen, Head1
  <2>2. CASE dir = "in"
    <3>1. Sent(op) = << Opcode(op), Address, Bare("dummy") >>
      BY <2>2, SentIs
    <3>2. Len(Sent(op)) = 3 /\ Sent(op)[1] = Opcode(op) /\ Sent(op)[2] = Address
          /\ Sent(op)[3] = Bare("dummy")
      BY <3>1
    <3> QED
      BY <1>7, <1>8, <2>2, <3>2 DEF WrLen, Head1
  <2>3. CASE dir = "out"
    <3>1. /\ Len(Sent(op)) = 2 + op.data.nbytes
          /\ Sent(op)[1] = Opcode(op) /\ Sent(op)[2] = Address
          /\ \A k \in 1 .. op.data.nbytes :
                Sent(op)[2 + k] = Byte(<< page, col + k - 1 >>)
      BY <2>3, SentIs
    <3>2. ASSUME NEW i \in 1 .. Len(Sent(op))
          PROVE  Size(Sent(op)[i]) = IF i = 2 THEN 2 ELSE 1
      <4>1. CASE i \in {1, 2}
        BY <1>8, <3>1, <4>1
      <4>2. CASE i \notin {1, 2}
        <5>1. i - 2 \in 1 .. op.data.nbytes /\ 2 + (i - 2) = i
          BY <1>5, <1>7, <3>1, <4>2
        <5>2. Sent(op)[i] = Byte(<< page, col + (i - 2) - 1 >>)
          BY <3>1, <5>1
        <5> QED
          BY <1>8, <4>2, <5>2
      <4> QED
        BY <4>1, <4>2
    <3>3. WrLen(op) = 3 + op.data.nbytes
      BY <1>7, <2>3 DEF WrLen, Head1
    <3>4. op.addr.nbytes > 0
      BY <1>7, <2>3
    <3>5. Len(Sent(op)) = 2 + op.data.nbytes
      BY <3>1
    <3> QED
      BY <1>7, <3>2, <3>3, <3>4, <3>5
  <2> QED
    BY <1>7, <2>1, <2>2, <2>3 DEF Dirs
<1>10. ASSUME NEW k \in 2 .. Len(Chunks(op))
       PROVE  Size(Chunks(op)[k]) = IF op.addr.nbytes > 0 /\ k = 3 THEN 2 ELSE 1
  <2>1. k - 1 \in 1 .. Len(Sent(op)) /\ (k - 1 = 2 <=> k = 3)
    BY <1>4, <1>5
  <2> QED
    BY <1>6, <1>9, <2>1
<1> QED
  BY <1>3, <1>4, <1>5, <1>6, <1>9, <1>10

(* The programmer, in each of its modes. *)
LEMMA TakesIdle ==
    ASSUME NEW item, Reads(item), dev = Idle
    PROVE  /\ dev' = CASE item.t = "hdr"  -> Dev("op", item.wr, item.rd, << >>)
                       [] item.t = "freq" -> Dev("freq", 4, 0, << >>)
                       [] OTHER           -> Idle
           /\ Answer(CASE item.t \in {"hdr", "freq"} -> << >>
                       [] item.t = "sync" -> << Bare("nak"), Bare("ack") >>
                       [] item.t = "map"  -> << Bare("ack") >> \o
                                             [ k \in 1 .. MapLen |-> Bare("map") ]
                       [] OTHER           -> << Bare("nak") >>)
           /\ UNCHANGED << loaded, refused >>
BY DEF Reads, Idle, Dev

LEMMA TakesMore ==
    ASSUME NEW item, Reads(item), NEW mode \in {"freq", "op"}, NEW n \in Nat, NEW rd,
           NEW seen, dev = Dev(mode, n, rd, seen), n > Size(item)
    PROVE  /\ dev' = Dev(mode, n - Size(item), rd, Append(seen, item))
           /\ UNCHANGED << up, loaded, refused >>
<1>1. dev.mode = mode /\ dev.need = n /\ dev.rd = rd /\ dev.seen = seen
  BY DEF Dev
<1>2. Size(item) \in Nat
  BY DEF Size
<1>3. n - Size(item) > 0 /\ n - Size(item) # 0
  BY <1>2
<1> QED
  BY <1>1, <1>2, <1>3 DEF Reads

LEMMA TakesFreq ==
    ASSUME NEW item, Reads(item), NEW rd, NEW seen, dev = Dev("freq", Size(item), rd, seen)
    PROVE  dev' = Idle /\ Answer(Acked(FreqReply)) /\ UNCHANGED << loaded, refused >>
<1>1. dev.mode = "freq" /\ dev.need - Size(item) = 0
  BY DEF Dev, Size
<1> QED
  BY <1>1 DEF Reads, Acked, FreqReply

(* The bytes of the chip in an answer. *)
Clocked1(seen, n) == [ k \in 1 .. n |-> Byte(ChipData(seen, n, 1)[k]) ]

LEMMA TakesOp ==
    ASSUME TInv, NEW item, Reads(item), NEW rd, NEW seen,
           dev = Dev("op", Size(item), rd, seen)
    PROVE  /\ dev' = Idle
           /\ \/ Answer(<< Bare("nak") >>) /\ loaded' = loaded /\ refused' = TRUE
              \/ /\ Answer(Acked(Clocked1(Append(seen, item), rd)))
                 /\ loaded' = ChipLoads(Append(seen, item), 1) /\ refused' = refused
<1>1. dev.mode = "op" /\ dev.need - Size(item) = 0 /\ dev.rd = rd /\ dev.seen = seen
  BY DEF Dev, Size
<1> DEFINE s == Append(dev.seen, item)
           bytes == [ k \in 1 .. dev.rd |-> Byte(ChipData(s, dev.rd, 1)[k]) ]
<1>2. \E refuse \in BOOLEAN :
         /\ dev' = Idle
         /\ Answer(IF refuse THEN << Bare("nak") >> ELSE << Bare("ack") >> \o bytes)
         /\ loaded' = IF refuse THEN loaded ELSE ChipLoads(s, 1)
         /\ refused' = (refused \/ refuse)
  BY <1>1 DEF Reads
<1>3. s = Append(seen, item)
      /\ bytes = Clocked1(Append(seen, item), rd)
  BY <1>1 DEF Clocked1
<1> HIDE DEF s, bytes
<1>4. PICK refuse \in BOOLEAN :
         /\ dev' = Idle
         /\ Answer(IF refuse THEN << Bare("nak") >> ELSE << Bare("ack") >> \o bytes)
         /\ loaded' = IF refuse THEN loaded ELSE ChipLoads(s, 1)
         /\ refused' = (refused \/ refuse)
  BY <1>2
<1>0. refused \in BOOLEAN
  BY DEF TInv, FarTyped
<1>5. CASE refuse
  BY <1>0, <1>4, <1>5
<1>6. CASE ~ refuse
  <2>1. Answer(Acked(bytes)) /\ loaded' = ChipLoads(s, 1) /\ refused' = refused
    BY <1>0, <1>4, <1>6 DEF Acked
  <2> QED
    BY <1>3, <1>4, <2>1
<1> QED
  BY <1>5, <1>6
(* The operation stays what it is while it is being told. *)
LEMMA OpKept ==
    ASSUME UNCHANGED << drv, op, page, col >>
    PROVE  /\ Chunks(op)' = Chunks(op) /\ RdLen(op)' = RdLen(op)
           /\ \A j : Owed(j)' = Owed(j)
           /\ \A j : BytesIn(j)' = BytesIn(j)
<1>1. Chunks(op)' = Chunks(op) /\ RdLen(op)' = RdLen(op)
  BY DEF Chunks, Header, HeadItems, DataOut, Opcode, Address, WrLen, RdLen, Head1
<1> QED
  BY <1>1 DEF Owed, BytesIn

(* The programmer takes the writes of an operation one by one, and answers *)
(* when it has them all.                                                   *)
LEMMA Telling ==
    ASSUME HInv, TInv, Programmer, pc \in InOp, NEW n \in 0 .. Len(Chunks(op)), UpTo(n),
           SoFar(col)
    PROVE  \/ /\ up' = << >> /\ UNCHANGED << loaded, refused >>
              /\ \E j \in 0 .. n :
                    /\ j < Len(Chunks(op)) /\ down' = SubSeq(Chunks(op), j + 1, n)
                    /\ dev' = IF j = 0 THEN Idle
                              ELSE Dev("op", Owed(j), RdLen(op), SubSeq(Chunks(op), 2, j))
           \/ /\ n = Len(Chunks(op)) /\ down' = << >> /\ dev' = Idle
              /\ \/ up' = << Bare("nak") >> /\ refused' = TRUE /\ loaded' = loaded
                 \/ /\ up' = Acked(BytesIn(0)) /\ loaded' = ChipLoads(Sent(op), 1)
                    /\ refused' = refused
<1>1. /\ drv = "serprog" /\ down # << >> /\ down' = Tail(down) /\ Reads(Head(down))
  BY DEF Programmer
<1>2. /\ Chunks(op) \in Seq(Piece) /\ Len(Chunks(op)) >= 2
      /\ Chunks(op) = << Header(op) >> \o Sent(op)
      /\ Chunks(op)[1] = Header(op)
      /\ Len(Chunks(op)) - 1 + (IF op.addr.nbytes > 0 THEN 1 ELSE 0) = WrLen(op)
      /\ \A k \in 2 .. Len(Chunks(op)) :
            Size(Chunks(op)[k]) = IF op.addr.nbytes > 0 /\ k = 3 THEN 2 ELSE 1
      /\ op.addr.nbytes > 0 => Len(Chunks(op)) >= 3
      /\ SubSeq(Chunks(op), 2, Len(Chunks(op))) = Sent(op)
  BY ChunksAre
<1> DEFINE N == Len(Chunks(op))
<1>3. N \in Nat
  BY <1>2
<1>4. up = << >>
  BY DEF UpTo
<1>5. PICK j \in 0 .. n : j < N /\ Told(j, n)
  BY DEF UpTo
<1>6. /\ down = SubSeq(Chunks(op), j + 1, n)
      /\ dev = IF j = 0 THEN Idle
               ELSE Dev("op", Owed(j), RdLen(op), SubSeq(Chunks(op), 2, j))
  BY <1>5 DEF Told
<1>7. j < n
  <2> SUFFICES ASSUME ~ (j < n) PROVE FALSE
    OBVIOUS
  <2>1. n < j + 1 /\ j + 1 \in Int /\ n \in Int
    BY <1>3
  <2> QED
    BY <1>1, <1>6, <2>1, SubSeqEmpty
<1>8. Head(down) = Chunks(op)[j + 1] /\ Tail(down) = SubSeq(Chunks(op), (j + 1) + 1, n)
  <2>1. j + 1 \in 1 .. N /\ n \in j + 1 .. N
    BY <1>3, <1>7
  <2> QED
    BY <1>2, <1>6, <2>1, HeadTailOfSubSeq
<1> DEFINE item == Chunks(op)[j + 1]
<1>9. j + 1 \in 1 .. n /\ j + 1 \in 1 .. N
  BY <1>3, <1>7
<1>10. item \in Piece
  BY <1>2, <1>9
<1>11. \A s \in Seq(Back) : Answer(s) => up' = s
  BY <1>4, NothingAdded DEF Answer
<1>12. CASE j = 0
  <2>1. item = Header(op) /\ dev = Idle
    BY <1>2, <1>6, <1>12
  <2>2. item.t = "hdr" /\ item.wr = WrLen(op) /\ item.rd = RdLen(op)
    BY <2>1 DEF Header
  <2>3. Reads(item)
    BY <1>1, <1>8
  <2> HIDE DEF item
  <2>4. dev' = Dev("op", WrLen(op), RdLen(op), << >>) /\ Answer(<< >>)
        /\ UNCHANGED << loaded, refused >>
    BY <2>1, <2>2, <2>3, TakesIdle
  <2>5. up' = << >>
    <3>1. << >> \in Seq(Back)
      OBVIOUS
    <3> QED
      BY <1>11, <2>4, <3>1
  <2>6. Owed(1) = WrLen(op) /\ SubSeq(Chunks(op), 2, 1) = << >>
    <3>1. SubSeq(Chunks(op), 2, 1) = << >>
      BY SubSeqEmpty
    <3> QED
      BY <1>2, <3>1 DEF Owed
  <2>7. 1 \in 0 .. n /\ 1 < N /\ 1 # 0
    BY <1>2, <1>3, <1>9, <1>12
  <2>8. down' = SubSeq(Chunks(op), 1 + 1, n)
    BY <1>1, <1>8, <1>12
  <2> QED
    BY <2>4, <2>5, <2>6, <2>7, <2>8
<1>13. CASE j # 0
  <2>1. j + 1 \in 2 .. N /\ j \in 1 .. N
    BY <1>3, <1>9, <1>13
  <2>2. Size(item) = IF op.addr.nbytes > 0 /\ j + 1 = 3 THEN 2 ELSE 1
    BY <1>2, <2>1
  <2>3. Reads(item)
    BY <1>1, <1>8
  <2> DEFINE seen == SubSeq(Chunks(op), 2, j)
  <2>4. Append(seen, item) = SubSeq(Chunks(op), 2, j + 1)
    <3>1. 2 \in 1 .. N /\ j + 1 \in 2 .. N /\ (j + 1) - 1 = j
      BY <1>2, <1>3, <2>1
    <3>2. SubSeq(Chunks(op), 2, j + 1) = seen \o << item >>
      BY <1>2, <3>1, SubSeqRecursiveSecond
    <3>3. seen \in Seq(Piece)
      BY <1>2, <2>1, SubSeqType
    <3> QED
      BY <1>10, <3>2, <3>3, AppendIsConcat
  <2> HIDE DEF item, seen
  <2>5. dev = Dev("op", Owed(j), RdLen(op), seen)
    BY <1>6, <1>13 DEF seen
  <2>6. Owed(j) \in Nat /\ Owed(j) - Size(item) = Owed(j + 1)
    <3>1. Owed(j) = N - j + (IF op.addr.nbytes > 0 /\ j <= 2 THEN 1 ELSE 0)
      BY DEF Owed
    <3>2. Owed(j + 1) = N - (j + 1) + (IF op.addr.nbytes > 0 /\ j + 1 <= 2 THEN 1 ELSE 0)
      BY DEF Owed
    <3>3. CASE op.addr.nbytes > 0 /\ j = 1
      <4>1. Owed(j) = N /\ Owed(j + 1) = N - 1 /\ Size(item) = 1
        BY <1>3, <2>1, <2>2, <3>1, <3>2, <3>3
      <4> QED
        BY <1>3, <4>1
    <3>4. CASE op.addr.nbytes > 0 /\ j = 2
      <4>1. Owed(j) = N - 1 /\ Owed(j + 1) = N - 3 /\ Size(item) = 2
        BY <1>3, <2>1, <2>2, <3>1, <3>2, <3>4
      <4> QED
        BY <1>3, <2>1, <3>4, <4>1
    <3>5. CASE ~ (op.addr.nbytes > 0) \/ j > 2
      <4>1. Owed(j) = N - j /\ Owed(j + 1) = N - (j + 1) /\ Size(item) = 1
        BY <1>3, <2>1, <2>2, <3>1, <3>2, <3>5
      <4> QED
        BY <1>3, <2>1, <4>1
    <3> QED
      BY <1>3, <2>1, <3>3, <3>4, <3>5
  <2>7. CASE j + 1 < N
    <3>1. Owed(j) > Size(item)
      BY <1>2, <1>3, <2>1, <2>2, <2>7 DEF Owed
    <3>2. /\ dev' = Dev("op", Owed(j) - Size(item), RdLen(op), Append(seen, item))
          /\ UNCHANGED << up, loaded, refused >>
      BY <2>3, <2>5, <2>6, <3>1, TakesMore
    <3>3. dev' = Dev("op", Owed(j + 1), RdLen(op), SubSeq(Chunks(op), 2, j + 1))
      BY <2>4, <2>6, <3>2
    <3>4. j + 1 \in 0 .. n /\ j + 1 # 0 /\ j + 1 < Len(Chunks(op))
      BY <1>9, <2>7
    <3>5. down' = SubSeq(Chunks(op), (j + 1) + 1, n) /\ up' = << >>
      BY <1>1, <1>4, <1>8, <3>2
    <3> QED
      BY <3>2, <3>3, <3>4, <3>5
  <2>8. CASE ~ (j + 1 < N)
    <3>1. j + 1 = N /\ n = N
      BY <1>3, <1>9, <2>8
    <3>2. Owed(j) = Size(item)
      BY <1>2, <1>3, <2>1, <2>2, <3>1 DEF Owed
    <3>3. refused \in BOOLEAN
      BY DEF TInv, FarTyped
    <3>4. Append(seen, item) = Sent(op)
      BY <1>2, <2>4, <3>1
    <3> DEFINE s == Append(seen, item)
               bytes == Clocked1(s, RdLen(op))
    <3>5. /\ dev' = Idle
          /\ \/ Answer(<< Bare("nak") >>) /\ loaded' = loaded /\ refused' = TRUE
             \/ /\ Answer(Acked(bytes))
                /\ loaded' = ChipLoads(s, 1) /\ refused' = refused
      <4>1. dev = Dev("op", Size(item), RdLen(op), seen)
        BY <2>5, <3>2
      <4> QED
        BY <2>3, <4>1, TakesOp
    <3>6. Wires = 1
      BY <1>1 DEF Wires
    <3>7. ChipData(s, RdLen(op), 1) = DataIn(0)
      BY <3>4, <3>6, ReadBack
    <3>8. RdLen(op) \in Nat
      BY OpFacts DEF RdLen, TInv, Looping
    <3>9. bytes = BytesIn(0)
      <4>1. RdLen(op) - 0 = RdLen(op)
        BY <3>8
      <4>2. \A k \in 1 .. RdLen(op) : DataIn(0)[k] = << page, col + 0 + k - 1 >>
        BY <4>1 DEF DataIn
      <4>3. \A k \in 1 .. RdLen(op) :
               Byte(ChipData(s, RdLen(op), 1)[k]) = Byte(<< page, col + 0 + k - 1 >>)
        BY <3>7, <4>2
      <4> QED
        BY <4>1, <4>3 DEF BytesIn, Clocked1
    <3>10. ChipLoads(s, 1) = ChipLoads(Sent(op), 1)
      BY <3>4
    <3>11. bytes \in Seq(Back)
      <4>1. ChipData(s, RdLen(op), 1) \in Seq(Value)
            /\ Len(ChipData(s, RdLen(op), 1)) = RdLen(op)
        BY <3>4, <3>8, SentIs, ChipDataType
      <4> DEFINE d == ChipData(s, RdLen(op), 1)
      <4> HIDE DEF d
      <4>2. \A k \in 1 .. RdLen(op) : Byte(d[k]) \in Back
        BY <4>1 DEF d, Byte, Back
      <4>3. [ k \in 1 .. RdLen(op) |-> Byte(d[k]) ] \in [ 1 .. RdLen(op) -> Back ]
        BY <4>2
      <4> QED
        BY <3>8, <4>3, FcnIsSeq DEF d, Clocked1
    <3> HIDE DEF bytes, s
    <3>12. << Bare("nak") >> \in Seq(Back) /\ Acked(bytes) \in Seq(Back)
      <4>1. Bare("nak") \in Back /\ Bare("ack") \in Back
        BY DEF Bare, Back
      <4>2. << Bare("nak") >> \in Seq(Back) /\ << Bare("ack") >> \in Seq(Back)
        BY <4>1
      <4> QED
        BY <3>11, <4>2, ConcatProperties DEF Acked
    <3>13. /\ Answer(<< Bare("nak") >>) => up' = << Bare("nak") >>
           /\ Answer(Acked(bytes)) => up' = Acked(BytesIn(0))
      BY <1>11, <3>9, <3>12
    <3>14. down' = << >>
      <4>1. n < (j + 1) + 1 /\ (j + 1) + 1 \in Int /\ n \in Int
        BY <1>3, <3>1
      <4>2. SubSeq(Chunks(op), (j + 1) + 1, n) = << >>
        BY <4>1, SubSeqEmpty
      <4> QED
        BY <1>1, <1>8, <4>2
    <3> QED
      BY <3>1, <3>5, <3>10, <3>13, <3>14
  <2> QED
    BY <2>7, <2>8
<1> QED
  BY <1>12, <1>13
LEMMA SerProgrammer == ASSUME HInv, TInv, SerInv, Programmer PROVE SerInv'
<1>1. /\ drv = "serprog" /\ down # << >> /\ down' = Tail(down) /\ Reads(Head(down))
      /\ UNCHANGED << drv, pc, step, dir, op, page, buf, col, left, outcome, glitch >>
  BY DEF Programmer, call, loop
<1>2. SUFFICES ASSUME glitch = "none" PROVE SerAt' /\ SerEnded'
  BY <1>1 DEF SerInv
<1>3. SerAt /\ SerEnded
  BY <1>1, <1>2 DEF SerInv
<1>4. up \in Seq(Back)
  BY <1>1 DEF TInv, LineTyped, BackItem
<1>5. SerEnded'
  <2>1. outcome # "done"
    BY <1>1, <1>3 DEF SerEnded, Settled
  <2>2. refused => refused'
    BY <1>1 DEF Reads
  <2> QED
    BY <1>1, <1>3, <2>1, <2>2 DEF SerEnded
<1>6. Bare("nak") \in Back /\ Bare("ack") \in Back /\ Bare("map") \in Back
      /\ Bare("freq") \in Back
  BY DEF Bare, Back
<1>7. \A s \in Seq(Back) : up = << >> /\ Answer(s) => up' = s
  BY NothingAdded DEF Answer
<1>8. SerAt'
  <2>1. CASE pc \in {"open", "idle", "part", "data"}
    BY <1>1, <1>3, <2>1 DEF SerAt, Settled
  <2>2. CASE pc = "sync"
    <3>1. Syncing
      BY <1>3, <2>2 DEF SerAt
    <3>2. step = 2 /\ down = << Bare("sync") >> /\ up = << >> /\ Fresh
      BY <1>1, <3>1 DEF Syncing
    <3>3. Head(down) = Bare("sync") /\ down' = << >> /\ Reads(Bare("sync"))
          /\ Size(Bare("sync")) = 1 /\ Bare("sync").t = "sync"
      BY <1>1, <3>2, OneTaken DEF Size, Bare
    <3>4. CASE dev = Idle
      <4>1. dev' = Idle /\ Answer(<< Bare("nak"), Bare("ack") >>)
        BY <3>3, <3>4, TakesIdle
      <4>2. << Bare("nak"), Bare("ack") >> \in Seq(Back)
        BY <1>6
      <4>3. up' = << Bare("nak"), Bare("ack") >>
        BY <1>7, <3>2, <4>1, <4>2
      <4>4. Syncing'
        BY <1>1, <3>2, <3>3, <4>1, <4>3 DEF Syncing
      <4> QED
        BY <1>1, <2>2, <4>4 DEF SerAt
    <3>5. ASSUME NEW n \in 1 .. 2, NEW rd \in 0 .. 1, dev = Dev("op", n, rd, << >>)
          PROVE  Syncing'
      <4>1. CASE n = 2
        <5>1. n \in Nat /\ n > Size(Bare("sync"))
          BY <3>3, <4>1
        <5>2. UNCHANGED up
          BY <3>3, <3>5, <5>1, TakesMore
        <5> QED
          BY <1>1, <3>2, <3>3, <5>2 DEF Syncing
      <4>2. CASE n = 1
        <5>1. dev = Dev("op", Size(Bare("sync")), rd, << >>)
          BY <3>3, <3>5, <4>2
        <5> DEFINE bytes == Clocked1(Append(<< >>, Bare("sync")), rd)
        <5>2. dev' = Idle /\ (Answer(<< Bare("nak") >>) \/ Answer(Acked(bytes)))
          BY <3>3, <5>1, TakesOp
        <5>3. bytes \in Seq(Back)
          <6> DEFINE s == Append(<< >>, Bare("sync"))
                     d == ChipData(s, rd, 1)
          <6>1. s \in Seq(Piece)
            <7>1. Bare("sync") \in Piece /\ << >> \in Seq(Piece)
              BY DEF Bare, Piece
            <7> QED
              BY <7>1, AppendProperties
          <6>2. rd \in Nat
            OBVIOUS
          <6>3. d \in Seq(Value) /\ Len(d) = rd
            BY <6>1, <6>2, ChipDataType
          <6> HIDE DEF d
          <6>4. \A k \in 1 .. rd : Byte(d[k]) \in Back
            BY <6>3 DEF Byte, Back
          <6>5. [ k \in 1 .. rd |-> Byte(d[k]) ] \in [ 1 .. rd -> Back ]
            BY <6>4
          <6> QED
            BY <6>2, <6>5, FcnIsSeq DEF Clocked1, d
        <5> HIDE DEF bytes
        <5>4. /\ Acked(bytes) \in Seq(Back) /\ Acked(bytes) # << >>
              /\ Head(Acked(bytes)) = Bare("ack")
          BY <1>6, <5>3, FirstTaken DEF Acked
        <5>5. << Bare("nak") >> \in Seq(Back)
          BY <1>6
        <5>6. up' = << Bare("nak") >> \/ up' = Acked(bytes)
          BY <1>7, <3>2, <5>2, <5>4, <5>5
        <5>7. Bare("ack").t = "ack"
          BY DEF Bare
        <5> QED
          BY <1>1, <3>2, <3>3, <5>2, <5>4, <5>6, <5>7 DEF Syncing
      <4> QED
        BY <4>1, <4>2
    <3>6. Syncing' => SerAt'
      BY <1>1, <2>2 DEF SerAt
    <3> QED
      BY <3>2, <3>4, <3>5, <3>6 DEF Fresh
  <2>3. CASE pc = "map"
    <3>1. Mapping
      BY <1>3, <2>3 DEF SerAt
    <3>2. step = 2 /\ down = << Bare("map") >> /\ up = << >> /\ dev = Idle
      BY <1>1, <3>1 DEF Mapping
    <3>3. down' = << >> /\ Reads(Bare("map")) /\ Bare("map").t = "map"
      BY <1>1, <3>2, OneTaken DEF Bare
    <3>4. dev' = Idle /\ Answer(Acked(MapReply))
      BY <3>2, <3>3, TakesIdle DEF Acked, MapReply
    <3>5. Acked(MapReply) \in Seq(Back)
      <4>1. MapReply \in [ 1 .. MapLen -> Back ]
        BY <1>6 DEF MapReply
      <4>2. MapReply \in Seq(Back)
        BY <4>1, Sizes, FcnIsSeq
      <4> QED
        BY <1>6, <4>2, FirstTaken DEF Acked
    <3>6. up' = Acked(MapReply)
      BY <1>7, <3>2, <3>4, <3>5
    <3>7. Mapping'
      BY <1>1, <3>2, <3>3, <3>4, <3>6 DEF Mapping, Acked, MapReply
    <3> QED
      BY <1>1, <2>3, <3>7 DEF SerAt
  <2>4. CASE pc = "freq"
    <3>1. Tuning
      BY <1>3, <2>4 DEF SerAt
    <3>2. CASE down = << Bare("freq"), Bare("param") >> /\ up = << >> /\ dev = Idle
      <4>1. Head(down) = Bare("freq") /\ Tail(down) = << Bare("param") >>
            /\ Bare("freq").t = "freq"
        BY <3>2 DEF Bare
      <4>2. dev' = Dev("freq", 4, 0, << >>) /\ Answer(<< >>)
        BY <1>1, <3>2, <4>1, TakesIdle
      <4>3. << >> \in Seq(Back)
        OBVIOUS
      <4>4. up' = << >>
        BY <1>7, <3>2, <4>2, <4>3
      <4>5. step = 2
        BY <1>1, <3>1 DEF Tuning
      <4>6. Tuning'
        BY <1>1, <4>1, <4>2, <4>4, <4>5 DEF Tuning
      <4> QED
        BY <1>1, <2>4, <4>6 DEF SerAt
    <3>3. CASE down = << Bare("param") >> /\ up = << >> /\ dev = Dev("freq", 4, 0, << >>)
      <4>1. down' = << >> /\ Reads(Bare("param")) /\ Size(Bare("param")) = 4
        BY <1>1, <3>3, OneTaken DEF Bare, Size
      <4>2. dev = Dev("freq", Size(Bare("param")), 0, << >>)
        BY <3>3, <4>1
      <4>3. dev' = Idle /\ Answer(Acked(FreqReply))
        BY <4>1, <4>2, TakesFreq
      <4>4. Acked(FreqReply) \in Seq(Back)
        <5>1. FreqReply \in [ 1 .. 4 -> Back ]
          BY <1>6 DEF FreqReply
        <5>2. FreqReply \in Seq(Back)
          BY <5>1, FcnIsSeq
        <5> QED
          BY <1>6, <5>2, FirstTaken DEF Acked
      <4>5. up' = Acked(FreqReply)
        BY <1>7, <3>3, <4>3, <4>4
      <4>6. step = 2
        BY <1>1, <3>1, <3>3 DEF Tuning
      <4>7. Tuning'
        BY <1>1, <4>1, <4>3, <4>5, <4>6 DEF Tuning, Acked, FreqReply
      <4> QED
        BY <1>1, <2>4, <4>7 DEF SerAt
    <3> QED
      BY <1>1, <3>1, <3>2, <3>3 DEF Tuning
  <2>5. CASE pc \in {"send", "ack"}
    <3> DEFINE n == IF pc = "send" THEN step - 1 ELSE Len(Chunks(op))
    <3>1. pc \in InOp
      BY <2>5 DEF InOp
    <3>2. Chunks(op) \in Seq(Piece)
      BY <3>1, ChunksType
    <3>3. n \in 0 .. Len(Chunks(op))
      BY <1>1, <2>5, <3>1, <3>2, ChunksAre DEF TInv, OpShape
    <3>4. UpTo(n) /\ SoFar(col)
      BY <1>1, <1>3, <2>5 DEF SerAt, Answered
    <3>5. (pc = "send" => n < Len(Chunks(op))) /\ (pc = "ack" => step = 0)
      BY <1>1, <1>3, <2>5, <3>1, <3>2, ChunksAre DEF TInv, OpShape, SerAt
    <3>6. UNCHANGED << drv, op, page, col >>
      BY <1>1
    <3>7. \A m \in 0 .. Len(Chunks(op)) : UpTo(m) =>
          \/ /\ up' = << >> /\ UNCHANGED << loaded, refused >>
             /\ \E j \in 0 .. m :
                   /\ j < Len(Chunks(op)) /\ down' = SubSeq(Chunks(op), j + 1, m)
                   /\ dev' = IF j = 0 THEN Idle
                             ELSE Dev("op", Owed(j), RdLen(op), SubSeq(Chunks(op), 2, j))
          \/ /\ m = Len(Chunks(op)) /\ down' = << >> /\ dev' = Idle
             /\ \/ up' = << Bare("nak") >> /\ refused' = TRUE /\ loaded' = loaded
                \/ /\ up' = Acked(BytesIn(0)) /\ loaded' = ChipLoads(Sent(op), 1)
                   /\ refused' = refused
      BY <3>1, <3>4, Telling
    <3>8. \/ /\ up' = << >> /\ UNCHANGED << loaded, refused >>
             /\ \E j \in 0 .. n :
                   /\ j < Len(Chunks(op)) /\ down' = SubSeq(Chunks(op), j + 1, n)
                   /\ dev' = IF j = 0 THEN Idle
                             ELSE Dev("op", Owed(j), RdLen(op), SubSeq(Chunks(op), 2, j))
          \/ /\ n = Len(Chunks(op)) /\ down' = << >> /\ dev' = Idle
             /\ \/ up' = << Bare("nak") >> /\ refused' = TRUE /\ loaded' = loaded
                \/ /\ up' = Acked(BytesIn(0)) /\ loaded' = ChipLoads(Sent(op), 1)
                   /\ refused' = refused
      <4> HIDE DEF n
      <4> QED
        BY <3>3, <3>4, <3>7
    <3>9. CASE /\ up' = << >> /\ UNCHANGED << loaded, refused >>
               /\ \E j \in 0 .. n :
                   /\ j < Len(Chunks(op)) /\ down' = SubSeq(Chunks(op), j + 1, n)
                   /\ dev' = IF j = 0 THEN Idle
                             ELSE Dev("op", Owed(j), RdLen(op), SubSeq(Chunks(op), 2, j))
      <4>1. Chunks(op)' = Chunks(op) /\ RdLen(op)' = RdLen(op)
            /\ \A j : Owed(j)' = Owed(j)
        BY <3>6, OpKept
      <4>2. n' = n
        BY <1>1, <4>1
      <4>3. SoFar(col)'
        BY <1>1, <3>4, <3>9 DEF SoFar
      <4>4. UpTo(n)'
        <5>1. PICK j \in 0 .. n :
                   /\ j < Len(Chunks(op)) /\ down' = SubSeq(Chunks(op), j + 1, n)
                   /\ dev' = IF j = 0 THEN Idle
                             ELSE Dev("op", Owed(j), RdLen(op), SubSeq(Chunks(op), 2, j))
          BY <3>9
        <5>2. Told(j, n)'
          BY <4>1, <4>2, <5>1 DEF Told, Idle, Dev
        <5> HIDE DEF n
        <5>3. j < Len(Chunks(op))' /\ j \in 0 .. n'
          BY <4>1, <4>2, <5>1
        <5> QED
          BY <3>9, <5>2, <5>3 DEF UpTo
      <4>5. pc = "send" => UpTo(step - 1)'
        BY <4>4, <1>1
      <4>6. pc = "ack" => UpTo(Len(Chunks(op)))'
        BY <4>4, <1>1
      <4> QED
        BY <1>1, <2>5, <3>5, <4>3, <4>5, <4>6 DEF SerAt
    <3>10. CASE /\ n = Len(Chunks(op)) /\ down' = << >> /\ dev' = Idle
                /\ \/ up' = << Bare("nak") >> /\ refused' = TRUE /\ loaded' = loaded
                   \/ /\ up' = Acked(BytesIn(0)) /\ loaded' = ChipLoads(Sent(op), 1)
                      /\ refused' = refused
      <4>1. pc = "ack" /\ step = 0
        BY <2>5, <3>2, <3>5, <3>10
      <4>2. BytesIn(0)' = BytesIn(0)
        BY <3>6, OpKept
      <4>3. up' = Acked(BytesIn(0)) /\ loaded' = ChipLoads(Sent(op), 1) =>
               SoFar(IF dir = "out" THEN col + op.data.nbytes ELSE col)'
        <5> SUFFICES ASSUME loaded' = ChipLoads(Sent(op), 1)
                     PROVE  SoFar(IF dir = "out" THEN col + op.data.nbytes ELSE col)'
          OBVIOUS
        <5>1. Wires = 1
          BY <1>1 DEF Wires
        <5>2. /\ dir # "out" => loaded' = loaded
              /\ dir = "out" => \A c \in Columns :
                    c < col + op.data.nbytes => loaded'[c] = << page, c >>
          BY <3>1, <3>4, <5>1, Loads
        <5> QED
          BY <1>1, <3>4, <5>2 DEF SoFar
      <4>4. Answered'
        BY <1>1, <3>10, <4>2, <4>3 DEF Answered, Acked, Idle, Dev, Bare
      <4> QED
        BY <1>1, <4>1, <4>4 DEF SerAt
    <3> QED
      BY <3>8, <3>9, <3>10
  <2>6. CASE pc \notin {"open", "idle", "part", "data", "sync", "map", "freq", "send", "ack"}
    BY <1>1, <2>6 DEF SerAt
  <2> QED
    BY <2>1, <2>2, <2>3, <2>4, <2>5, <2>6
<1> QED
  BY <1>5, <1>8
-----------------------------------------------------------------------------
(* What the program does as long as no transfer fails. *)
LEMMA SerCommon == ASSUME HInv, TInv, SerInv, Common PROVE SerInv'
<1>1. SUFFICES ASSUME drv = "serprog", glitch = "none"
               PROVE  SerAt' /\ SerEnded'
  <2>1. [Next]_vars
    BY DEF Next, Program
  <2> QED
    BY <2>1, Remembered DEF SerInv
<1>2. SerAt /\ SerEnded
  BY <1>1 DEF SerInv
<1>3. Stages = 2
  BY <1>1, StagesOf DEF HInv
<1>4. CASE Open
  <2>1. UNCHANGED << op, dir, page, buf, col, left, outcome, down, up, dev, loaded, refused >>
    BY <1>4 DEF Open, call, loop, line, far
  <2>2. pc = "open" /\ (pc' = "open" \/ (pc' = "sync" /\ step' = 1))
    BY <1>1, <1>4 DEF Open, Probing
  <2>3. down = << >> /\ up = << >> /\ Fresh
    BY <1>2, <2>2 DEF SerAt
  <2>4. Fresh'
    BY <2>1, <2>3 DEF Fresh, Idle, Dev
  <2>5. SerAt'
    BY <2>1, <2>2, <2>3, <2>4 DEF SerAt, Syncing
  <2> QED
    BY <1>2, <2>1, <2>2, <2>5 DEF SerEnded
<1>5. CASE OpenFails \/ Unwind
  <2>1. UNCHANGED << op, dir, page, buf, col, left, outcome, down, up, dev, loaded, refused >>
    BY <1>5 DEF OpenFails, Unwind, call, loop, line, far
  <2>2. pc \in {"open", "unwind"} /\ pc' \in {"unwind", "closed"}
    BY <1>5 DEF OpenFails, Unwind, Unwinds
  <2> QED
    BY <1>2, <2>1, <2>2 DEF SerAt, SerEnded
<1>6. CASE RemoveAdapter
  <2>1. UNCHANGED << op, dir, page, buf, col, left, outcome, down, up, dev, loaded, refused >>
    BY <1>6 DEF RemoveAdapter, call, loop, line, far
  <2>2. pc = "idle" /\ pc' = "closed"
    BY <1>6 DEF RemoveAdapter
  <2> QED
    BY <1>2, <2>1, <2>2 DEF SerAt, SerEnded, Settled, SoFar
<1>7. CASE Call
  <2>1. /\ pc = "idle" /\ pc' = "part" /\ outcome' = "none" /\ col' = 0
        /\ UNCHANGED << down, up, dev >>
    BY <1>7 DEF Call
  <2>2. SoFar(col)'
    BY <2>1, Sizes DEF SoFar, Columns
  <2>3. Settled'
    BY <1>2, <2>1 DEF SerAt, Settled
  <2> QED
    BY <2>1, <2>2, <2>3 DEF SerAt, SerEnded
<1>8. CASE Part
  <2>1. /\ pc = "part" /\ (left > 0 \/ dir = "none") /\ op' = Adjust(WithData(Template, left))
        /\ step' = 1
        /\ UNCHANGED << drv, dir, page, buf, down, up, dev, loaded, refused >>
    BY <1>8 DEF Part, line, far
  <2>2. drv \in Drvs /\ dir \in Dirs /\ left \in Nat /\ (left = 0 <=> dir = "none")
    BY <2>1 DEF HInv, TInv, Looping
  <2>3. SupportsOp(Mode, op') /\ Takes(op')
    BY <2>1, <2>2, PartIs
  <2>4. pc' = "send" /\ UNCHANGED << col, left, outcome >>
    BY <1>8, <2>3 DEF Part, loop
  <2>5. Settled /\ SoFar(col)
    BY <1>2, <2>1 DEF SerAt
  <2>6. SoFar(col)'
    BY <2>1, <2>4, <2>5 DEF SoFar
  <2>7. TInv'
    BY <1>8, TPart
  <2>8. Chunks(op)' \in Seq(Piece) /\ Len(Chunks(op)') >= 2
    <3>1. TInv /\ pc \in InOp => Chunks(op) \in Seq(Piece) /\ Len(Chunks(op)) >= 2
      BY ChunksAre
    <3>2. (TInv /\ pc \in InOp => Chunks(op) \in Seq(Piece) /\ Len(Chunks(op)) >= 2)'
      BY ChunksAre, PTL
    <3> QED
      BY <2>4, <2>7, <3>2 DEF InOp
  <2>9. UpTo(step - 1)'
    <3>1. step' - 1 = 0
      BY <2>1
    <3>2. SubSeq(Chunks(op)', 0 + 1, 0) = << >>
      BY SubSeqEmpty
    <3>3. Told(0, 0)'
      BY <2>1, <2>5, <3>2 DEF Told, Settled
    <3>4. 0 \in 0 .. 0 /\ 0 < Len(Chunks(op)')
      BY <2>8
    <3>5. UpTo(0)'
      BY <2>1, <2>5, <3>3, <3>4 DEF UpTo, Settled
    <3> QED
      BY <3>1, <3>5
  <2>10. SerAt'
    BY <2>4, <2>6, <2>9 DEF SerAt
  <2>11. outcome # "done"
    BY <1>2, <2>1 DEF SerEnded
  <2> QED
    BY <1>2, <2>1, <2>4, <2>10, <2>11 DEF SerEnded
<1>9. CASE PartsEnd
  <2>1. /\ pc = "part" /\ left = 0 /\ dir # "none" /\ pc' = "idle" /\ outcome' = "done"
        /\ UNCHANGED << dir, page, buf, col, down, up, dev, loaded >>
    BY <1>9 DEF PartsEnd, Ends, call, line, far
  <2>2. col = Bytes
    BY <2>1, Sizes DEF TInv, Looping
  <2>3. Settled /\ SoFar(Bytes)
    BY <1>2, <2>1, <2>2 DEF SerAt
  <2>4. Settled' /\ SoFar(Bytes)'
    BY <2>1, <2>3 DEF Settled, SoFar
  <2> QED
    BY <2>1, <2>4 DEF SerAt, SerEnded
<1> QED
  BY <1>4, <1>5, <1>6, <1>7, <1>8, <1>9 DEF Common

(* A step without a failure behind it or in it.                            *)
LEMMA SerClean ==
    ASSUME drv = "serprog", glitch' = "none"
    PROVE  /\ \A items : ~ WriteFails(items)
           /\ \A fault, n : ~ ReadFails(fault, n)
           /\ \A ok \in BOOLEAN : CheckAck(ok) =>
                 /\ up # << >> /\ Taken(1)
                 /\ Head(up).t = "ack" => ok
                 /\ Head(up).t = "nak" => ~ ok
<1>1. \A fault : ~ Fails(fault)
  BY DEF Fails
<1>2. /\ \A items : ~ WriteFails(items)
      /\ \A fault, n : ~ ReadFails(fault, n)
  BY <1>1 DEF WriteFails, ReadFails
<1> QED
  BY <1>2 DEF CheckAck

LEMMA SerSetup ==
    ASSUME HInv, TInv, SerInv, SyncWrite \/ SyncRead \/ \E cmd \in {"map", "freq"} :
              ExecWrite(cmd) \/ ExecAck(cmd) \/ ExecReply(cmd)
    PROVE  SerInv'
<1>1. /\ UNCHANGED << drv, op, dir, page, buf, col, left, outcome, dev, loaded, refused >>
      /\ drv = "serprog" /\ pc \in {"sync", "map", "freq"}
  BY DEF SyncWrite, SyncRead, ExecWrite, ExecAck, ExecReply, call, loop, far, TInv, OwnStates,
         SerPcs
<1>2. SUFFICES ASSUME glitch = "none", glitch' = "none"
               PROVE  SerAt' /\ SerEnded'
  <2>1. [Next]_vars
    BY DEF Next, Program, SerProgram
  <2> QED
    BY <1>1, <2>1, Remembered DEF SerInv
<1>3. SerAt /\ SerEnded
  BY <1>1, <1>2 DEF SerInv
<1>4. SerEnded'
  BY <1>1, <1>3 DEF SerEnded
<1>5. \A n : Taken(n) => down' = down /\ up' = SubSeq(up, n + 1, Len(up))
  BY DEF Taken
<1>6. Bare("ack") \in Back /\ Bare("nak") \in Back
  BY DEF Bare, Back
<1>7. Bare("ack").t = "ack" /\ Bare("nak").t = "nak"
  BY DEF Bare
<1>8. CASE SyncWrite
  <2>1. pc = "sync" /\ step = 1 /\ pc' = "sync" /\ step' = 2 /\ Written(<< Bare("sync") >>)
    BY <1>1, <1>2, <1>8, SerClean DEF SyncWrite
  <2>2. down = << >> /\ up = << >> /\ Fresh
    BY <1>3, <2>1 DEF SerAt, Syncing
  <2>3. down' = << Bare("sync") >> /\ up' = << >>
    BY <2>1, <2>2, NothingAdded DEF Written
  <2>4. Fresh'
    BY <1>1, <2>2 DEF Fresh, Idle, Dev
  <2>5. Syncing'
    BY <2>1, <2>3, <2>4 DEF Syncing
  <2> QED
    BY <1>4, <2>1, <2>5 DEF SerAt
<1>9. CASE SyncRead
  <2>1. PICK ok \in BOOLEAN :
           /\ up # << >> /\ Taken(1)
           /\ Head(up).t = (IF step = 2 THEN "nak" ELSE "ack") => ok
           /\ Head(up).t = (IF step = 2 THEN "ack" ELSE "nak") => ~ ok
           /\ CASE ~ ok             -> Unwinds(Stages)
                [] ok /\ step = 2 -> pc' = pc /\ step' = 3
                [] OTHER          -> pc' = "map" /\ step' = 1
    BY <1>1, <1>2, <1>9, SerClean DEF SyncRead
  <2>2. pc = "sync" /\ step \in 2 .. 3
    BY <1>9 DEF SyncRead
  <2>3. Syncing /\ down' = down /\ up' = SubSeq(up, 2, Len(up))
    BY <1>3, <1>5, <2>1, <2>2 DEF SerAt
  <2>4. CASE ~ ok
    <3>1. pc' = "unwind"
      BY <2>1, <2>4 DEF Unwinds
    <3> QED
      BY <1>4, <3>1 DEF SerAt
  <2>5. CASE ok /\ step = 2
    <3>1. pc' = "sync" /\ step' = 3
      BY <2>1, <2>2, <2>5
    <3>2. down = << >> /\ dev = Idle
          /\ up \in { << Bare("nak"), Bare("ack") >>, << Bare("nak") >> }
      <4>1. Head(up).t # "ack"
        BY <2>1, <2>5
      <4>2. down # << Bare("sync") >> \/ up # << >>
        BY <2>1
      <4> QED
        BY <2>1, <2>3, <2>5, <4>1, <4>2 DEF Syncing
    <3>3. up' = << Bare("ack") >> \/ up' = << >>
      <4>1. CASE up = << Bare("nak"), Bare("ack") >>
        <5>1. Len(up) = 2
          BY <4>1
        <5>2. SubSeq(<< Bare("nak"), Bare("ack") >>, 2, 2) = << Bare("ack") >>
          BY SecondLeft
        <5> QED
          BY <2>3, <4>1, <5>1, <5>2
      <4>2. CASE up = << Bare("nak") >>
        BY <2>3, <4>2, OneTaken
      <4> QED
        BY <3>2, <4>1, <4>2
    <3>4. Syncing'
      BY <1>1, <2>3, <3>1, <3>2, <3>3 DEF Syncing, Idle, Dev, Bare
    <3> QED
      BY <1>4, <3>1, <3>4 DEF SerAt
  <2>6. CASE ok /\ step # 2
    <3>1. pc' = "map" /\ step' = 1 /\ step = 3
      BY <2>1, <2>2, <2>6
    <3>2. down = << >> /\ up = << Bare("ack") >> /\ dev = Idle
      BY <2>1, <2>3, <3>1 DEF Syncing
    <3>3. up' = << >>
      BY <2>3, <3>2, OneTaken
    <3>4. Mapping'
      BY <1>1, <2>3, <3>1, <3>2, <3>3 DEF Mapping
    <3> QED
      BY <1>4, <3>1, <3>4 DEF SerAt
  <2> QED
    BY <2>4, <2>5, <2>6
<1>10. ASSUME NEW cmd \in {"map", "freq"}, ExecWrite(cmd)
       PROVE  SerAt'
  <2> DEFINE items == IF cmd = "freq" THEN << Bare("freq"), Bare("param") >>
                      ELSE << Bare("map") >>
  <2>1. pc = cmd /\ step = 1 /\ step' = 2 /\ pc' = pc /\ Written(items)
    BY <1>1, <1>2, <1>10, SerClean DEF ExecWrite
  <2>2. Settled
    BY <1>3, <2>1 DEF SerAt, Mapping, Tuning, Settled
  <2>3. up' = << >> /\ down' = items
    <3>1. items \in Seq(Piece)
      <4>1. Bare("freq") \in Piece /\ Bare("param") \in Piece /\ Bare("map") \in Piece
        BY DEF Bare, Piece
      <4>2. << Bare("freq"), Bare("param") >> \in Seq(Piece) /\ << Bare("map") >> \in Seq(Piece)
        BY <4>1
      <4> QED
        BY <4>2
    <3>2. up' = up /\ down' = down \o items
      BY <2>1 DEF Written
    <3> HIDE DEF items
    <3> QED
      BY <2>2, <3>1, <3>2, NothingAdded DEF Settled
  <2>4. CASE cmd = "map"
    <3>1. Mapping'
      BY <1>1, <2>1, <2>2, <2>3, <2>4 DEF Mapping, Settled
    <3> QED
      BY <2>1, <2>4, <3>1 DEF SerAt
  <2>5. CASE cmd = "freq"
    <3>1. Tuning'
      BY <1>1, <2>1, <2>2, <2>3, <2>5 DEF Tuning, Settled, Idle
    <3> QED
      BY <2>1, <2>5, <3>1 DEF SerAt
  <2> QED
    BY <2>4, <2>5
<1>11. MapReply \in Seq(Back) /\ Len(MapReply) = MapLen
       /\ FreqReply \in Seq(Back) /\ Len(FreqReply) = 4
  <2>1. MapReply \in [ 1 .. MapLen -> Back ] /\ FreqReply \in [ 1 .. 4 -> Back ]
    BY DEF MapReply, FreqReply, Bare, Back
  <2> QED
    BY <2>1, Sizes, FcnIsSeq
<1>12. ASSUME NEW cmd \in {"map", "freq"}, ExecAck(cmd)
       PROVE  SerAt'
  <2>1. PICK ok \in BOOLEAN :
           /\ up # << >> /\ Taken(1) /\ (Head(up).t = "ack" => ok)
           /\ IF ok THEN step' = 3 /\ pc' = pc ELSE Unwinds(Stages)
    BY <1>1, <1>2, <1>12, SerClean DEF ExecAck
  <2>2. pc = cmd /\ step = 2 /\ down' = down /\ up' = SubSeq(up, 2, Len(up))
    <3>1. pc = cmd /\ step = 2
      BY <1>12 DEF ExecAck
    <3>2. down' = down /\ up' = SubSeq(up, 1 + 1, Len(up))
      BY <2>1 DEF Taken
    <3> QED
      BY <3>1, <3>2
  <2>3. CASE ~ ok
    <3>1. pc' = "unwind"
      BY <2>1, <2>3 DEF Unwinds
    <3> QED
      BY <3>1 DEF SerAt
  <2>4. CASE ok /\ cmd = "map"
    <3>1. down = << >> /\ up = Acked(MapReply) /\ dev = Idle
      BY <1>3, <2>1, <2>2, <2>4 DEF SerAt, Mapping
    <3>2. up' = MapReply
      BY <1>6, <1>11, <2>2, <3>1, FirstTaken DEF Acked
    <3>3. pc' = "map" /\ step' = 3 /\ down' = << >> /\ dev' = Idle
      BY <1>1, <2>1, <2>2, <2>4, <3>1
    <3>4. Mapping'
      BY <3>2, <3>3 DEF Mapping, MapReply
    <3> QED
      BY <3>3, <3>4 DEF SerAt
  <2>5. CASE ok /\ cmd = "freq"
    <3>1. down = << >> /\ up = Acked(FreqReply) /\ dev = Idle
      BY <1>3, <2>1, <2>2, <2>5 DEF SerAt, Tuning
    <3>2. up' = FreqReply
      BY <1>6, <1>11, <2>2, <3>1, FirstTaken DEF Acked
    <3>3. pc' = "freq" /\ step' = 3 /\ down' = << >> /\ dev' = Idle
      BY <1>1, <2>1, <2>2, <2>5, <3>1
    <3>4. Tuning'
      BY <3>2, <3>3 DEF Tuning, FreqReply
    <3> QED
      BY <3>3, <3>4 DEF SerAt
  <2> QED
    BY <2>3, <2>4, <2>5
<1>13. ASSUME NEW cmd \in {"map", "freq"}, ExecReply(cmd)
       PROVE  SerAt'
  <2> DEFINE n == IF cmd = "map" THEN MapLen ELSE 4
  <2>1. pc = cmd /\ step = 3 /\ Taken(n) /\ step' = 1
        /\ pc' \in {"idle"} \cup IF cmd = "map" THEN {"freq"} ELSE {}
    BY <1>1, <1>2, <1>13, SerClean DEF ExecReply, After
  <2>2. down = << >> /\ dev = Idle /\ Len(up) = n
    BY <1>3, <1>11, <2>1 DEF SerAt, Mapping, Tuning
  <2>3. n \in Nat
    BY Sizes
  <2>4. down' = << >> /\ up' = << >>
    <3> HIDE DEF n
    <3>1. n < n + 1 /\ n + 1 \in Int /\ n \in Int
      BY <2>3
    <3>2. SubSeq(up, n + 1, n) = << >>
      BY <3>1, SubSeqEmpty
    <3> QED
      BY <1>5, <2>1, <2>2, <3>2
  <2>5. Settled'
    BY <1>1, <2>2, <2>4 DEF Settled
  <2> QED
    BY <1>1, <2>1, <2>2, <2>4, <2>5 DEF SerAt, Tuning
<1> QED
  BY <1>4, <1>8, <1>9, <1>10, <1>12, <1>13
LEMMA SerSend == ASSUME HInv, TInv, SerInv, Send PROVE SerInv'
<1>1. /\ UNCHANGED << drv, op, dir, page, buf, dev, loaded, refused >>
      /\ drv = "serprog" /\ pc = "send" /\ pc \in InOp
  BY DEF Send, call, far, InOp
<1>2. SUFFICES ASSUME glitch = "none", glitch' = "none"
               PROVE  SerAt' /\ SerEnded'
  <2>1. [Next]_vars
    BY DEF Next, Program, SerProgram
  <2> QED
    BY <1>1, <2>1, Remembered DEF SerInv
<1>3. SerAt /\ SerEnded
  BY <1>1, <1>2 DEF SerInv
<1>4. /\ Written(<< Chunks(op)[step] >>)
      /\ IF step < Len(Chunks(op)) THEN pc' = "send" /\ step' = step + 1
         ELSE pc' = "ack" /\ step' = 0
      /\ UNCHANGED << col, left, outcome >>
  BY <1>1, <1>2, SerClean DEF Send, loop
<1>5. SerEnded'
  BY <1>1, <1>3, <1>4 DEF SerEnded
<1> DEFINE N == Len(Chunks(op))
<1>6. Chunks(op) \in Seq(Piece) /\ N >= 2 /\ N \in Nat
  BY <1>1, ChunksAre
<1>7. step \in 1 .. N
  BY <1>1, <1>6 DEF TInv, OpShape
<1>8. up = << >> /\ SoFar(col)
  BY <1>1, <1>3 DEF SerAt, UpTo
<1>9. PICK j \in 0 .. step - 1 : j < N /\ Told(j, step - 1)
  BY <1>1, <1>3 DEF SerAt, UpTo
<1>10. /\ Chunks(op)' = Chunks(op) /\ RdLen(op)' = RdLen(op)
       /\ \A i : Owed(i)' = Owed(i)
  BY <1>1, <1>4, OpKept
<1>11. down' = SubSeq(Chunks(op), j + 1, step)
  <2>1. j + 1 \in 1 .. N /\ step \in j + 1 .. N
    BY <1>6, <1>7, <1>9
  <2>2. SubSeq(Chunks(op), j + 1, step)
           = SubSeq(Chunks(op), j + 1, step - 1) \o << Chunks(op)[step] >>
    BY <1>6, <2>1, SubSeqRecursiveSecond
  <2> QED
    BY <1>4, <1>9, <2>2 DEF Written, Told
<1>12. /\ dev' = IF j = 0 THEN Idle
                 ELSE Dev("op", Owed(j)', RdLen(op)', SubSeq(Chunks(op)', 2, j))
       /\ down' = SubSeq(Chunks(op)', j + 1, step)
  <2>1. dev = IF j = 0 THEN Idle
              ELSE Dev("op", Owed(j), RdLen(op), SubSeq(Chunks(op), 2, j))
    BY <1>9 DEF Told
  <2> QED
    BY <1>1, <1>10, <1>11, <2>1
<1>13. up' = << >>
  BY <1>4, <1>8 DEF Written
<1>14. SoFar(col)'
  BY <1>1, <1>4, <1>8 DEF SoFar
<1>15. ASSUME NEW m, m = step
       PROVE  up' = << >> /\ j \in 0 .. m /\ j < N' /\
              /\ down' = SubSeq(Chunks(op)', j + 1, m)
              /\ dev' = IF j = 0 THEN Idle
                        ELSE Dev("op", Owed(j)', RdLen(op)', SubSeq(Chunks(op)', 2, j))
  <2>1. j \in 0 .. m
    BY <1>7, <1>9, <1>15
  <2> QED
    BY <1>9, <1>10, <1>12, <1>13, <1>15, <2>1
<1>16. CASE step < N
  <2>1. pc' = "send" /\ step' - 1 = step
    BY <1>4, <1>7, <1>16
  <2>2. UpTo(step - 1)'
    BY <1>15, <2>1 DEF UpTo, Told
  <2> QED
    BY <1>5, <1>14, <2>1, <2>2 DEF SerAt
<1>17. CASE ~ (step < N)
  <2>1. pc' = "ack" /\ step' = 0 /\ N' = step
    BY <1>4, <1>6, <1>7, <1>10, <1>17
  <2>2. UpTo(Len(Chunks(op)))'
    BY <1>15, <2>1 DEF UpTo, Told
  <2> QED
    BY <1>5, <1>14, <2>1, <2>2 DEF SerAt
<1> QED
  BY <1>16, <1>17
(* How a part that came back goes on. *)
LEMMA Returns ==
    ASSUME TInv, pc \in InOp
    PROVE  /\ Return(-1) => /\ pc' = "idle" /\ outcome' = "failed"
                            /\ UNCHANGED << col, left >>
           /\ Return(0) /\ dir = "none" => /\ pc' = "idle" /\ outcome' = "done"
                                           /\ UNCHANGED << col, left >>
           /\ Return(0) /\ dir # "none" => /\ pc' = "part" /\ col' = col + op.data.nbytes
                                           /\ outcome' = outcome
<1>1. /\ op.data.nbytes \in 0 .. left /\ left \in Nat
      /\ op.data.nbytes = 0 <=> dir = "none"
  BY OpFacts DEF TInv, OpShape, Looping
<1>2. Return(-1) => /\ pc' = "idle" /\ outcome' = "failed"
                    /\ UNCHANGED << col, left >>
  BY <1>1 DEF Return, Ends
<1>3. dir # "none" => op.data.nbytes > 0 /\ ~ (op.data.nbytes > left)
  BY <1>1
<1>4. Return(0) /\ dir = "none" => /\ pc' = "idle" /\ outcome' = "done"
                                    /\ UNCHANGED << col, left >>
  BY DEF Return, Ends
<1>5. ASSUME Return(0), dir # "none"
      PROVE  pc' = "part" /\ col' = col + op.data.nbytes /\ outcome' = outcome
  <2> DEFINE n == op.data.nbytes
  <2>1. ~ (n <= 0 \/ n > left)
    BY <1>1, <1>3, <1>5
  <2> QED
    BY <1>5, <2>1 DEF Return
<1> QED
  BY <1>2, <1>4, <1>5

LEMMA SerOpAck == ASSUME HInv, TInv, SerInv, OpAck PROVE SerInv'
<1>1. /\ UNCHANGED << drv, step, op, dir, page, buf, dev, loaded, refused >>
      /\ drv = "serprog" /\ pc = "ack" /\ pc \in InOp
  BY DEF OpAck, call, far, InOp, TInv, OwnStates, SerPcs
<1>2. SUFFICES ASSUME glitch = "none", glitch' = "none"
               PROVE  SerAt' /\ SerEnded'
  <2>1. [Next]_vars
    BY DEF Next, Program, SerProgram
  <2> QED
    BY <1>1, <2>1, Remembered DEF SerInv
<1>3. SerAt /\ SerEnded
  BY <1>1, <1>2 DEF SerInv
<1>4. PICK ok \in BOOLEAN :
         /\ CheckAck(ok)
         /\ CASE ~ ok -> Return(-1)
              [] ok /\ op.dir = "in" /\ op.data.nbytes > 0 ->
                   pc' = "data" /\ UNCHANGED loop
              [] OTHER -> Return(0)
  BY DEF OpAck
<1>5. /\ up # << >> /\ down' = down /\ up' = SubSeq(up, 1 + 1, Len(up))
      /\ Head(up).t = "ack" => ok
      /\ Head(up).t = "nak" => ~ ok
  BY <1>1, <1>2, <1>4, SerClean DEF Taken
<1>6. Answered /\ step = 0
  BY <1>1, <1>3, <1>5 DEF SerAt, UpTo
<1>7. op.dir = dir /\ op.data.nbytes \in Nat /\ dir \in Dirs
      /\ (op.data.nbytes = 0 <=> dir = "none") /\ col \in Nat
  BY <1>1, OpFacts DEF TInv, Looping, OpShape
<1>8. down' = << >> /\ dev' = Idle
  BY <1>1, <1>5, <1>6 DEF Answered, Idle, Dev
<1>9. Bare("ack").t = "ack" /\ Bare("nak").t = "nak" /\ Bare("ack") \in Back
  BY DEF Bare, Back
<1>10. CASE up = << Bare("nak") >> /\ refused
  <2>1. Head(up).t = "nak" /\ up' = << >>
    BY <1>5, <1>9, <1>10, OneTaken
  <2>2. Return(-1)
    BY <1>4, <1>5, <2>1
  <2>3. pc' = "idle" /\ outcome' = "failed"
    BY <1>1, <2>2, Returns
  <2> QED
    BY <1>1, <1>8, <1>10, <2>1, <2>3 DEF SerAt, SerEnded, Settled
<1>11. CASE /\ up = Acked(BytesIn(0))
            /\ SoFar(IF dir = "out" THEN col + op.data.nbytes ELSE col)
  <2>1. BytesIn(0) \in Seq(Back)
    <3>1. col + op.data.nbytes <= Bytes /\ RdLen(op) \in Nat
      BY <1>1, <1>7, OpFacts DEF RdLen
    <3> DEFINE f == [ k \in 1 .. RdLen(op) - 0 |-> Byte(<< page, col + 0 + k - 1 >>) ]
    <3>2. ASSUME NEW k \in 1 .. RdLen(op) - 0
          PROVE  Byte(<< page, col + 0 + k - 1 >>) \in Back
      <4>1. col + 0 + k - 1 \in Columns
        BY <1>7, <3>1, Sizes DEF RdLen, Columns
      <4>2. << page, col + 0 + k - 1 >> \in Value
        BY <4>1 DEF TInv, Looping, Value
      <4> QED
        BY <4>2 DEF Byte, Back
    <3>3. f \in [ 1 .. RdLen(op) - 0 -> Back ] /\ RdLen(op) - 0 \in Nat
      BY <3>1, <3>2
    <3> HIDE DEF f
    <3>4. f \in Seq(Back)
      BY <3>3, FcnIsSeq
    <3> QED
      BY <3>4 DEF f, BytesIn
  <2> DEFINE rest == BytesIn(0)
  <2> HIDE DEF rest
  <2>2. Head(up) = Bare("ack") /\ up' = rest
    <3>1. up = << Bare("ack") >> \o rest /\ rest \in Seq(Back)
      BY <1>11, <2>1 DEF Acked, rest
    <3>2. LET u == << Bare("ack") >> \o rest
          IN  Head(u) = Bare("ack") /\ SubSeq(u, 2, Len(u)) = rest
      BY <1>9, <3>1, FirstTaken
    <3> QED
      BY <1>5, <3>1, <3>2
  <2>3. ok
    BY <1>5, <1>9, <2>2
  <2>4. CASE dir = "in"
    <3>1. pc' = "data" /\ UNCHANGED << col, left, outcome >>
      BY <1>4, <1>7, <2>3, <2>4 DEF loop
    <3>2. BytesIn(0)' = BytesIn(0)
      BY <1>1, <3>1, OpKept
    <3>3. SoFar(col + step)' /\ SoFar(col)
      <4>1. SoFar(col)
        BY <1>11, <2>4
      <4>2. col' + step' = col
        BY <1>1, <1>6, <1>7, <3>1
      <4> QED
        BY <1>1, <4>1, <4>2 DEF SoFar
    <3>4. up' = BytesIn(step)' /\ step' < op'.data.nbytes
      BY <1>1, <1>6, <1>7, <2>2, <2>4, <3>2 DEF rest
    <3>5. SerEnded'
      BY <1>1, <1>3, <3>1 DEF SerEnded
    <3>6. SerAt'
      BY <1>1, <1>8, <2>4, <3>1, <3>3, <3>4 DEF SerAt
    <3> QED
      BY <3>5, <3>6
  <2>5. CASE dir # "in"
    <3>1. Return(0)
      BY <1>4, <1>7, <2>3, <2>5
    <3>2. rest = << >>
      BY <1>7, <2>5 DEF rest, BytesIn, RdLen
    <3>3. Settled'
      BY <1>8, <2>2, <3>2 DEF Settled
    <3>4. CASE dir = "none"
      <4>1. pc' = "idle" /\ outcome' = "done"
        BY <1>1, <3>1, <3>4, Returns
      <4> QED
        BY <1>1, <3>3, <3>4, <4>1 DEF SerAt, SerEnded
    <3>5. CASE dir # "none"
      <4>1. pc' = "part" /\ col' = col + op.data.nbytes /\ outcome' = outcome
        BY <1>1, <3>1, <3>5, Returns
      <4>2. SoFar(col)'
        BY <1>1, <1>7, <1>11, <2>5, <3>5, <4>1 DEF SoFar, Dirs
      <4>3. SerAt'
        BY <3>3, <4>1, <4>2 DEF SerAt
      <4> QED
        BY <1>1, <1>3, <4>1, <4>3 DEF SerEnded
    <3> QED
      BY <3>4, <3>5
  <2> QED
    BY <2>4, <2>5
<1> QED
  BY <1>6, <1>10, <1>11 DEF Answered
(* What is left of an answer when n of its bytes have been read. *)
LEMMA BytesRest ==
    ASSUME TInv, pc \in InOp, NEW from \in Nat, NEW n \in Nat, from + n <= RdLen(op)
    PROVE  /\ BytesIn(from) \in Seq(Back) /\ Len(BytesIn(from)) = RdLen(op) - from
           /\ \A k \in 1 .. RdLen(op) - from :
                 BytesIn(from)[k] = Byte(<< page, col + from + k - 1 >>)
           /\ SubSeq(BytesIn(from), n + 1, Len(BytesIn(from))) = BytesIn(from + n)
<1>1. /\ col \in Nat /\ RdLen(op) \in Nat /\ col + RdLen(op) <= Bytes
      /\ page \in 0 .. MaxCalls
  BY OpFacts, Sizes DEF RdLen, TInv, Looping
<1>2. ASSUME NEW i \in Nat, i <= RdLen(op)
      PROVE  /\ BytesIn(i) \in Seq(Back) /\ Len(BytesIn(i)) = RdLen(op) - i
             /\ \A k \in 1 .. RdLen(op) - i :
                   BytesIn(i)[k] = Byte(<< page, col + i + k - 1 >>)
  <2>1. ASSUME NEW k \in 1 .. RdLen(op) - i
        PROVE  Byte(<< page, col + i + k - 1 >>) \in Back
    <3>1. col + i + k - 1 \in Columns
      BY <1>1, <1>2, Sizes DEF Columns
    <3>2. << page, col + i + k - 1 >> \in Value
      BY <1>1, <3>1 DEF Value
    <3> QED
      BY <3>2 DEF Byte, Back
  <2>2. BytesIn(i) \in [ 1 .. RdLen(op) - i -> Back ] /\ RdLen(op) - i \in Nat
    BY <1>1, <1>2, <2>1 DEF BytesIn
  <2> QED
    BY <2>2, FcnIsSeq DEF BytesIn
<1> DEFINE s == BytesIn(from)
           t == BytesIn(from + n)
           r == SubSeq(s, n + 1, Len(s))
<1>3. /\ s \in Seq(Back) /\ Len(s) = RdLen(op) - from
      /\ \A k \in 1 .. RdLen(op) - from : s[k] = Byte(<< page, col + from + k - 1 >>)
  BY <1>1, <1>2
<1>4. /\ t \in Seq(Back) /\ Len(t) = RdLen(op) - (from + n)
      /\ \A k \in 1 .. RdLen(op) - (from + n) :
            t[k] = Byte(<< page, col + (from + n) + k - 1 >>)
  <2>1. from + n \in Nat
    OBVIOUS
  <2> QED
    BY <1>2, <2>1
<1>5. /\ r \in Seq(Back) /\ Len(r) = IF n < Len(s) THEN Len(s) - n ELSE 0
      /\ \A k \in 1 .. Len(s) - n : r[k] = s[n + k]
  BY <1>3, RestOf
<1> HIDE DEF s, t, r
<1>6. Len(r) = Len(t)
  BY <1>1, <1>3, <1>4, <1>5
<1>7. ASSUME NEW k \in 1 .. Len(r) PROVE r[k] = t[k]
  <2>0. Len(r) = RdLen(op) - (from + n) /\ Len(s) = RdLen(op) - from /\ k \in 1 .. Len(r)
    BY <1>3, <1>4, <1>6
  <2>1. k \in 1 .. Len(s) - n /\ n + k \in 1 .. RdLen(op) - from
        /\ k \in 1 .. RdLen(op) - (from + n)
    BY <1>1, <2>0
  <2>2. col + from + (n + k) - 1 = col + (from + n) + k - 1
    BY <1>1, <2>1
  <2> QED
    BY <1>3, <1>4, <1>5, <2>1, <2>2
<1>8. r = t
  BY <1>4, <1>5, <1>6, <1>7, SeqEqual
<1> QED
  BY <1>3, <1>8 DEF s, t, r

LEMMA SerOpRead == ASSUME HInv, TInv, SerInv, OpRead PROVE SerInv'
<1>1. /\ UNCHANGED << drv, op, dir, page, dev, loaded, refused >>
      /\ drv = "serprog" /\ pc = "data" /\ pc \in InOp
  BY DEF OpRead, call, far, InOp
<1>2. SUFFICES ASSUME glitch = "none", glitch' = "none"
               PROVE  SerAt' /\ SerEnded'
  <2>1. [Next]_vars
    BY DEF Next, Program, SerProgram
  <2> QED
    BY <1>1, <2>1, Remembered DEF SerInv
<1>3. SerAt /\ SerEnded
  BY <1>1, <1>2 DEF SerInv
<1>4. PICK n \in 1 .. op.data.nbytes - step :
         /\ n <= Len(up) /\ Received(n) /\ step' = step + n
         /\ IF step' < op.data.nbytes THEN UNCHANGED << pc, loop >> ELSE Return(0)
  BY <1>1, <1>2, SerClean DEF OpRead
<1>5. /\ down = << >> /\ dev = Idle /\ dir = "in" /\ step < op.data.nbytes
      /\ up = BytesIn(step) /\ SoFar(col + step)
  BY <1>1, <1>3 DEF SerAt
<1>6. /\ op.data.nbytes \in Nat /\ step \in Nat /\ RdLen(op) = op.data.nbytes
      /\ n \in Nat /\ step + n <= RdLen(op) /\ step <= RdLen(op) /\ col \in Nat
  BY <1>1, <1>5, OpFacts DEF RdLen, TInv, Looping
<1>7. /\ up \in Seq(Back) /\ Len(up) = RdLen(op) - step
      /\ \A k \in 1 .. RdLen(op) - step : up[k] = Byte(<< page, col + step + k - 1 >>)
      /\ SubSeq(up, n + 1, Len(up)) = BytesIn(step + n)
  BY <1>1, <1>5, <1>6, BytesRest
<1> DEFINE values == [ k \in 1 .. n |-> IF up[k].t = "byte" THEN up[k].v ELSE Stale ]
<1>8. ASSUME NEW k \in 1 .. n
      PROVE  values[k] = << page, (col + step) + k - 1 >> /\ values[k] \in Value
  <2>1. k \in 1 .. RdLen(op) - step
    BY <1>6
  <2>2. up[k] = Byte(<< page, col + step + k - 1 >>)
    BY <1>7, <2>1
  <2>3. up[k].t = "byte" /\ up[k].v = << page, col + step + k - 1 >>
    BY <2>2 DEF Byte
  <2>4. up[k] \in Back
    BY <1>7, <2>1
  <2>5. up[k].v \in Value
    BY <2>3, <2>4 DEF Back
  <2> QED
    BY <2>3, <2>5
<1>9. values \in [ 1 .. n -> Value ]
  BY <1>8
<1>10. Taken(n) /\ buf' = Filled(col + step, values)
  BY <1>4 DEF Received
<1>11. \A k \in 1 .. n : values[k] = << page, (col + step) + k - 1 >>
  BY <1>8
<1> HIDE DEF values
<1>12. values \in Seq(Value) /\ Len(values) = n
  BY <1>6, <1>9, FcnIsSeq
<1>13. \A c \in Columns : c < (col + step) + n => buf'[c] = << page, c >>
  <2> DEFINE at == col + step
  <2>1. at \in Nat
    BY <1>6
  <2>2. \A c \in Columns : c < at => buf[c] = << page, c >>
    BY <1>5 DEF SoFar
  <2>3. \A k \in 1 .. Len(values) : values[k] = << page, at + k - 1 >>
    BY <1>11, <1>12
  <2>4. buf' = Filled(at, values)
    BY <1>10
  <2> HIDE DEF at
  <2>5. \A c \in Columns : c < at + Len(values) => buf'[c] = << page, c >>
    BY <1>12, <2>1, <2>2, <2>3, <2>4, FillsUp
  <2> QED
    BY <1>12, <2>5 DEF at
<1>14. /\ down' = << >> /\ dev' = Idle /\ up' = BytesIn(step + n)
  BY <1>1, <1>5, <1>7, <1>10 DEF Taken, Idle, Dev
<1>15. CASE step' < op.data.nbytes
  <2>1. UNCHANGED << pc, col, left, outcome >>
    BY <1>4, <1>15 DEF loop
  <2>3. up' = BytesIn(step)'
    <3>1. \A i : BytesIn(i)' = BytesIn(i)
      BY <1>1, <2>1, OpKept
    <3>2. up' = BytesIn(step')
      BY <1>4, <1>14
    <3> QED
      BY <1>1, <2>1, <3>2 DEF BytesIn, RdLen
  <2>4. SoFar(col + step)'
    <3>1. col' + step' = (col + step) + n
      BY <1>4, <1>6, <2>1
    <3> QED
      BY <1>1, <1>5, <1>13, <3>1 DEF SoFar
  <2>5. SerAt'
    BY <1>1, <1>5, <1>14, <1>15, <2>1, <2>3, <2>4 DEF SerAt
  <2> QED
    BY <1>1, <1>3, <2>1, <2>5 DEF SerEnded
<1>16. CASE ~ (step' < op.data.nbytes)
  <2>1. step + n = op.data.nbytes
    BY <1>4, <1>6, <1>16
  <2>2. up' = << >>
    BY <1>6, <1>14, <2>1 DEF BytesIn
  <2>3. pc' = "part" /\ col' = col + op.data.nbytes /\ outcome' = outcome
    BY <1>1, <1>4, <1>5, <1>16, Returns
  <2>4. SoFar(col)'
    <3>1. col' = (col + step) + n
      BY <1>6, <2>1, <2>3
    <3> QED
      BY <1>1, <1>5, <1>13, <3>1 DEF SoFar
  <2>5. SerAt'
    BY <1>14, <2>2, <2>3, <2>4 DEF SerAt, Settled
  <2> QED
    BY <1>1, <1>3, <2>3, <2>5 DEF SerEnded
<1> QED
  BY <1>15, <1>16

LEMMA SerStarts == DrvsInit => SerInv
<1> SUFFICES ASSUME DrvsInit, drv = "serprog" PROVE SerInv
  BY DEF SerInv
<1>1. SerInit
  BY DEF DrvsInit
<1>2. /\ pc = "open" /\ down = << >> /\ up = << >> /\ glitch = "none" /\ outcome = "none"
  BY <1>1 DEF DrvsInit, Init, SerInit
<1>3. Fresh
  BY <1>1 DEF SerInit, Fresh
<1> QED
  BY <1>2, <1>3 DEF SerInv, SerAt, SerEnded

LEMMA SerStep == ASSUME HInv, TInv, SerInv, [Next]_vars PROVE SerInv'
<1>1. CASE drv # "serprog"
  BY <1>1, Remembered DEF SerInv
<1>2. CASE drv = "serprog" /\ Next
  <2>1. ~ ChProgram /\ ~ FxProgram /\ ~ Bridge /\ ~ Firmware
    BY <1>2, NotTheOthers
  <2>2. CASE SerProgram
    BY <2>2, SerSetup, SerSend, SerOpAck, SerOpRead DEF SerProgram
  <2> QED
    BY <1>2, <2>1, <2>2, SerCommon, SerProgrammer DEF Next, Program, Device
<1>3. CASE UNCHANGED vars
  <2>1. /\ UNCHANGED << drv, glitch, pc, step, down, up, dev, op, page, col, dir, buf >>
        /\ UNCHANGED << loaded, refused, outcome >>
    BY <1>3 DEF vars
  <2>2. /\ Chunks(op)' = Chunks(op) /\ RdLen(op)' = RdLen(op)
        /\ (\A j : Owed(j)' = Owed(j)) /\ (\A j : BytesIn(j)' = BytesIn(j))
    BY <2>1, OpKept
  <2>3. \A n : SoFar(n)' = SoFar(n)
    BY <2>1 DEF SoFar
  <2>4. (Settled => Settled') /\ (Syncing => Syncing')
    BY <2>1 DEF Settled, Syncing, Fresh
  <2>5. (Mapping => Mapping') /\ (Tuning => Tuning') /\ (Answered => Answered')
    BY <2>1, <2>2, <2>3 DEF Mapping, Tuning, Answered, Acked, MapReply, FreqReply
  <2>6. \A n : UpTo(n) => UpTo(n)'
    BY <2>1, <2>2 DEF UpTo, Told
  <2>7. Fresh => Fresh'
    BY <2>1 DEF Fresh
  <2>8. SerAt => SerAt'
    BY <2>1, <2>2, <2>3, <2>4, <2>5, <2>6, <2>7 DEF SerAt
  <2>9. SerEnded => SerEnded'
    BY <2>1, <2>3, <2>4 DEF SerEnded
  <2> QED
    BY <2>1, <2>8, <2>9 DEF SerInv
<1> QED
  BY <1>1, <1>2, <1>3
-----------------------------------------------------------------------------
(* A page of which every column has been moved is the page. *)
LEMMA AllIsWhole ==
    ASSUME NEW f \in [ Columns -> Value ],
           \A c \in Columns : c < Bytes => f[c] = << page, c >>
    PROVE  f = Whole
<1>1. \A c \in Columns : c < Bytes
  BY Sizes DEF Columns
<1> QED
  BY <1>1 DEF Whole

LEMMA SerShows ==
    ASSUME TInv, SerInv, drv = "serprog"
    PROVE  InSync /\ PageWhole /\ OnlyRefusalsFail
<1>1. /\ glitch # "now"
      /\ glitch = "none" => SerAt /\ SerEnded
  BY DEF SerInv, TInv, FarTyped
<1>2. InSync
  BY <1>1 DEF InSync, SerAt, Settled
<1>3. ASSUME outcome = "done", glitch \in {"none", "now"}
      PROVE  (dir = "in" => buf = Whole) /\ (dir = "out" => loaded = Whole)
  <2>1. buf \in [ Columns -> Value ] /\ loaded \in [ Columns -> Value ]
    BY DEF TInv, FarTyped
  <2>2. dir # "none" => SoFar(Bytes)
    BY <1>1, <1>3 DEF SerEnded
  <2> QED
    BY <2>1, <2>2, AllIsWhole DEF SoFar
<1> QED
  BY <1>1, <1>2, <1>3 DEF PageWhole, OnlyRefusalsFail, SerEnded
=============================================================================
