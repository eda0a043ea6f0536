--------------------------- MODULE UsbLine_proofs ---------------------------
(***************************************************************************)
(* The same of ch347, whose bridge answers with packets that may be split  *)
(* and is told to deselect the chip by one that nothing answers; then of   *)
(* fx2qspi, whose firmware is led through whole operations by what has     *)
(* been sent to it; and the theorems for the three.                        *)
(***************************************************************************)
EXTENDS SpiMemLine_proofs

(* The chip select of the operation before may still be on its way *)
(* when the next one is sent, and with it what that operation loads.       *)
CsHigh   == SetCs("high", FALSE)
CsLow    == SetCs("low", Small(op))
Closing  == down # << >> /\ Head(down) = CsHigh
Stray    == Selected(<< Bare("opcode of another run") >>)
Held     == IF Closing THEN ChipLoads(dev.seen, 1) ELSE loaded
ChSoFar(n) == \A c \in Columns : c < n =>
                 /\ dir = "in"  => buf[c] = << page, c >>
                 /\ dir = "out" => Held[c] = << page, c >>

Ours   == Reply(CmdOf[pc], 1, << Stale >>)
Clean  == dev \in {Idle, Stray}
Asked  == \/ down = << Packet(CmdOf[pc], << >>, 0) >> /\ up = << >>
          \/ down = << >> /\ up = << Ours >>
Old    == { Reply(cmd, 1, << Stale >>) : cmd \in SetCmds \cup {"trx", "write", "read"} }

(* An answer nobody took is the first that the settings get, and the run   *)
(* does not come past the second.                                          *)
Behind ==
    LET info == Packet("info", << >>, 0)   last == Reply("info", 1, << Stale >>)
    IN  /\ pc = "setup" /\ dev = Idle
        /\ step = 1 => \/ down = << info >> /\ up = << >>
                       \/ down = << >> /\ up = << last >>
        /\ step = 2 => \/ down = << info, Packet("init", << >>, 0) >> /\ up = << >>
                       \/ down = << Packet("init", << >>, 0) >> /\ up = << last >>
                       \/ down = << >> /\ up = << last, Reply("init", 1, << Stale >>) >>

Waiting == \/ down = << >> /\ up = << >> /\ (Clean \/ dev = Lost)
           \/ down = << >> /\ dev = Idle /\ \E r \in Old : up = << r >>

Informing ==
    /\ step \in 1 .. 2
    /\ step = 1 => Waiting
    /\ step = 2 => \/ Clean /\ Asked
                   \/ dev = Lost /\ up = << >>
                   \/ /\ dev = Idle
                      /\ \E r \in Old :
                           \/ down = << Packet("info", << >>, 0) >> /\ up = << r >>
                           \/ down = << >> /\ up = << r, Reply("info", 1, << Stale >>) >>

Configuring ==
    /\ step \in 1 .. 2
    /\ \/ Clean /\ (step = 1 => down = << >> /\ up = << >>) /\ (step = 2 => Asked)
       \/ Behind

(* The first operation, a reset, takes the chip select that a run that was *)
(* killed has left.                                                        *)
First == page = 1 /\ dir = "none"
Quiet == /\ up = << >>
         /\ \/ down = << >> /\ dev = Idle
            \/ down = << CsHigh >> /\ dev = Selected(dev.seen)

(* What was sent of an operation, of which the bridge has taken nothing or *)
(* the chip select; before it the end of the operation before.             *)
Sending(packets) ==
    /\ up = << >>
    /\ \/ /\ down = << CsHigh >> \o (<< CsLow >> \o packets)
          /\ dev = Selected(dev.seen)
       \/ /\ down = << CsLow >> \o packets
          /\ dev = Idle \/ (First /\ dev = Stray)
       \/ /\ down = packets
          /\ \/ dev = Dev(IF Small(op) THEN "auto" ELSE "selected", 0, 0, << >>)
             \/ /\ First
                /\ dev = Dev("auto", 0, 0, << Bare("opcode of another run") >>)

Exchanging ==
    /\ Small(op) /\ step \in 1 .. 2
    /\ step = 1 => Sending(<< >>) /\ ChSoFar(col)
    /\ step = 2 => \/ Sending(<< Whole1(op) >>) /\ ChSoFar(col)
                   \/ /\ down = << >> /\ dev = Idle
                      /\ up = << Reply("trx", TrxLen(op), DataIn(0)) >>
                      /\ ChSoFar(IF dir = "out" THEN col + op.data.nbytes ELSE col)

Heading ==
    /\ ~ Small(op) /\ step \in 1 .. 2 /\ ChSoFar(col)
    /\ step = 1 => Sending(<< >>)
    /\ step = 2 => \/ Sending(<< Packet("write", HeadItems(op), 0) >>)
                   \/ /\ down = << >> /\ dev = Selected(HeadItems(op))
                      /\ up = << Reply("write", 1, << Stale >>) >>

Putting ==
    /\ step \in 0 .. 1 /\ ChSoFar(col)
    /\ step = 0 => down = << >> /\ up = << >> /\ dev = Selected(HeadItems(op))
    /\ step = 1 => \/ /\ down = << Packet("write", DataOut(op), 0) >> /\ up = << >>
                      /\ dev = Selected(HeadItems(op))
                   \/ /\ down = << >> /\ up = << Reply("write", 1, << Stale >>) >>
                      /\ dev = Selected(Sent(op))

(* The answers to a read still to come when n bytes have been taken.       *)
Coming(n) ==
    LET v == DataIn(n)
    IN  \/ up = << Reply("read", Len(v), v) >>
        \/ \E k \in 1 .. Len(v) - 1 :
              up = << Reply("read", k, SubSeq(v, 1, k)),
                      Reply("read", Len(v) - k, SubSeq(v, k + 1, Len(v))) >>
Getting ==
    /\ dev = Selected(Sent(op))
    /\ step = 0 => down = << >> /\ up = << >> /\ ChSoFar(col)
    /\ step > 0 => /\ step - 1 < op.data.nbytes /\ ChSoFar(col + (step - 1))
                   /\ \/ /\ down = << Packet("read", << >>, op.data.nbytes) >>
                         /\ up = << >> /\ step = 1
                      \/ down = << >> /\ Coming(step - 1)

ChAt ==
    /\ pc = "open" => Waiting
    /\ pc = "info" => Informing
    /\ pc \in {"setup", "rate"} => Configuring
    /\ pc = "idle" => Quiet \/ (page = 0 /\ down = << >> /\ up = << >> /\ dev = Stray)
    /\ pc \in {"part", "send"} =>
         /\ Quiet \/ (First /\ down = << >> /\ up = << >> /\ dev = Stray)
         /\ ChSoFar(col)
    /\ pc = "exchange" => Exchanging
    /\ pc = "head" => Heading
    /\ pc = "out"  => Putting
    /\ pc = "in"   => Getting
    /\ pc = "sent" => /\ down = << >> /\ up = << >> /\ dev = Selected(Sent(op))
                      /\ ChSoFar(IF dir = "in" THEN col + op.data.nbytes ELSE col)
    /\ pc # "broken"

ChEnded ==
    /\ outcome # "failed"
    /\ outcome = "done" => /\ pc \in {"idle", "closed"} /\ Quiet
                           /\ dir # "none" => ChSoFar(Bytes)

ChInv == drv = "ch347" /\ glitch = "none" => ChAt /\ ChEnded

(* A call ends where it is done, and a transfer that failed and was seen   *)
(* to ends the call.                                                       *)
Noted ==
    /\ outcome = "done" => pc \in {"idle", "closed"}
    /\ drv # "serprog" /\ glitch = "now" =>
          pc \in {"idle", "closed", "unwind", "broken"} /\ outcome # "done"
-----------------------------------------------------------------------------
LEMMA ReturnNotes ==
    ASSUME NEW r, Return(r)
    PROVE  pc' = "idle" \/ (pc' = "part" /\ outcome' = outcome)
BY DEF Return, Ends

LEMMA FailureReturns == Return(-1) => pc' = "idle" /\ outcome' = "failed"
BY DEF Return, Ends

LEMMA NotedStep == ASSUME HInv, TInv, Noted, [Next]_vars PROVE Noted'
<1>1. drv' = drv
  BY Remembered
<1> DEFINE Ended == outcome' = "done" => pc' \in {"idle", "closed"}
           Now   == drv # "serprog" /\ glitch' = "now" =>
                       pc' \in {"idle", "closed", "unwind", "broken"} /\ outcome' # "done"
<1>2. SUFFICES Ended /\ Now
  BY <1>1 DEF Noted
<1>3. CASE Common
  <2>1. CASE Open \/ OpenFails \/ Unwind \/ RemoveAdapter
    <3>1. outcome' = outcome /\ glitch' = glitch
      BY <2>1 DEF Open, OpenFails, Unwind, RemoveAdapter, loop, line
    <3>2. \/ pc = "open"
          \/ pc = "unwind" /\ pc' \in {"unwind", "closed"}
          \/ pc = "idle" /\ pc' = "closed"
      BY <2>1 DEF Open, OpenFails, Unwind, RemoveAdapter, Unwinds
    <3> QED
      BY <1>1, <3>1, <3>2 DEF Noted
  <2>2. CASE Call
    BY <2>2 DEF Call
  <2>3. CASE Part
    <3>1. pc = "part" /\ glitch' = glitch /\ (UNCHANGED outcome \/ Return(-1))
      BY <2>3 DEF Part, loop, line
    <3> QED
      BY <3>1, ReturnNotes DEF Noted
  <2>4. CASE PartsEnd
    <3>1. pc = "part" /\ glitch' = glitch /\ pc' = "idle"
      BY <2>4 DEF PartsEnd, line, Ends
    <3> QED
      BY <3>1 DEF Noted
  <2> QED
    BY <1>3, <2>1, <2>2, <2>3, <2>4 DEF Common
<1>4. CASE SerProgram
  <2>1. drv = "serprog"
    BY <1>4, NotTheOthers
  <2>2. pc \notin {"idle", "closed"} /\ (UNCHANGED loop \/ \E r : Return(r))
    BY <1>4 DEF SerProgram, SyncWrite, SyncRead, ExecWrite, ExecAck, ExecReply, Send, OpAck,
                OpRead
  <2> QED
    BY <2>1, <2>2, ReturnNotes DEF Noted, loop
<1>5. /\ \A items : Written(items) => glitch' = glitch
      /\ \A n : Taken(n) => glitch' = glitch
      /\ \A cs : ChipSelect(cs) => glitch' \in {glitch, "past"}
  BY DEF Written, Taken, ChipSelect, Unseen
<1>6. CASE ChProgram
  <2>1. CASE Setting
    <3>1. pc \in Settings /\ outcome' = outcome /\ (glitch' = glitch \/ GivesUp)
      BY <1>5, <2>1 DEF Setting, Receives, loop
    <3>2. GivesUp => pc' \in {"unwind", "closed"}
      BY DEF GivesUp, Unwinds
    <3> QED
      BY <3>1, <3>2 DEF Noted, Settings
  <2>2. CASE Select
    <3>1. pc = "send" /\ outcome' = outcome /\ glitch' \in {glitch, "past"}
      BY <1>5, <2>2 DEF Select, loop
    <3> QED
      BY <3>1 DEF Noted
  <2>3. CASE ExchangeOut \/ ExchangeIn
    <3>1. pc = "exchange" /\ (UNCHANGED loop \/ Return(0) \/ Return(-1))
          /\ (glitch' = glitch \/ Return(-1))
      BY <1>5, <2>3 DEF ExchangeOut, ExchangeIn, Receives
    <3> QED
      BY <3>1, ReturnNotes, FailureReturns DEF Noted, loop
  <2>4. CASE HeadOut
    <3>1. pc = "head" /\ (UNCHANGED loop \/ Return(-1)) /\ (glitch' = glitch \/ Return(-1))
      BY <1>5, <2>4 DEF HeadOut, Receives
    <3> QED
      BY <3>1, ReturnNotes, FailureReturns DEF Noted, loop
  <2>5. CASE BodyOut \/ BodyIn
    <3>1. pc \in {"in", "out"} /\ UNCHANGED loop /\ (glitch' = glitch \/ pc' = "broken")
      BY <1>5, <2>5 DEF BodyOut, BodyIn, Receives, Deselecting
    <3> QED
      BY <3>1 DEF Noted, loop
  <2>6. CASE Deselect
    <3>1. glitch' \in {glitch, "past"}
      BY <1>5, <2>6 DEF Deselect
    <3>2. \/ pc = "sent" /\ Return(0)
          \/ pc = "broken" /\ Return(-1)
      BY <2>6 DEF Deselect
    <3> QED
      BY <3>1, <3>2, ReturnNotes, FailureReturns DEF Noted
  <2> QED
    BY <1>6, <2>1, <2>2, <2>3, <2>4, <2>5, <2>6 DEF ChProgram
<1>7. CASE FxProgram
  <2>1. CASE ResetOut \/ ResetIn
    <3>1. pc = "reset" /\ outcome' = outcome /\ (glitch' = glitch \/ pc' = "unwind")
      BY <1>5, <2>1 DEF ResetOut, ResetIn, Unwinds, loop
    <3> QED
      BY <3>1 DEF Noted
  <2>2. CASE Phases \/ PacketsOut \/ PacketsIn \/ End
    <3>1. pc \in {"send", "out", "in", "end"} /\ (UNCHANGED loop \/ Return(0) \/ Return(-1))
          /\ (glitch' = glitch \/ Return(-1))
      BY <1>5, <2>2 DEF Phases, PacketsOut, PacketsIn, End
    <3> QED
      BY <3>1, ReturnNotes, FailureReturns DEF Noted, loop
  <2> QED
    BY <1>7, <2>1, <2>2 DEF FxProgram
<1>8. CASE Device \/ UNCHANGED vars
  <2>1. UNCHANGED << pc, outcome, glitch >>
    BY <1>8 DEF Device, Programmer, Bridge, Firmware, vars, loop
  <2> QED
    BY <2>1 DEF Noted
<1> QED
  BY <1>3, <1>4, <1>6, <1>7, <1>8 DEF Next, Program
-----------------------------------------------------------------------------
LEMMA TwoTaken ==
    ASSUME NEW a, NEW b
    PROVE  << a, b >> # << >> /\ Head(<< a, b >>) = a /\ Tail(<< a, b >>) = << b >>
           /\ Len(<< a, b >>) = 2
OBVIOUS

(* What the bridge does with a chip select, and with a packet. *)
LEMMA TakesSelect ==
    ASSUME Bridge, dev.mode # "lost"
    PROVE  /\ Head(down) = CsHigh => /\ dev' = Idle /\ loaded' = ChipLoads(dev.seen, 1)
                                     /\ up' = up
           /\ Head(down) = CsLow =>
                 /\ dev' = Dev(IF Small(op) THEN "auto" ELSE "selected",
                               dev.need, dev.rd, dev.seen)
                 /\ UNCHANGED << loaded, up >>
<1>1. BridgeTakes(Head(down))
  BY DEF Bridge
<1>2. /\ CsHigh.t = "cs" /\ CsHigh.val = "high"
      /\ CsLow.t = "cs" /\ CsLow.val = "low" /\ CsLow.auto = Small(op)
  BY DEF CsHigh, CsLow, SetCs
<1> QED
  BY <1>1, <1>2 DEF BridgeTakes, Deselects

LEMMA TakesPacket ==
    ASSUME Bridge, dev.mode # "lost", NEW cmd, NEW items, NEW rd,
           Head(down) = Packet(cmd, items, rd)
    PROVE  /\ IF cmd \in SetCmds THEN UNCHANGED << dev, loaded >>
              ELSE IF dev.mode = "auto" THEN Deselects(Clocked(items))
              ELSE dev' = Dev(dev.mode, dev.need, dev.rd, Clocked(items)) /\ UNCHANGED loaded
           /\ cmd = "read" => \E k \in 1 .. rd :
                 LET data == ChipData(Clocked(items), rd, 1)
                 IN  Answer(<< Reply("read", k, SubSeq(data, 1, k)) >> \o
                            (IF k = rd THEN << >>
                             ELSE << Reply("read", rd - k, SubSeq(data, k + 1, rd)) >>))
           /\ cmd = "trx" => Answer(<< Reply("trx", LengthOf(items) + rd,
                                              ChipData(Clocked(items), rd, 1)) >>)
           /\ cmd \notin {"read", "trx"} => Answer(<< Reply(cmd, 1, << Stale >>) >>)
<1> DEFINE p == Packet(cmd, items, rd)
<1>1. BridgeTakes(p)
  BY DEF Bridge
<1>2. p.t = "packet" /\ p.cmd = cmd /\ p.items = items /\ p.rd = rd
  BY DEF Packet
<1> HIDE DEF p
<1>3. Replies(p) /\ IF cmd \in SetCmds THEN UNCHANGED << dev, loaded >> ELSE Exchange(p)
  BY <1>1, <1>2 DEF BridgeTakes
<1>4. Exchange(p) => IF dev.mode = "auto" THEN Deselects(Clocked(items))
                     ELSE dev' = Dev(dev.mode, dev.need, dev.rd, Clocked(items))
                          /\ UNCHANGED loaded
  BY <1>2 DEF Exchange
<1> QED
  BY <1>2, <1>3, <1>4 DEF Replies

(* A packet that is answered with one reply, when nothing else is to be    *)
(* answered.                                                               *)
LEMMA OneAnswer ==
    ASSUME up = << >>, NEW r, Answer(<< r >>)
    PROVE  up' = << r >>
BY NothingAdded DEF Answer
-----------------------------------------------------------------------------
(* A step without a failure behind it or in it. *)
LEMMA ChClean ==
    ASSUME drv = "ch347", glitch' = "none"
    PROVE  /\ \A p : ~ SendFails(p)
           /\ \A cs : ChipSelect(cs) => Written(<< cs >>)
           /\ \A cmd, max : ReceiveFails(cmd, max) =>
                 \/ up = << >> /\ down = << >>
                 \/ up # << >> /\ ~ Fit(cmd, max)
<1>1. \A fault : ~ Fails(fault)
  BY DEF Fails
<1>2. /\ \A items : ~ WriteFails(items)
      /\ \A fault, n : ~ ReadFails(fault, n)
  BY <1>1 DEF WriteFails, ReadFails
<1>3. ~ Unseen
  BY DEF Unseen
<1>4. \A p : ~ SendFails(p)
  BY <1>2 DEF SendFails
<1>5. \A cs : ChipSelect(cs) => Written(<< cs >>)
  BY <1>3 DEF ChipSelect
<1>6. ASSUME NEW cmd, NEW max, ReceiveFails(cmd, max)
      PROVE  (up = << >> /\ down = << >>) \/ (up # << >> /\ ~ Fit(cmd, max))
  BY <1>1, <1>2, <1>6 DEF ReceiveFails, TimesOut
<1> QED
  BY <1>4, <1>5, <1>6

(* What crosses the line of the bridge. *)
LEMMA ToBridgeIs ==
    /\ CsHigh \in ToBridge /\ CsLow \in ToBridge
    /\ \A cmd \in Cmds, items \in Seq(Piece), rd \in Nat : Packet(cmd, items, rd) \in ToBridge
    /\ CsLow # CsHigh
    /\ \A cmd, items, rd : Packet(cmd, items, rd) # CsHigh
<1>1. CsHigh.val = "high" /\ CsLow.val = "low" /\ CsHigh.t = "cs"
  BY DEF CsHigh, CsLow, SetCs
<1>2. \A cmd, items, rd : Packet(cmd, items, rd).t = "packet"
  BY DEF Packet
<1>3. CsHigh \in ToBridge /\ CsLow \in ToBridge
  BY DEF CsHigh, CsLow, SetCs, Small, ToBridge
<1>4. \A cmd \in Cmds, items \in Seq(Piece), rd \in Nat : Packet(cmd, items, rd) \in ToBridge
  BY DEF Packet, ToBridge
<1> QED
  BY <1>1, <1>2, <1>3, <1>4

LEMMA HeldIs ==
    /\ down = << >> => Held = loaded
    /\ \A x : down = << x >> /\ x # CsHigh => Held = loaded
    /\ \A s \in Seq(ToBridge) : down = << CsLow >> \o s => Held = loaded
    /\ \A s \in Seq(ToBridge) : down = << CsHigh >> \o s => Held = ChipLoads(dev.seen, 1)
    /\ down = << CsHigh >> => Held = ChipLoads(dev.seen, 1)
<1>1. \A s \in Seq(ToBridge) : /\ << CsLow >> \o s # << >> /\ Head(<< CsLow >> \o s) = CsLow
                               /\ << CsHigh >> \o s # << >> /\ Head(<< CsHigh >> \o s) = CsHigh
  BY ToBridgeIs, FirstTaken
<1> QED
  BY <1>1, ToBridgeIs, OneTaken DEF Held, Closing

(* The operation stays what it is while it is being sent. *)
LEMMA OpSame ==
    ASSUME UNCHANGED << drv, op, page, col >>
    PROVE  /\ HeadItems(op)' = HeadItems(op) /\ DataOut(op)' = DataOut(op)
           /\ Sent(op)' = Sent(op) /\ RdLen(op)' = RdLen(op)
           /\ Whole1(op)' = Whole1(op) /\ TrxLen(op)' = TrxLen(op)
           /\ (Small(op) <=> Small(op)') /\ CsLow' = CsLow
           /\ \A i : DataIn(i)' = DataIn(i)
<1>1. HeadItems(op)' = HeadItems(op) /\ DataOut(op)' = DataOut(op) /\ RdLen(op)' = RdLen(op)
  BY DEF HeadItems, DataOut, Opcode, Address, RdLen, Head1
<1> QED
  BY <1>1 DEF Sent, Whole1, TrxLen, Small, CsLow, DataIn, Head1, Packet, SetCs

(* The end of an operation reaches the bridge. *)
LEMMA QuietTaken ==
    ASSUME Bridge, Quiet
    PROVE  down' = << >> /\ up' = << >> /\ dev' = Idle /\ loaded' = Held /\ Held' = Held
<1>1. down # << >> /\ down' = Tail(down)
  BY DEF Bridge
<1>2. down = << CsHigh >> /\ dev = Selected(dev.seen) /\ up = << >>
  BY <1>1 DEF Quiet
<1>3. dev.mode # "lost"
  BY <1>2 DEF Selected, Dev
<1>4. dev' = Idle /\ loaded' = ChipLoads(dev.seen, 1) /\ up' = up /\ down' = << >>
  BY <1>1, <1>2, <1>3, TakesSelect, OneTaken
<1>5. Held = ChipLoads(dev.seen, 1)
  BY <1>2, HeldIs
<1>6. Held' = loaded'
  BY <1>4 DEF Held, Closing
<1> QED
  BY <1>2, <1>4, <1>5, <1>6
-----------------------------------------------------------------------------
(* A small reset can be the first operation. *)
LEMMA FirstIsSmall ==
    ASSUME TInv, pc \in InOp, First
    PROVE  Small(op) /\ RdLen(op) = 0
<1>1. dir = "none" /\ op.dir = dir /\ op.data.nbytes = 0
  BY OpFacts DEF First, TInv, Looping
<1>2. op.addr.nbytes = 0 /\ op.dummy.nbytes = 0
  BY <1>1, OpFacts, TemplateIs DEF TInv, Looping, PhaseOf
<1> QED
  BY <1>1, <1>2, OpFacts, Sizes DEF Small, Head1, RdLen

LEMMA SendingTaken ==
    ASSUME TInv, drv = "ch347", pc \in InOp, Bridge,
           NEW P \in Seq(ToBridge), P = << >> \/ \E p : P = << p >> /\ p # CsHigh, Sending(P)
    PROVE  \/ /\ down' = << CsLow >> \o P /\ dev' = Idle /\ up' = << >> /\ Held' = Held
           \/ /\ down' = P /\ up' = << >> /\ Held' = Held
              /\ \/ dev' = Dev(IF Small(op) THEN "auto" ELSE "selected", 0, 0, << >>)
                 \/ First /\ dev' = Dev("auto", 0, 0, << Bare("opcode of another run") >>)
           \/ /\ down = P /\ P # << >> /\ Held = loaded
              /\ \/ dev = Dev(IF Small(op) THEN "auto" ELSE "selected", 0, 0, << >>)
                 \/ First /\ dev = Dev("auto", 0, 0, << Bare("opcode of another run") >>)
<1>1. down # << >> /\ down' = Tail(down) /\ up = << >> /\ UNCHANGED << drv, op >>
  BY DEF Bridge, Sending, call
<1>2. CsLow' = CsLow /\ CsHigh' = CsHigh
  BY <1>1 DEF CsLow, CsHigh, Small, Head1, SetCs
<1>3. /\ CsHigh \in ToBridge /\ CsLow \in ToBridge /\ CsLow # CsHigh
      /\ << CsLow >> \o P \in Seq(ToBridge)
  BY ToBridgeIs, FirstTaken
<1>4. CASE down = << CsHigh >> \o (<< CsLow >> \o P) /\ dev = Selected(dev.seen)
  <2>1. Head(down) = CsHigh /\ down' = << CsLow >> \o P
    BY <1>1, <1>3, <1>4, FirstTaken
  <2>2. dev.mode # "lost"
    BY <1>4 DEF Selected, Dev
  <2>3. dev' = Idle /\ loaded' = ChipLoads(dev.seen, 1) /\ up' = up
    BY <2>1, <2>2, TakesSelect
  <2>4. Held = ChipLoads(dev.seen, 1)
    BY <1>3, <1>4, HeldIs
  <2>5. down' # << >> /\ Head(down') = CsLow
    BY <1>3, <2>1, FirstTaken
  <2>6. Held' = loaded'
    BY <1>2, <1>3, <2>5 DEF Held, Closing
  <2> QED
    BY <1>1, <2>1, <2>3, <2>4, <2>6
<1>5. CASE down = << CsLow >> \o P /\ (dev = Idle \/ (First /\ dev = Stray))
  <2>1. Head(down) = CsLow /\ down' = P
    BY <1>1, <1>3, <1>5, FirstTaken
  <2>2. dev.mode # "lost"
    <3>1. Idle.mode = "idle" /\ Stray.mode = "selected"
      BY DEF Stray, Idle, Selected, Dev
    <3> QED
      BY <1>5, <3>1
  <2>3. /\ dev' = Dev(IF Small(op) THEN "auto" ELSE "selected", dev.need, dev.rd, dev.seen)
        /\ loaded' = loaded /\ up' = up
    BY <2>1, <2>2, TakesSelect
  <2>4. Held = loaded
    BY <1>3, <1>5, HeldIs
  <2>5. down' = << >> \/ Head(down') # CsHigh
    BY <2>1, OneTaken
  <2>6. Held' = loaded'
    BY <1>2, <2>5 DEF Held, Closing
  <2>7. \/ dev' = Dev(IF Small(op) THEN "auto" ELSE "selected", 0, 0, << >>)
        \/ First /\ dev' = Dev("auto", 0, 0, << Bare("opcode of another run") >>)
    <3>1. CASE dev = Idle
      <4>1. dev.need = 0 /\ dev.rd = 0 /\ dev.seen = << >>
        BY <3>1 DEF Idle, Dev
      <4> QED
        BY <2>3, <4>1
    <3>2. CASE First /\ dev = Stray
      <4>1. /\ dev.need = 0 /\ dev.rd = 0
            /\ dev.seen = << Bare("opcode of another run") >>
        BY <3>2 DEF Stray, Selected, Dev
      <4> QED
        BY <2>3, <3>2, <4>1, FirstIsSmall
    <3> QED
      BY <1>5, <3>1, <3>2
  <2> QED
    BY <1>1, <2>1, <2>3, <2>4, <2>6, <2>7
<1>6. CASE /\ down = P
           /\ \/ dev = Dev(IF Small(op) THEN "auto" ELSE "selected", 0, 0, << >>)
              \/ First /\ dev = Dev("auto", 0, 0, << Bare("opcode of another run") >>)
  <2>1. Held = loaded
    BY <1>1, <1>6, OneTaken DEF Held, Closing
  <2> QED
    BY <1>1, <1>6, <2>1
<1>7. \/ down = << CsHigh >> \o (<< CsLow >> \o P) /\ dev = Selected(dev.seen)
      \/ down = << CsLow >> \o P /\ (dev = Idle \/ (First /\ dev = Stray))
      \/ /\ down = P
         /\ \/ dev = Dev(IF Small(op) THEN "auto" ELSE "selected", 0, 0, << >>)
            \/ First /\ dev = Dev("auto", 0, 0, << Bare("opcode of another run") >>)
  BY DEF Sending
<1> QED
  BY <1>4, <1>5, <1>6, <1>7

(* The length of an exchange is that of its bytes. *)
LEMMA SentLength ==
    ASSUME TInv, pc \in InOp
    PROVE  LengthOf(Sent(op)) + RdLen(op) = TrxLen(op)
<1>1. /\ dir = "none" => op.addr.nbytes = 0 /\ op.dummy.nbytes = 0
      /\ dir = "in"   => op.addr.nbytes = 2 /\ op.dummy.nbytes = 1
      /\ dir = "out"  => op.addr.nbytes = 2 /\ op.dummy.nbytes = 0
      /\ op.dir = dir /\ op.data.nbytes \in Nat /\ dir \in Dirs
      /\ dir = "none" => op.data.nbytes = 0
  BY OpFacts, TemplateIs DEF PhaseOf, TInv, Looping
<1> DEFINE s == Sent(op)
           wide == { k \in DOMAIN s : s[k].t \in {"addr", "garbage"} }
<1>2. LengthOf(s) = Len(s) + Cardinality(wide)
  BY DEF LengthOf, Quantify
<1>3. Opcode(op).t = "opcode" /\ Address.t = "addr" /\ Bare("dummy").t = "dummy"
      /\ \A v : Byte(v).t = "byte"
  BY DEF Opcode, Address, Bare, Byte
<1>4. Cardinality({2}) = 1 /\ Cardinality({}) = 0
  BY FS_Singleton, FS_EmptySet
<1>5. CASE dir = "none"
  <2>1. s = << Opcode(op) >>
    BY <1>5, SentIs
  <2>2. Len(s) = 1 /\ DOMAIN s = {1} /\ s[1] = Opcode(op)
    BY <2>1
  <2>3. wide = {}
    BY <1>3, <2>2
  <2> HIDE DEF s, wide
  <2>4. LengthOf(s) = 1
    BY <1>2, <1>4, <2>2, <2>3
  <2> QED
    BY <1>1, <1>5, <2>4 DEF s, RdLen, TrxLen, Head1
<1>6. CASE dir = "in"
  <2>1. s = << Opcode(op), Address, Bare("dummy") >>
    BY <1>6, SentIs
  <2>2. Len(s) = 3 /\ DOMAIN s = 1 .. 3
        /\ s[1] = Opcode(op) /\ s[2] = Address /\ s[3] = Bare("dummy")
    BY <2>1
  <2>3. wide = {2}
    BY <1>3, <2>2
  <2> HIDE DEF s, wide
  <2>4. LengthOf(s) = 4
    BY <1>2, <1>4, <2>2, <2>3
  <2> QED
    BY <1>1, <1>6, <2>4 DEF s, RdLen, TrxLen, Head1
<1>7. CASE dir = "out"
  <2>1. /\ s \in Seq(Piece) /\ Len(s) = 2 + op.data.nbytes
        /\ s[1] = Opcode(op) /\ s[2] = Address
        /\ \A k \in 1 .. op.data.nbytes : s[2 + k] = Byte(<< page, col + k - 1 >>)
    BY <1>7, SentIs
  <2> HIDE DEF s
  <2>2. DOMAIN s = 1 .. 2 + op.data.nbytes
    BY <2>1
  <2>3. ASSUME NEW k \in DOMAIN s PROVE s[k].t \in {"addr", "garbage"} <=> k = 2
    <3>1. CASE k \in {1, 2}
      BY <1>3, <2>1, <3>1
    <3>2. CASE k \notin {1, 2}
      <4>1. k - 2 \in 1 .. op.data.nbytes /\ 2 + (k - 2) = k
        BY <1>1, <2>2, <3>2
      <4>2. s[k] = Byte(<< page, col + (k - 2) - 1 >>)
        BY <2>1, <4>1
      <4> QED
        BY <1>3, <3>2, <4>2
    <3> QED
      BY <3>1, <3>2
  <2>4. wide = {2}
    BY <1>1, <2>2, <2>3
  <2> HIDE DEF wide
  <2>5. LengthOf(s) = 3 + op.data.nbytes
    BY <1>1, <1>2, <1>4, <2>1, <2>4
  <2> QED
    BY <1>1, <1>7, <2>5 DEF s, RdLen, TrxLen, Head1
<1> QED
  BY <1>1, <1>5, <1>6, <1>7 DEF Dirs
-----------------------------------------------------------------------------
(* What the bridge does with each packet of an operation. *)
LEMMA TakesAlone ==
    ASSUME Bridge, NEW p, down = << p >>
    PROVE  Head(down) = p /\ down' = << >>
BY OneTaken DEF Bridge

LEMMA NothingRead ==
    ASSUME RdLen(op) = 0, NEW seen
    PROVE  ChipData(seen, RdLen(op), 1) = DataIn(0)
BY DEF ChipData, DataIn

LEMMA TakesWhole ==
    ASSUME TInv, drv = "ch347", pc \in InOp, Small(op), Bridge, up = << >>, SoFar(col),
           down = << Whole1(op) >>,
           \/ dev = Dev("auto", 0, 0, << >>)
           \/ First /\ dev = Dev("auto", 0, 0, << Bare("opcode of another run") >>)
    PROVE  /\ down' = << >> /\ dev' = Idle
           /\ up' = << Reply("trx", TrxLen(op), DataIn(0)) >>
           /\ dir # "out" => loaded' = loaded
           /\ dir = "out" => \A c \in Columns :
                 c < col + op.data.nbytes => loaded'[c] = << page, c >>
<1> DEFINE stray == Bare("opcode of another run")
           all == Clocked(Sent(op))
<1>1. Head(down) = Packet("trx", Sent(op), RdLen(op)) /\ down' = << >>
  BY TakesAlone DEF Whole1, Sent
<1>2. dev.mode = "auto" /\ (dev.seen = << >> \/ (First /\ dev.seen = << stray >>))
  <2>1. CASE dev = Dev("auto", 0, 0, << >>)
    BY <2>1 DEF Dev
  <2>2. CASE First /\ dev = Dev("auto", 0, 0, << stray >>)
    BY <2>2 DEF Dev
  <2> QED
    BY <2>1, <2>2
<1>3. /\ dev' = Idle /\ loaded' = ChipLoads(all, 1)
      /\ Answer(<< Reply("trx", LengthOf(Sent(op)) + RdLen(op), ChipData(all, RdLen(op), 1)) >>)
  <2>1. dev.mode # "lost" /\ "trx" \notin SetCmds
    BY <1>2 DEF SetCmds
  <2>2. IF "trx" \in SetCmds THEN UNCHANGED << dev, loaded >>
        ELSE IF dev.mode = "auto" THEN Deselects(all)
        ELSE dev' = Dev(dev.mode, dev.need, dev.rd, all) /\ UNCHANGED loaded
    BY <1>1, <2>1, TakesPacket
  <2>3. Answer(<< Reply("trx", LengthOf(Sent(op)) + RdLen(op), ChipData(all, RdLen(op), 1)) >>)
    BY <1>1, <2>1, TakesPacket
  <2> QED
    BY <1>2, <2>1, <2>2, <2>3 DEF Deselects
<1>4. all = dev.seen \o Sent(op) /\ Wires = 1 /\ Sent(op) \in Seq(Piece)
  BY <1>2, SentIs DEF Clocked, Wires
<1> HIDE DEF all
<1>5. /\ ChipData(all, RdLen(op), 1) = DataIn(0)
      /\ dir # "out" => loaded' = loaded
      /\ dir = "out" => \A c \in Columns :
            c < col + op.data.nbytes => loaded'[c] = << page, c >>
  <2>1. CASE dev.seen = << >>
    <3>1. all = Sent(op)
      BY <1>4, <2>1, NothingAdded
    <3> QED
      BY <1>3, <1>4, <3>1, ReadBack, Loads
  <2>2. CASE First /\ dev.seen = << stray >>
    <3>1. stray \in Piece
      BY DEF Bare, Piece
    <3>2. all[1] = stray
      BY <1>4, <2>2, <3>1, FirstTaken
    <3>3. ~ Is(all, "out", 1)
      <4>1. stray.t # "opcode"
        BY DEF Bare
      <4> QED
        BY <3>2, <4>1 DEF Is
    <3>4. RdLen(op) = 0 /\ dir = "none"
      BY <2>2, FirstIsSmall DEF First
    <3>5. RdLen(op) = 0
      BY <3>4
    <3>6. ChipData(all, RdLen(op), 1) = DataIn(0)
      BY <3>5, NothingRead
    <3> QED
      BY <1>3, <3>3, <3>4, <3>6 DEF ChipLoads
  <2> QED
    BY <1>2, <2>1, <2>2
<1>6. up' = << Reply("trx", TrxLen(op), DataIn(0)) >>
  BY <1>3, <1>5, SentLength, OneAnswer
<1> QED
  BY <1>1, <1>3, <1>5, <1>6

LEMMA TakesWrite ==
    ASSUME TInv, Bridge, up = << >>, NEW items \in Seq(Piece), NEW before \in Seq(Piece),
           down = << Packet("write", items, 0) >>, dev = Selected(before)
    PROVE  /\ down' = << >> /\ dev' = Selected(before \o items) /\ loaded' = loaded
           /\ up' = << Reply("write", 1, << Stale >>) >>
<1>1. Head(down) = Packet("write", items, 0) /\ down' = << >>
  BY TakesAlone
<1>2. dev.mode = "selected" /\ dev.need = 0 /\ dev.rd = 0 /\ dev.seen = before
  BY DEF Selected, Dev
<1>3. /\ dev' = Dev("selected", 0, 0, Clocked(items)) /\ loaded' = loaded
      /\ Answer(<< Reply("write", 1, << Stale >>) >>)
  <2>1. dev.mode # "lost" /\ "write" \notin SetCmds
    BY <1>2 DEF SetCmds
  <2>2. IF "write" \in SetCmds THEN UNCHANGED << dev, loaded >>
        ELSE IF dev.mode = "auto" THEN Deselects(Clocked(items))
        ELSE dev' = Dev(dev.mode, dev.need, dev.rd, Clocked(items)) /\ UNCHANGED loaded
    BY <1>1, <2>1, TakesPacket
  <2>3. Answer(<< Reply("write", 1, << Stale >>) >>)
    BY <1>1, <2>1, TakesPacket
  <2> QED
    BY <1>2, <2>1, <2>2, <2>3
<1> QED
  BY <1>1, <1>2, <1>3, OneAnswer DEF Clocked, Selected

LEMMA DataInIs ==
    ASSUME TInv, pc \in InOp, NEW from \in Nat, NEW n \in Nat, from + n <= RdLen(op)
    PROVE  /\ DataIn(from) \in Seq(Value) /\ Len(DataIn(from)) = RdLen(op) - from
           /\ \A k \in 1 .. RdLen(op) - from :
                 DataIn(from)[k] = << page, col + from + k - 1 >>
           /\ SubSeq(DataIn(from), n + 1, Len(DataIn(from))) = DataIn(from + n)
<1>1. /\ col \in Nat /\ RdLen(op) \in Nat /\ col + RdLen(op) <= Bytes
      /\ page \in 0 .. MaxCalls
  BY OpFacts, Sizes DEF RdLen, TInv, Looping
<1>2. ASSUME NEW i \in Nat, i <= RdLen(op)
      PROVE  /\ DataIn(i) \in Seq(Value) /\ Len(DataIn(i)) = RdLen(op) - i
             /\ \A k \in 1 .. RdLen(op) - i : DataIn(i)[k] = << page, col + i + k - 1 >>
  <2>1. ASSUME NEW k \in 1 .. RdLen(op) - i
        PROVE  << page, col + i + k - 1 >> \in Value
    <3>1. col + i + k - 1 \in Columns
      BY <1>1, <1>2, Sizes DEF Columns
    <3> QED
      BY <1>1, <3>1 DEF Value
  <2>2. DataIn(i) \in [ 1 .. RdLen(op) - i -> Value ] /\ RdLen(op) - i \in Nat
    BY <1>1, <1>2, <2>1 DEF DataIn
  <2> QED
    BY <2>2, FcnIsSeq DEF DataIn
<1> DEFINE s == DataIn(from)
           t == DataIn(from + n)
           r == SubSeq(s, n + 1, Len(s))
<1>3. /\ s \in Seq(Value) /\ Len(s) = RdLen(op) - from
      /\ \A k \in 1 .. RdLen(op) - from : s[k] = << page, col + from + k - 1 >>
  BY <1>1, <1>2
<1>4. /\ t \in Seq(Value) /\ Len(t) = RdLen(op) - (from + n)
      /\ \A k \in 1 .. RdLen(op) - (from + n) : t[k] = << page, col + (from + n) + k - 1 >>
  BY <1>1, <1>2
<1> HIDE DEF s, t
<1>5. /\ r \in Seq(Value)
      /\ Len(r) = IF n < Len(s) THEN Len(s) - n ELSE 0
      /\ \A i \in 1 .. Len(s) - n : r[i] = s[n + i]
  BY <1>3, RestOf
<1> HIDE DEF r
<1>6. Len(r) = Len(t) /\ Len(t) = Len(s) - n
  BY <1>1, <1>3, <1>4, <1>5
<1>7. \A i \in 1 .. Len(t) : r[i] = t[i]
  <2> TAKE i \in 1 .. Len(t)
  <2>0. Len(t) = RdLen(op) - (from + n) /\ Len(s) = RdLen(op) - from /\ i \in 1 .. Len(t)
    BY <1>3, <1>4
  <2>1. /\ n + i \in 1 .. RdLen(op) - from /\ i \in 1 .. Len(s) - n
        /\ i \in 1 .. RdLen(op) - (from + n)
    BY <1>1, <2>0
  <2>2. col + from + (n + i) - 1 = col + (from + n) + i - 1
    BY <1>1, <2>1
  <2> QED
    BY <1>3, <1>4, <1>5, <2>1, <2>2
<1>8. r = t
  BY <1>4, <1>5, <1>6, <1>7, SeqEqual
<1> QED
  BY <1>3, <1>8 DEF s, t, r

LEMMA TakesRead ==
    ASSUME TInv, drv = "ch347", pc \in InOp, dir = "in", Bridge, up = << >>,
           dev = Selected(Sent(op)), down = << Packet("read", << >>, op.data.nbytes) >>
    PROVE  down' = << >> /\ dev' = dev /\ loaded' = loaded /\ Coming(0)'
<1> DEFINE data == DataIn(0)
           n == op.data.nbytes
<1>1. Head(down) = Packet("read", << >>, n) /\ down' = << >>
  BY TakesAlone
<1>2. dev.mode = "selected" /\ dev.need = 0 /\ dev.rd = 0 /\ dev.seen = Sent(op)
  BY DEF Selected, Dev
<1>3. Clocked(<< >>) = Sent(op) /\ Wires = 1 /\ RdLen(op) = n /\ n \in Nat
  <2>1. Sent(op) \o << >> = Sent(op)
    BY SentIs, ConcatEmptySeq
  <2>2. op.dir = dir /\ n \in Nat
    BY OpFacts DEF TInv, Looping
  <2> QED
    BY <1>2, <2>1, <2>2 DEF Clocked, Wires, RdLen
<1>4. /\ dev' = Dev("selected", 0, 0, Sent(op)) /\ loaded' = loaded
      /\ \E k \in 1 .. n : Answer(<< Reply("read", k, SubSeq(data, 1, k)) >> \o
            (IF k = n THEN << >> ELSE << Reply("read", n - k, SubSeq(data, k + 1, n)) >>))
  <2>1. ChipData(Clocked(<< >>), n, 1) = data
    BY <1>3, ReadBack
  <2> HIDE DEF data, n
  <2> QED
    <3>1. dev.mode # "lost" /\ "read" \notin SetCmds
      BY <1>2 DEF SetCmds
    <3>2. IF "read" \in SetCmds THEN UNCHANGED << dev, loaded >>
          ELSE IF dev.mode = "auto" THEN Deselects(Clocked(<< >>))
          ELSE dev' = Dev(dev.mode, dev.need, dev.rd, Clocked(<< >>)) /\ UNCHANGED loaded
      BY <1>1, <3>1, TakesPacket
    <3>3. \E k \in 1 .. n :
             LET d == ChipData(Clocked(<< >>), n, 1)
             IN  Answer(<< Reply("read", k, SubSeq(d, 1, k)) >> \o
                        (IF k = n THEN << >>
                         ELSE << Reply("read", n - k, SubSeq(d, k + 1, n)) >>))
      BY <1>1, <3>1, TakesPacket
    <3> QED
      BY <1>2, <1>3, <2>1, <3>1, <3>2, <3>3
<1>5. data \in Seq(Value) /\ Len(data) = n
  <2>1. 0 + 0 <= RdLen(op) /\ RdLen(op) - 0 = n
    BY <1>3
  <2> QED
    BY <2>1, DataInIs
<1>6. PICK k \in 1 .. n : Answer(<< Reply("read", k, SubSeq(data, 1, k)) >> \o
            (IF k = n THEN << >> ELSE << Reply("read", n - k, SubSeq(data, k + 1, n)) >>))
  BY <1>4
<1>7. data' = data /\ RdLen(op)' = RdLen(op)
  BY OpSame DEF Bridge, call, loop
<1> HIDE DEF data, n
<1>8. CASE k = n
  <2>1. SubSeq(data, 1, k) = data
    BY <1>5, <1>8, SubSeqFull
  <2>2. Answer(<< Reply("read", n, data) >>)
    BY <1>6, <1>8, <2>1, Joined
  <2>3. up' = << Reply("read", Len(data), data) >>
    BY <1>5, <2>2, OneAnswer
  <2>4. Coming(0)'
    BY <1>7, <2>3 DEF Coming, data
  <2> QED
    BY <1>1, <1>4, <2>4 DEF Selected
<1>9. CASE k # n
  <2> DEFINE a == Reply("read", k, SubSeq(data, 1, k))
             b == Reply("read", n - k, SubSeq(data, k + 1, n))
  <2>1. Answer(<< a, b >>)
    <3>1. << a >> \o << b >> = << a, b >>
      BY Joined
    <3> QED
      BY <1>6, <1>9, <3>1
  <2>2. up' = << a, b >>
    <3> HIDE DEF a, b
    <3>1. << a, b >> \in Seq({a, b})
      OBVIOUS
    <3> QED
      BY <2>1, <3>1, NothingAdded DEF Answer
  <2>3. k \in 1 .. Len(data) - 1
    BY <1>3, <1>5, <1>9
  <2>4. Coming(0)'
    BY <1>5, <1>7, <2>2, <2>3 DEF Coming, data
  <2> QED
    BY <1>1, <1>4, <2>4 DEF Selected
<1> QED
  BY <1>8, <1>9
-----------------------------------------------------------------------------
LEMMA TakesSetting ==
    ASSUME Bridge, dev.mode # "lost", NEW cmd \in SetCmds,
           Head(down) = Packet(cmd, << >>, 0)
    PROVE  /\ UNCHANGED << dev, loaded >>
           /\ up = << >> => up' = << Reply(cmd, 1, << Stale >>) >>
           /\ \A a : up = << a >> => up' = << a, Reply(cmd, 1, << Stale >>) >>
<1>1. UNCHANGED << dev, loaded >>
  BY TakesPacket
<1>2. cmd \notin {"read", "trx"}
  BY DEF SetCmds
<1>3. Answer(<< Reply(cmd, 1, << Stale >>) >>)
  BY <1>2, TakesPacket
<1> QED
  BY <1>1, <1>3, NothingAdded, Joined DEF Answer

LEMMA ChBridgeSetting ==
    ASSUME drv = "ch347", Bridge, pc \in Settings, ChAt
    PROVE  ChAt'
<1>1. /\ down # << >> /\ down' = Tail(down) /\ UNCHANGED << pc, step >>
  BY DEF Bridge
<1>2. Idle.mode # "lost" /\ Stray.mode # "lost" /\ Lost.mode = "lost"
  BY DEF Idle, Stray, Lost, Selected, Dev
<1>3. Ours' = Ours /\ Stray' = Stray /\ Idle' = Idle /\ Lost' = Lost /\ Old' = Old
  BY <1>1 DEF Ours, Stray, Idle, Lost, Old, Reply, Selected, Dev, Bare, Stale
<1>4. CASE Clean /\ Asked
  <2>1. down = << Packet(CmdOf[pc], << >>, 0) >> /\ up = << >>
    BY <1>1, <1>4 DEF Asked
  <2>2. Head(down) = Packet(CmdOf[pc], << >>, 0) /\ down' = << >>
    BY <1>1, <2>1, OneTaken
  <2>3. dev.mode # "lost"
    BY <1>2, <1>4 DEF Clean
  <2>4. up' = << Ours >> /\ dev' = dev
    BY <2>1, <2>2, <2>3, TakesSetting DEF Ours, CmdOf, SetCmds, Settings
  <2>5. Clean' /\ Asked'
    BY <1>3, <1>4, <2>2, <2>4 DEF Clean, Asked
  <2>6. step = 2 => ChAt'
    BY <1>1, <2>5 DEF ChAt, Informing, Configuring, Settings
  <2>7. step = 2
    <3>1. ~ (Behind /\ step = 1)
      <4>1. Packet("info", << >>, 0).cmd # Packet("init", << >>, 0).cmd
        BY DEF Packet
      <4>2. << Packet("info", << >>, 0) >> # << Packet("init", << >>, 0) >>
        BY <4>1
      <4> QED
        BY <1>1, <2>1, <4>2 DEF Behind, CmdOf
    <3>2. pc = "info" => Informing
      BY DEF ChAt
    <3>3. pc # "info" => Configuring
      BY DEF ChAt, Settings
    <3> QED
      BY <1>1, <3>1, <3>2, <3>3 DEF Informing, Configuring, Waiting
  <2> QED
    BY <2>6, <2>7
<1>5. CASE pc = "info" /\ step = 2 /\ dev = Lost /\ up = << >>
  <2>1. UNCHANGED << dev, up >>
    BY <1>2, <1>5 DEF Bridge, BridgeTakes
  <2>2. Informing'
    BY <1>1, <1>3, <1>5, <2>1 DEF Informing
  <2> QED
    BY <1>1, <1>5, <2>2 DEF ChAt
<1>6. ASSUME pc = "info", step = 2, dev = Idle, NEW r \in Old,
             down = << Packet("info", << >>, 0) >>, up = << r >>
      PROVE  ChAt'
  <2>1. Head(down) = Packet("info", << >>, 0) /\ down' = << >>
    BY <1>1, <1>6, OneTaken
  <2>2. dev' = dev /\ up' = << r, Reply("info", 1, << Stale >>) >>
    BY <1>2, <1>6, <2>1, TakesSetting DEF SetCmds
  <2>3. Informing'
    BY <1>1, <1>3, <1>6, <2>1, <2>2 DEF Informing
  <2> QED
    BY <1>1, <1>6, <2>3 DEF ChAt
<1>7. CASE Behind
  <2> DEFINE info == Packet("info", << >>, 0)
             setup == Packet("init", << >>, 0)
             last == Reply("info", 1, << Stale >>)
             next == Reply("init", 1, << Stale >>)
  <2>1. pc = "setup" /\ dev = Idle /\ step \in 1 .. 2
    BY <1>7 DEF Behind, ChAt, Configuring
  <2>2. \/ step = 1 /\ down = << info >> /\ up = << >>
        \/ step = 2 /\ down = << info, setup >> /\ up = << >>
        \/ step = 2 /\ down = << setup >> /\ up = << last >>
    BY <1>1, <1>7, <2>1 DEF Behind
  <2>3. /\ Head(down) = info => dev' = dev /\ (up = << >> => up' = << last >>)
        /\ Head(down) = setup => dev' = dev /\ (up = << last >> => up' = << last, next >>)
    BY <1>2, <2>1, TakesSetting DEF SetCmds
  <2> HIDE DEF info, setup, last, next
  <2>4. \/ step = 1 /\ down' = << >> /\ up' = << last >> /\ dev' = dev
        \/ step = 2 /\ down' = << setup >> /\ up' = << last >> /\ dev' = dev
        \/ step = 2 /\ down' = << >> /\ up' = << last, next >> /\ dev' = dev
    <3>1. CASE down = << info >>
      BY <1>1, <2>2, <2>3, <3>1, OneTaken
    <3>2. CASE down = << setup >>
      BY <1>1, <2>2, <2>3, <3>2, OneTaken
    <3>3. CASE down = << info, setup >>
      BY <1>1, <2>2, <2>3, <3>3, TwoTaken
    <3> QED
      BY <2>2, <3>1, <3>2, <3>3
  <2>5. Behind'
    BY <1>1, <1>3, <2>1, <2>4 DEF Behind, info, setup, last, next
  <2>6. Configuring'
    BY <1>1, <2>1, <2>5 DEF Configuring
  <2> QED
    BY <1>1, <2>1, <2>6 DEF ChAt
<1>8. CASE pc = "info"
  <2>1. Informing
    BY <1>8 DEF ChAt
  <2>2. step = 2
    BY <1>1, <2>1 DEF Informing, Waiting
  <2> QED
    BY <1>1, <1>4, <1>5, <1>6, <1>8, <2>1, <2>2 DEF Informing
<1>9. CASE pc \in {"setup", "rate"}
  <2>1. Configuring
    BY <1>9 DEF ChAt
  <2> QED
    BY <1>1, <1>4, <1>7, <2>1 DEF Configuring
<1> QED
  BY <1>8, <1>9 DEF Settings

LEMMA ChBridgeOp ==
    ASSUME HInv, TInv, drv = "ch347", Bridge, pc \in {"exchange", "head", "out", "in", "sent"},
           ChAt
    PROVE  ChAt'
<1>1. /\ down # << >> /\ down' = Tail(down) /\ UNCHANGED << pc, step >>
      /\ UNCHANGED << drv, op, dir, buf, page, col >> /\ pc \in InOp
  BY DEF Bridge, call, loop, InOp
<1>2. /\ HeadItems(op) \in Seq(Piece) /\ DataOut(op) \in Seq(Piece) /\ Sent(op) \in Seq(Piece)
      /\ RdLen(op) \in Nat /\ op.data.nbytes \in Nat /\ op.dir = dir
  BY <1>1, HeadPieces, DataPieces, SentIs, OpFacts DEF RdLen, TInv, Looping
<1>3. /\ HeadItems(op)' = HeadItems(op) /\ DataOut(op)' = DataOut(op)
      /\ Sent(op)' = Sent(op) /\ RdLen(op)' = RdLen(op)
      /\ Whole1(op)' = Whole1(op) /\ TrxLen(op)' = TrxLen(op)
      /\ (Small(op) <=> Small(op)') /\ CsLow' = CsLow
      /\ \A i : DataIn(i)' = DataIn(i)
  BY <1>1, OpSame
<1>4. /\ \A n : ChSoFar(n) /\ Held = loaded => SoFar(n)
      /\ down' = << >> => Held' = loaded'
  BY DEF ChSoFar, SoFar, Held, Closing
<1>5. ChSoFar(col) /\ Held' = Held => ChSoFar(col)'
  BY <1>1 DEF ChSoFar
<1>6. /\ << >> \in Seq(ToBridge)
      /\ << Whole1(op) >> \in Seq(ToBridge) /\ Whole1(op) # CsHigh
      /\ << Packet("write", HeadItems(op), 0) >> \in Seq(ToBridge)
      /\ Packet("write", HeadItems(op), 0) # CsHigh
  <2>1. Whole1(op) = Packet("trx", Sent(op), RdLen(op))
    BY DEF Whole1, Sent
  <2>2. "trx" \in Cmds /\ "write" \in Cmds /\ 0 \in Nat
    BY DEF Cmds
  <2>3. Whole1(op) \in ToBridge /\ Packet("write", HeadItems(op), 0) \in ToBridge
    BY <1>2, <2>1, <2>2, ToBridgeIs
  <2> QED
    BY <2>1, <2>3, ToBridgeIs
<1>7. CASE pc = "exchange"
  <2>1. Exchanging
    BY <1>7 DEF ChAt
  <2>2. CASE step = 1
    <3>1. Sending(<< >>) /\ ChSoFar(col) /\ Small(op)
      BY <2>1, <2>2 DEF Exchanging
    <3>2. /\ up' = << >> /\ Held' = Held
          /\ \/ down' = << CsLow >> \o << >> /\ dev' = Idle
             \/ /\ down' = << >>
                /\ \/ dev' = Dev(IF Small(op) THEN "auto" ELSE "selected", 0, 0, << >>)
                   \/ First /\ dev' = Dev("auto", 0, 0, << Bare("opcode of another run") >>)
      BY <1>1, <1>6, <3>1, SendingTaken
    <3>3. Sending(<< >>)'
      BY <1>1, <1>3, <3>2 DEF Sending, First, Idle, Dev, Bare
    <3>5. step' = 1 /\ Small(op)' /\ ChSoFar(col)'
      BY <1>1, <1>3, <1>5, <2>2, <3>1, <3>2
    <3>4. Exchanging'
      BY <3>3, <3>5 DEF Exchanging
    <3> QED
      BY <1>1, <1>7, <3>4 DEF ChAt
  <2>3. CASE step = 2
    <3>1. Sending(<< Whole1(op) >>) /\ ChSoFar(col) /\ Small(op)
      BY <1>1, <2>1, <2>3 DEF Exchanging
    <3>2. \/ /\ up' = << >> /\ Held' = Held
             /\ \/ down' = << CsLow >> \o << Whole1(op) >> /\ dev' = Idle
                \/ /\ down' = << Whole1(op) >>
                   /\ \/ dev' = Dev(IF Small(op) THEN "auto" ELSE "selected", 0, 0, << >>)
                      \/ First /\ dev' = Dev("auto", 0, 0, << Bare("opcode of another run") >>)
          \/ /\ down = << Whole1(op) >> /\ Held = loaded
             /\ \/ dev = Dev(IF Small(op) THEN "auto" ELSE "selected", 0, 0, << >>)
                \/ First /\ dev = Dev("auto", 0, 0, << Bare("opcode of another run") >>)
      BY <1>1, <1>6, <3>1, SendingTaken
    <3>3. CASE up' = << >> /\ Held' = Held /\ Sending(<< Whole1(op) >>)'
      <4>1. Exchanging'
        BY <1>1, <1>3, <1>5, <2>3, <3>1, <3>3 DEF Exchanging
      <4> QED
        BY <1>1, <1>7, <4>1 DEF ChAt
    <3>4. CASE /\ down = << Whole1(op) >> /\ Held = loaded
               /\ \/ dev = Dev(IF Small(op) THEN "auto" ELSE "selected", 0, 0, << >>)
                  \/ First /\ dev = Dev("auto", 0, 0, << Bare("opcode of another run") >>)
      <4>1. up = << >> /\ SoFar(col)
        BY <1>4, <3>1, <3>4 DEF Sending
      <4>2. /\ down' = << >> /\ dev' = Idle
            /\ up' = << Reply("trx", TrxLen(op), DataIn(0)) >>
            /\ dir # "out" => loaded' = loaded
            /\ dir = "out" => \A c \in Columns :
                  c < col + op.data.nbytes => loaded'[c] = << page, c >>
        BY <1>1, <3>1, <3>4, <4>1, TakesWhole
      <4>3. (ChSoFar(IF dir = "out" THEN col + op.data.nbytes ELSE col))'
        BY <1>1, <1>4, <3>1, <4>2 DEF ChSoFar
      <4>5. up' = << Reply("trx", TrxLen(op), DataIn(0)) >>' /\ dev' = Idle'
        BY <1>1, <1>3, <4>2 DEF Reply, DataIn, Idle, Dev
      <4>6. step' = 2 /\ down' = << >> /\ Small(op)'
        BY <1>1, <1>3, <2>3, <3>1, <4>2
      <4>4. Exchanging'
        BY <4>3, <4>5, <4>6 DEF Exchanging
      <4> QED
        BY <1>1, <1>7, <4>4 DEF ChAt
    <3>5. ASSUME /\ up' = << >> /\ Held' = Held
                 /\ \/ down' = << CsLow >> \o << Whole1(op) >> /\ dev' = Idle
                    \/ /\ down' = << Whole1(op) >>
                       /\ \/ dev' = Dev(IF Small(op) THEN "auto" ELSE "selected", 0, 0, << >>)
                          \/ /\ First
                             /\ dev' = Dev("auto", 0, 0, << Bare("opcode of another run") >>)
          PROVE  Sending(<< Whole1(op) >>)'
      BY <1>1, <1>3, <3>5 DEF Sending, First, Idle, Dev, Bare
    <3> QED
      BY <3>2, <3>3, <3>4, <3>5
  <2> QED
    BY <2>1, <2>2, <2>3 DEF Exchanging
<1>8. CASE pc = "head"
  <2> DEFINE p == Packet("write", HeadItems(op), 0)
  <2>1. Heading
    BY <1>8 DEF ChAt
  <2>2. p' = p
    BY <1>3 DEF Packet
  <2>3. CASE step = 1
    <3>1. Sending(<< >>) /\ ChSoFar(col) /\ ~ Small(op)
      BY <2>1, <2>3 DEF Heading
    <3>2. /\ up' = << >> /\ Held' = Held
          /\ \/ down' = << CsLow >> \o << >> /\ dev' = Idle
             \/ /\ down' = << >>
                /\ \/ dev' = Dev(IF Small(op) THEN "auto" ELSE "selected", 0, 0, << >>)
                   \/ First /\ dev' = Dev("auto", 0, 0, << Bare("opcode of another run") >>)
      BY <1>1, <1>6, <3>1, SendingTaken
    <3>3. Sending(<< >>)'
      BY <1>1, <1>3, <3>2 DEF Sending, First, Idle, Dev, Bare
    <3>5. step' = 1 /\ ~ Small(op)' /\ ChSoFar(col)'
      BY <1>1, <1>3, <1>5, <2>3, <3>1, <3>2
    <3>4. Heading'
      BY <3>3, <3>5 DEF Heading
    <3> QED
      BY <1>1, <1>8, <3>4 DEF ChAt
  <2>4. CASE step = 2
    <3>1. Sending(<< p >>) /\ ChSoFar(col) /\ ~ Small(op)
      BY <1>1, <2>1, <2>4 DEF Heading
    <3>2. \/ /\ up' = << >> /\ Held' = Held
             /\ \/ down' = << CsLow >> \o << p >> /\ dev' = Idle
                \/ /\ down' = << p >>
                   /\ \/ dev' = Dev(IF Small(op) THEN "auto" ELSE "selected", 0, 0, << >>)
                      \/ First /\ dev' = Dev("auto", 0, 0, << Bare("opcode of another run") >>)
          \/ /\ down = << p >> /\ Held = loaded
             /\ \/ dev = Dev(IF Small(op) THEN "auto" ELSE "selected", 0, 0, << >>)
                \/ First /\ dev = Dev("auto", 0, 0, << Bare("opcode of another run") >>)
      BY <1>1, <1>6, <3>1, SendingTaken
    <3> HIDE DEF p
    <3>3. CASE up' = << >> /\ Held' = Held /\ Sending(<< p >>)'
      <4>1. Heading'
        BY <1>1, <1>3, <1>5, <2>2, <2>4, <3>1, <3>3 DEF Heading, p
      <4> QED
        BY <1>1, <1>8, <4>1 DEF ChAt
    <3>4. CASE /\ down = << p >> /\ Held = loaded
               /\ \/ dev = Dev(IF Small(op) THEN "auto" ELSE "selected", 0, 0, << >>)
                  \/ First /\ dev = Dev("auto", 0, 0, << Bare("opcode of another run") >>)
      <4>1. up = << >> /\ dev = Selected(<< >>)
        BY <1>1, <3>1, <3>4, FirstIsSmall DEF Sending, Selected
      <4>2. << >> \in Seq(Piece)
        OBVIOUS
      <4>3. /\ down' = << >> /\ dev' = Selected(<< >> \o HeadItems(op)) /\ loaded' = loaded
            /\ up' = << Reply("write", 1, << Stale >>) >>
        BY <1>2, <3>4, <4>1, <4>2, TakesWrite DEF p
      <4>4. dev' = Selected(HeadItems(op)')
        BY <1>2, <1>3, <4>3, NothingAdded
      <4>5. ChSoFar(col)'
        BY <1>4, <1>5, <3>1, <3>4, <4>3
      <4>7. up' = << Reply("write", 1, << Stale >>) >>' /\ dev' = Selected(HeadItems(op))'
        BY <4>3, <4>4 DEF Reply, Selected, Dev, Stale
      <4>8. step' = 2 /\ down' = << >> /\ ~ Small(op)'
        BY <1>1, <1>3, <2>4, <3>1, <4>3
      <4>6. Heading'
        BY <4>5, <4>7, <4>8 DEF Heading
      <4> QED
        BY <1>1, <1>8, <4>6 DEF ChAt
    <3>5. ASSUME /\ up' = << >> /\ Held' = Held
                 /\ \/ down' = << CsLow >> \o << p >> /\ dev' = Idle
                    \/ /\ down' = << p >>
                       /\ \/ dev' = Dev(IF Small(op) THEN "auto" ELSE "selected", 0, 0, << >>)
                          \/ /\ First
                             /\ dev' = Dev("auto", 0, 0, << Bare("opcode of another run") >>)
          PROVE  Sending(<< p >>)'
      BY <1>1, <1>3, <2>2, <3>5 DEF Sending, First, Idle, Dev, Bare
    <3> QED
      BY <3>2, <3>3, <3>4, <3>5
  <2> QED
    BY <2>1, <2>3, <2>4 DEF Heading
<1>9. CASE pc = "out"
  <2>1. Putting
    BY <1>9 DEF ChAt
  <2>2. /\ step = 1 /\ ChSoFar(col) /\ up = << >> /\ dev = Selected(HeadItems(op))
        /\ down = << Packet("write", DataOut(op), 0) >>
    BY <1>1, <2>1 DEF Putting
  <2>3. /\ down' = << >> /\ dev' = Selected(HeadItems(op) \o DataOut(op)) /\ loaded' = loaded
        /\ up' = << Reply("write", 1, << Stale >>) >>
    BY <1>2, <2>2, TakesWrite
  <2>4. dev' = Selected(Sent(op)')
    BY <1>3, <2>3 DEF Sent
  <2>5. Held = loaded
    BY <2>2, HeldIs, ToBridgeIs
  <2>6. ChSoFar(col)'
    BY <1>4, <1>5, <2>2, <2>3, <2>5
  <2>7. up' = << Reply("write", 1, << Stale >>) >>' /\ dev' = Selected(Sent(op))'
    BY <2>3, <2>4 DEF Reply, Selected, Dev, Stale
  <2>8. Putting'
    BY <1>1, <2>2, <2>3, <2>6, <2>7 DEF Putting
  <2> QED
    BY <1>1, <1>9, <2>8 DEF ChAt
<1>10. CASE pc = "in"
  <2>1. Getting /\ dir = "in"
    BY <1>10 DEF ChAt, TInv, OpShape
  <2>2. step > 0 /\ step - 1 < op.data.nbytes /\ ChSoFar(col + (step - 1)) /\ step = 1
        /\ down = << Packet("read", << >>, op.data.nbytes) >> /\ up = << >>
        /\ dev = Selected(Sent(op))
    <3>1. step \in Nat
      BY DEF TInv
    <3> QED
      BY <1>1, <2>1, <3>1 DEF Getting
  <2>3. down' = << >> /\ dev' = dev /\ loaded' = loaded /\ Coming(0)'
    BY <1>1, <2>1, <2>2, TakesRead
  <2>4. dev' = Selected(Sent(op)')
    BY <1>3, <2>2, <2>3
  <2>5. Coming(step - 1)'
    <3>1. step' - 1 = 0
      BY <1>1, <2>2
    <3> QED
      BY <2>3, <3>1 DEF Coming
  <2>6. (ChSoFar(col + (step - 1)))'
    BY <1>1, <2>1, <2>2 DEF ChSoFar
  <2>7. Getting'
    BY <1>1, <2>2, <2>3, <2>4, <2>5, <2>6 DEF Getting, Selected, Dev
  <2> QED
    BY <1>1, <1>10, <2>7 DEF ChAt
<1>11. CASE pc = "sent"
  BY <1>1, <1>11 DEF ChAt
<1> QED
  BY <1>7, <1>8, <1>9, <1>10, <1>11

LEMMA ChBridge == ASSUME HInv, TInv, Noted, ChInv, Bridge PROVE ChInv'
<1>1. /\ down # << >> /\ UNCHANGED << drv, pc, step, glitch, outcome, col, op, dir, buf, page >>
      /\ drv = "ch347"
  BY DEF Bridge, call, loop
<1>2. SUFFICES ASSUME glitch = "none" PROVE ChAt' /\ ChEnded'
  BY <1>1 DEF ChInv
<1>3. ChAt /\ ChEnded
  BY <1>1, <1>2 DEF ChInv
<1>4. ASSUME Quiet
      PROVE  /\ Quiet' /\ (ChSoFar(col) => ChSoFar(col)') /\ (ChSoFar(Bytes) => ChSoFar(Bytes)')
  <2>1. down' = << >> /\ up' = << >> /\ dev' = Idle /\ loaded' = Held /\ Held' = Held
    BY <1>4, QuietTaken
  <2> QED
    BY <1>1, <2>1 DEF Quiet, ChSoFar, Idle, Dev
<1>5. ChEnded'
  BY <1>1, <1>3, <1>4 DEF ChEnded
<1>6. CASE pc \in {"idle", "part", "send"}
  <2>1. Quiet /\ (pc # "idle" => ChSoFar(col))
    BY <1>1, <1>3, <1>6 DEF ChAt
  <2> QED
    BY <1>1, <1>4, <1>5, <1>6, <2>1 DEF ChAt
<1>7. CASE pc \in {"open", "unwind", "closed"}
  <2>1. pc # "open"
    BY <1>1, <1>3 DEF ChAt, Waiting
  <2> QED
    BY <1>1, <1>5, <1>7, <2>1 DEF ChAt
<1>8. CASE pc \in Settings
  BY <1>1, <1>3, <1>5, <1>8, ChBridgeSetting
<1>9. CASE pc \in {"exchange", "head", "out", "in", "sent"}
  BY <1>1, <1>3, <1>5, <1>9, ChBridgeOp
<1>10. pc \in {"open", "unwind", "idle", "part", "send", "closed", "exchange", "head", "out", "in",
               "sent"} \cup Settings
  BY <1>1, <1>3 DEF TInv, Pcs, OwnStates, SerPcs, ChPcs, FxPcs, Settings, ChAt
<1> QED
  BY <1>6, <1>7, <1>8, <1>9, <1>10
-----------------------------------------------------------------------------
LEMMA ChCommon == ASSUME HInv, TInv, Noted, ChInv, Common PROVE ChInv'
<1>1. SUFFICES ASSUME drv = "ch347", glitch = "none"
               PROVE  ChAt' /\ ChEnded'
  <2>1. [Next]_vars
    BY DEF Next, Program
  <2> QED
    BY <2>1, Remembered DEF ChInv
<1>2. ChAt /\ ChEnded
  BY <1>1 DEF ChInv
<1>3. Stray' = Stray /\ Idle' = Idle /\ Lost' = Lost /\ Old' = Old /\ CsHigh' = CsHigh
  BY DEF Stray, Idle, Lost, Old, Reply, Selected, Dev, Bare, Stale, CsHigh, SetCs
<1>4. CASE Open
  <2>1. UNCHANGED << outcome, down, up, dev >>
    BY <1>4 DEF Open, loop, line, far
  <2>2. pc = "open" /\ (pc' = "open" \/ (pc' = "info" /\ step' = 1))
    BY <1>1, <1>4 DEF Open, Probing
  <2>3. Waiting
    BY <1>2, <2>2 DEF ChAt
  <2>4. Waiting'
    BY <1>3, <2>1, <2>3 DEF Waiting, Clean
  <2>5. ChAt'
    BY <2>2, <2>4 DEF ChAt, Informing
  <2> QED
    BY <1>2, <2>1, <2>2, <2>5 DEF ChEnded
<1>5. CASE OpenFails \/ Unwind
  <2>1. UNCHANGED outcome
    BY <1>5 DEF OpenFails, Unwind, loop
  <2>2. pc \in {"open", "unwind"} /\ pc' \in {"unwind", "closed"}
    BY <1>5 DEF OpenFails, Unwind, Unwinds
  <2> QED
    BY <1>2, <2>1, <2>2 DEF ChAt, ChEnded
<1>6. ASSUME UNCHANGED << down, up, dev, loaded >>
      PROVE  /\ Quiet => Quiet'
             /\ Held' = Held
  BY <1>3, <1>6 DEF Quiet, Selected, Dev, Held, Closing, ChipLoads, Is, Column
<1>7. CASE RemoveAdapter
  <2>1. UNCHANGED << dir, page, buf, outcome, down, up, dev, loaded >>
    BY <1>7 DEF RemoveAdapter, call, loop, line, far
  <2>2. pc = "idle" /\ pc' = "closed"
    BY <1>7 DEF RemoveAdapter
  <2>3. ChEnded'
    BY <1>2, <1>6, <2>1, <2>2 DEF ChEnded, ChSoFar
  <2> QED
    BY <2>2, <2>3 DEF ChAt
<1>8. CASE Call
  <2>1. /\ pc = "idle" /\ pc' = "part" /\ outcome' = "none" /\ col' = 0
        /\ UNCHANGED << down, up, dev, loaded >>
        /\ page = 0 => page' = 1 /\ dir' = "none"
    BY <1>8 DEF Call
  <2>2. ChSoFar(col)'
    BY <2>1, Sizes DEF ChSoFar, Columns
  <2>3. Quiet \/ (page = 0 /\ down = << >> /\ up = << >> /\ dev = Stray)
    BY <1>2, <2>1 DEF ChAt
  <2>4. Quiet' \/ (First' /\ down' = << >> /\ up' = << >> /\ dev' = Stray')
    BY <1>3, <1>6, <2>1, <2>3 DEF First
  <2> QED
    BY <2>1, <2>2, <2>4 DEF ChAt, ChEnded
<1>9. CASE Part
  <2>1. /\ pc = "part" /\ (left > 0 \/ dir = "none") /\ op' = Adjust(WithData(Template, left))
        /\ UNCHANGED << drv, dir, page, buf, down, up, dev, loaded >>
    BY <1>9 DEF Part, line, far
  <2>2. drv \in Drvs /\ dir \in Dirs /\ left \in Nat /\ (left = 0 <=> dir = "none")
    BY <2>1 DEF HInv, TInv, Looping
  <2>3. SupportsOp(Mode, op') /\ Takes(op')
    BY <2>1, <2>2, PartIs
  <2>4. pc' = "send" /\ UNCHANGED << col, left, outcome >>
    BY <1>9, <2>3 DEF Part, loop
  <2>5. ChSoFar(col) /\ (Quiet \/ (First /\ down = << >> /\ up = << >> /\ dev = Stray))
    BY <1>2, <2>1 DEF ChAt
  <2>6. ChSoFar(col)'
    BY <1>6, <2>1, <2>4, <2>5 DEF ChSoFar
  <2>7. Quiet' \/ (First' /\ down' = << >> /\ up' = << >> /\ dev' = Stray')
    BY <1>3, <1>6, <2>1, <2>5 DEF First
  <2>8. outcome # "done"
    BY <2>1 DEF Noted
  <2> QED
    BY <1>2, <2>4, <2>6, <2>7, <2>8 DEF ChAt, ChEnded
<1>10. CASE PartsEnd
  <2>1. /\ pc = "part" /\ left = 0 /\ dir # "none" /\ pc' = "idle" /\ outcome' = "done"
        /\ UNCHANGED << dir, page, buf, col, down, up, dev, loaded >>
    BY <1>10 DEF PartsEnd, Ends, call, line, far
  <2>2. col = Bytes
    BY <2>1, Sizes DEF TInv, Looping
  <2>3. Quiet /\ ChSoFar(Bytes)
    BY <1>2, <2>1, <2>2 DEF ChAt, First
  <2>4. Quiet' /\ ChSoFar(Bytes)'
    BY <1>6, <2>1, <2>3 DEF ChSoFar
  <2> QED
    BY <2>1, <2>4 DEF ChAt, ChEnded
<1> QED
  BY <1>4, <1>5, <1>7, <1>8, <1>9, <1>10 DEF Common

LEMMA ChSetting == ASSUME HInv, TInv, Noted, ChInv, Setting PROVE ChInv'
<1>1. /\ pc \in Settings /\ UNCHANGED << drv, outcome, dev, page >> /\ drv = "ch347" /\ page = 0
  BY DEF Setting, call, loop, far, TInv, OwnStates, HInv, SettingsFirst, Settings
<1>2. SUFFICES ASSUME glitch = "none", glitch' = "none"
               PROVE  ChAt' /\ ChEnded'
  <2>1. [Next]_vars
    BY DEF Next, Program, ChProgram
  <2> QED
    BY <1>1, <2>1, Remembered DEF ChInv
<1>3. ChAt /\ ChEnded
  BY <1>1, <1>2 DEF ChInv
<1>4. ChEnded'
  BY <1>1, <1>3 DEF ChEnded, Noted, Settings
<1>5. /\ pc = "info" => Informing
      /\ pc \in {"setup", "rate"} => Configuring
  BY <1>3 DEF ChAt
<1>6. Stray' = Stray /\ Idle' = Idle /\ Lost' = Lost /\ Old' = Old
  BY DEF Stray, Idle, Lost, Old, Reply, Selected, Dev, Bare, Stale
<1> DEFINE info == Packet("info", << >>, 0)
           setup == Packet("init", << >>, 0)
           last == Reply("info", 1, << Stale >>)
<1>7. CASE step = 1 /\ Written(<< Packet(CmdOf[pc], << >>, 0) >>) /\ pc' = pc /\ step' = 2
  <2>1. down' = down \o << Packet(CmdOf[pc], << >>, 0) >> /\ up' = up
    BY <1>7 DEF Written
  <2>2. Ours' = Ours
    BY <1>7 DEF Ours, Reply, Stale
  <2>3. /\ down = << >> => down' = << Packet(CmdOf[pc], << >>, 0) >>
        /\ \A x : down = << x >> => down' = << x, Packet(CmdOf[pc], << >>, 0) >>
    BY <2>1, NothingAdded, Joined
  <2>8. CmdOf["info"] = "info" /\ CmdOf["setup"] = "init"
    BY DEF CmdOf
  <2>4. CASE down = << >> /\ up = << >> /\ Clean
    <3>1. Clean' /\ Asked'
      BY <1>1, <1>6, <1>7, <2>1, <2>3, <2>4 DEF Clean, Asked
    <3> QED
      BY <1>1, <1>4, <1>7, <3>1 DEF ChAt, Informing, Configuring, Settings
  <2>5. CASE pc = "info" /\ up = << >> /\ dev = Lost
    <3>1. Informing'
      BY <1>1, <1>6, <1>7, <2>1, <2>5 DEF Informing
    <3> QED
      BY <1>4, <1>7, <2>5, <3>1 DEF ChAt
  <2>6. ASSUME pc = "info", down = << >>, dev = Idle, NEW r \in Old, up = << r >>
        PROVE  ChAt' /\ ChEnded'
    <3>1. down' = << info >> /\ up' = << r >> /\ dev' = Idle
      BY <1>1, <2>1, <2>3, <2>6, <2>8
    <3>2. Informing'
      BY <1>6, <1>7, <2>6, <3>1 DEF Informing
    <3> QED
      BY <1>4, <1>7, <2>6, <3>2 DEF ChAt
  <2>7. CASE Behind
    <3>1. /\ pc = "setup" /\ dev = Idle
          /\ (down = << info >> /\ up = << >>) \/ (down = << >> /\ up = << last >>)
      BY <1>7, <2>7 DEF Behind
    <3>2. \/ down' = << info, setup >> /\ up' = << >>
          \/ down' = << setup >> /\ up' = << last >>
      BY <2>1, <2>3, <2>8, <3>1
    <3>3. Behind'
      BY <1>1, <1>6, <1>7, <3>1, <3>2 DEF Behind
    <3>4. Configuring'
      BY <1>7, <3>3 DEF Configuring
    <3> QED
      BY <1>4, <1>7, <3>1, <3>4 DEF ChAt
  <2> QED
    BY <1>1, <1>5, <1>7, <2>4, <2>5, <2>6, <2>7
       DEF Informing, Waiting, Configuring, Settings
<1>8. CASE step = 2 /\ Receives(CmdOf[pc], 1) /\ pc' = NextSetting[pc] /\ step' = 1
  <2>1. /\ up # << >> /\ up[1].cmd = CmdOf[pc]
        /\ down' = down /\ up' = SubSeq(up, 2, Len(up))
    BY <1>8 DEF Receives, Fit, Taken
  <2>2. CASE Clean /\ Asked
    <3>1. down = << >> /\ up = << Ours >>
      BY <2>1, <2>2 DEF Asked
    <3>2. up' = << >> /\ down' = << >> /\ Clean'
      BY <1>1, <1>6, <2>1, <2>2, <3>1, OneTaken DEF Clean
    <3>3. CASE pc # "rate"
      <4>1. pc' \in {"setup", "rate"}
        BY <1>1, <1>8, <3>3 DEF NextSetting, Settings
      <4> QED
        BY <1>4, <1>8, <3>2, <4>1 DEF ChAt, Configuring
    <3>4. CASE pc = "rate"
      <4>1. pc' = "idle"
        BY <1>8, <3>4 DEF NextSetting
      <4> QED
        BY <1>1, <1>4, <3>2, <4>1 DEF ChAt, Quiet, Clean
    <3> QED
      BY <3>3, <3>4
  <2>3. ASSUME pc = "info", dev = Idle, NEW r \in Old,
               \/ down = << info >> /\ up = << r >>
               \/ down = << >> /\ up = << r, last >>
        PROVE  ChAt' /\ ChEnded'
    <3>1. \/ down' = << info >> /\ up' = << >>
          \/ down' = << >> /\ up' = << last >>
      <4> HIDE DEF info, last
      <4>1. CASE down = << info >> /\ up = << r >>
        BY <2>1, <4>1, OneTaken
      <4>2. CASE down = << >> /\ up = << r, last >>
        <5>1. Len(up) = 2
          BY <4>2, TwoTaken
        <5> QED
          BY <2>1, <4>2, <5>1, SecondLeft
      <4> QED
        BY <2>3, <4>1, <4>2
    <3>2. pc' = "setup" /\ step' = 1
      BY <1>8, <2>3 DEF NextSetting
    <3>3. Behind'
      BY <1>1, <1>6, <2>3, <3>1, <3>2 DEF Behind
    <3>4. Configuring'
      BY <3>2, <3>3 DEF Configuring
    <3> QED
      BY <1>4, <3>2, <3>4 DEF ChAt
  <2>4. ~ Behind
    <3>1. SUFFICES ASSUME Behind PROVE FALSE
      OBVIOUS
    <3>2. pc = "setup" /\ up[1] = last
      BY <1>8, <2>1, <3>1 DEF Behind
    <3> QED
      BY <2>1, <3>2 DEF Reply, CmdOf
  <2>5. ~ (dev = Lost /\ up = << >>)
    BY <2>1
  <2> QED
    BY <1>1, <1>5, <1>8, <2>2, <2>3, <2>4, <2>5 DEF Informing, Configuring, Settings
<1>9. CASE GivesUp
  <2>1. pc' \in {"unwind", "closed"}
    BY <1>9 DEF GivesUp, Unwinds
  <2> QED
    BY <1>4, <2>1 DEF ChAt
<1> QED
  BY <1>1, <1>2, <1>7, <1>8, <1>9, ChClean DEF Setting
-----------------------------------------------------------------------------
(* What is written behind a chip select does not change what it will load. *)
LEMMA HeldWritten ==
    ASSUME down \in Seq(ToBridge), NEW p \in ToBridge, p # CsHigh, down' = down \o << p >>,
           UNCHANGED << dev, loaded >>
    PROVE  Held' = Held
<1>1. CsHigh' = CsHigh /\ ChipLoads(dev.seen, 1)' = ChipLoads(dev.seen, 1)
  BY DEF CsHigh, SetCs, ChipLoads, Is, Column
<1>2. << p >> \in Seq(ToBridge) /\ Len(<< p >>) = 1 /\ << p >>[1] = p
  OBVIOUS
<1>3. down' # << >> /\ Head(down') = IF down = << >> THEN p ELSE Head(down)
  <2>1. CASE down = << >>
    BY <2>1, NothingAdded, OneTaken
  <2>2. CASE down # << >>
    <3>1. /\ Len(down) \in Nat /\ Len(down) > 0
      BY <2>2
    <3>2. /\ down' \in Seq(ToBridge) /\ Len(down') = Len(down) + 1
          /\ \A i \in 1 .. Len(down) + 1 :
                down'[i] = IF i <= Len(down) THEN down[i] ELSE << p >>[i - Len(down)]
      BY <1>2, ConcatProperties
    <3>3. down'[1] = down[1]
      BY <3>1, <3>2
    <3> QED
      BY <2>2, <3>1, <3>2, <3>3
  <2> QED
    BY <2>1, <2>2
<1> QED
  BY <1>1, <1>3 DEF Held, Closing

(* A packet is sent behind the chip select. *)
LEMMA SendingMore ==
    ASSUME NEW p \in ToBridge, p # CsHigh, Sending(<< >>), Written(<< p >>),
           UNCHANGED << dev, op, page, dir >>
    PROVE  /\ up' = << >> /\ UNCHANGED << dev, First, CsLow, CsHigh, Stray, Idle >>
           /\ \/ /\ down' = << CsHigh >> \o (<< CsLow >> \o << p >>)
                 /\ dev = Selected(dev.seen)
              \/ /\ down' = << CsLow >> \o << p >>
                 /\ dev = Idle \/ (First /\ dev = Stray)
              \/ /\ down' = << p >>
                 /\ \/ dev = Dev(IF Small(op) THEN "auto" ELSE "selected", 0, 0, << >>)
                    \/ First /\ dev = Dev("auto", 0, 0, << Bare("opcode of another run") >>)
<1>1. down' = down \o << p >> /\ up' = up
  BY DEF Written
<1>2. UNCHANGED << First, CsLow, CsHigh, Stray, Idle >>
  BY DEF First, CsLow, CsHigh, Stray, Idle, SetCs, Small, Head1, Selected, Dev, Bare
<1>3. /\ << CsLow >> \o << >> = << CsLow >>
      /\ << CsHigh >> \o << CsLow >> = << CsHigh, CsLow >>
      /\ << CsHigh, CsLow >> \o << p >> = << CsHigh >> \o (<< CsLow >> \o << p >>)
      /\ << >> \o << p >> = << p >>
  <2>1. /\ << CsHigh >> \in Seq(ToBridge) /\ << CsLow >> \in Seq(ToBridge)
        /\ << p >> \in Seq(ToBridge)
    BY ToBridgeIs
  <2>2. (<< CsHigh >> \o << CsLow >>) \o << p >> = << CsHigh >> \o (<< CsLow >> \o << p >>)
    BY <2>1, ConcatAssociative
  <2> QED
    BY <2>2, Joined, NothingAdded
<1>4. \/ down = << CsHigh >> \o (<< CsLow >> \o << >>) /\ dev = Selected(dev.seen)
      \/ down = << CsLow >> \o << >> /\ (dev = Idle \/ (First /\ dev = Stray))
      \/ /\ down = << >>
         /\ \/ dev = Dev(IF Small(op) THEN "auto" ELSE "selected", 0, 0, << >>)
            \/ First /\ dev = Dev("auto", 0, 0, << Bare("opcode of another run") >>)
  BY DEF Sending
<1>5. CASE down = << CsHigh >> \o (<< CsLow >> \o << >>) /\ dev = Selected(dev.seen)
  <2>1. down' = << CsHigh >> \o (<< CsLow >> \o << p >>)
    BY <1>1, <1>3, <1>5
  <2> QED
    BY <1>1, <1>2, <1>5, <2>1 DEF Sending
<1>6. CASE down = << CsLow >> \o << >> /\ (dev = Idle \/ (First /\ dev = Stray))
  <2>1. down' = << CsLow >> \o << p >>
    BY <1>1, <1>3, <1>6
  <2> QED
    BY <1>1, <1>2, <1>6, <2>1 DEF Sending
<1>7. CASE /\ down = << >>
           /\ \/ dev = Dev(IF Small(op) THEN "auto" ELSE "selected", 0, 0, << >>)
              \/ First /\ dev = Dev("auto", 0, 0, << Bare("opcode of another run") >>)
  <2>1. down' = << p >>
    BY <1>1, <1>3, <1>7
  <2> QED
    BY <1>1, <1>2, <1>7, <2>1 DEF Sending
<1> QED
  BY <1>4, <1>5, <1>6, <1>7

(* What has been sent and not taken leaves nothing to read. *)
LEMMA SendingWaits ==
    ASSUME NEW p \in ToBridge, Sending(<< p >>)
    PROVE  up = << >> /\ down # << >>
<1>1. << p >> \in Seq(ToBridge) /\ << p >> # << >>
  OBVIOUS
<1>2. /\ << CsLow >> \o << p >> \in Seq(ToBridge) /\ << CsLow >> \o << p >> # << >>
  BY <1>1, ToBridgeIs, FirstTaken
<1>3. << CsHigh >> \o (<< CsLow >> \o << p >>) # << >>
  BY <1>2, ToBridgeIs, FirstTaken
<1> QED
  BY <1>1, <1>2, <1>3 DEF Sending

(* The steps of an operation in which no transfer fails. *)
LEMMA ChOpStep ==
    ASSUME HInv, TInv, Noted, ChInv, ChProgram, drv = "ch347", pc \in InOp,
           glitch = "none" /\ glitch' = "none" => ChAt' /\ ChEnded'
    PROVE  ChInv'
<1>1. [Next]_vars
  BY DEF Next, Program
<1> QED
  BY <1>1, Remembered DEF ChInv

LEMMA ChSelect == ASSUME HInv, TInv, Noted, ChInv, Select PROVE ChInv'
<1>1. /\ drv = "ch347" /\ pc = "send" /\ pc \in InOp /\ step' = 1
      /\ pc' = IF Small(op) THEN "exchange" ELSE "head"
      /\ UNCHANGED << drv, op, dir, page, buf, col, left, outcome, dev, loaded >>
      /\ ChipSelect(CsLow)
  BY DEF Select, call, loop, far, InOp, CsLow
<1>2. SUFFICES ASSUME glitch = "none", glitch' = "none" PROVE ChAt' /\ ChEnded'
  BY <1>1, ChOpStep DEF ChProgram
<1>3. ChAt /\ ChEnded
  BY <1>1, <1>2 DEF ChInv
<1>4. down' = down \o << CsLow >> /\ up' = up
  BY <1>1, <1>2, ChClean DEF Written
<1>5. /\ ChSoFar(col)
      /\ Quiet \/ (First /\ down = << >> /\ up = << >> /\ dev = Stray)
  BY <1>1, <1>3 DEF ChAt
<1>6. ChEnded'
  BY <1>1, <1>3 DEF ChEnded, Noted
<1>7. UNCHANGED << First, CsLow, CsHigh, Stray, Idle >> /\ (Small(op) <=> Small(op)')
  BY <1>1 DEF First, CsLow, CsHigh, Stray, Idle, SetCs, Small, Head1, Selected, Dev, Bare
<1>8. Held' = Held
  <2>1. down \in Seq(ToBridge)
    BY <1>1 DEF TInv, LineTyped, Item
  <2> QED
    BY <1>1, <1>4, <2>1, HeldWritten, ToBridgeIs
<1>9. ChSoFar(col)'
  BY <1>1, <1>5, <1>8 DEF ChSoFar
<1>10. Sending(<< >>)'
  <2>0. << CsLow >> \o << >> = << CsLow >>
    BY Joined
  <2>1. CASE down = << >> /\ (dev = Idle \/ (First /\ dev = Stray))
    <3>1. down' = << CsLow >> \o << >> /\ up' = << >>
      BY <1>4, <1>5, <2>0, <2>1, NothingAdded DEF Quiet
    <3> QED
      BY <1>1, <1>7, <2>1, <3>1 DEF Sending
  <2>2. CASE down = << CsHigh >> /\ dev = Selected(dev.seen) /\ up = << >>
    <3>1. down' = << CsHigh >> \o (<< CsLow >> \o << >>) /\ up' = << >>
      BY <1>4, <2>0, <2>2
    <3>2. dev' = Selected(dev'.seen)
      BY <1>1, <2>2
    <3> QED
      BY <1>7, <3>1, <3>2 DEF Sending, Selected, Dev
  <2> QED
    BY <1>5, <2>1, <2>2 DEF Quiet
<1>11. CASE Small(op)
  <2>1. Exchanging'
    BY <1>1, <1>7, <1>9, <1>10, <1>11 DEF Exchanging
  <2> QED
    BY <1>1, <1>6, <1>11, <2>1 DEF ChAt
<1>12. CASE ~ Small(op)
  <2>1. Heading'
    BY <1>1, <1>7, <1>9, <1>10, <1>12 DEF Heading
  <2> QED
    BY <1>1, <1>6, <1>12, <2>1 DEF ChAt
<1> QED
  BY <1>11, <1>12

LEMMA ChExchangeOut == ASSUME HInv, TInv, Noted, ChInv, ExchangeOut PROVE ChInv'
<1>1. /\ drv = "ch347" /\ pc = "exchange" /\ pc \in InOp /\ step = 1
      /\ UNCHANGED << drv, op, dir, page, dev, loaded >>
  BY DEF ExchangeOut, far, InOp, TInv, OwnStates
<1>2. SUFFICES ASSUME glitch = "none", glitch' = "none" PROVE ChAt' /\ ChEnded'
  BY <1>1, ChOpStep DEF ChProgram
<1>3. ChAt /\ ChEnded
  BY <1>1, <1>2 DEF ChInv
<1>4. /\ Written(<< Whole1(op) >>) /\ step' = 2 /\ UNCHANGED << pc, col, outcome, buf >>
  BY <1>1, <1>2, ChClean DEF ExchangeOut, loop
<1>5. Small(op) /\ Sending(<< >>) /\ ChSoFar(col)
  BY <1>1, <1>3 DEF ChAt, Exchanging
<1>6. Whole1(op) \in ToBridge /\ Whole1(op) # CsHigh
  <2>1. Whole1(op) = Packet("trx", Sent(op), RdLen(op))
    BY DEF Whole1, Sent
  <2>2. "trx" \in Cmds /\ Sent(op) \in Seq(Piece) /\ RdLen(op) \in Nat
    BY <1>1, SentIs, OpFacts DEF Cmds, RdLen, TInv, Looping
  <2> QED
    BY <2>1, <2>2, ToBridgeIs
<1>7. Held' = Held
  <2>1. down \in Seq(ToBridge)
    BY <1>1 DEF TInv, LineTyped, Item
  <2> QED
    BY <1>1, <1>4, <1>6, <2>1, HeldWritten DEF Written
<1>8. ChSoFar(col)'
  BY <1>1, <1>4, <1>5, <1>7 DEF ChSoFar
<1>9. Whole1(op)' = Whole1(op) /\ (Small(op) <=> Small(op)')
  BY <1>1, <1>4, OpSame
<1>10. Sending(<< Whole1(op) >>)'
  <2>1. /\ up' = << >> /\ UNCHANGED << dev, First, CsLow, CsHigh, Stray, Idle >>
        /\ \/ /\ down' = << CsHigh >> \o (<< CsLow >> \o << Whole1(op) >>)
              /\ dev = Selected(dev.seen)
           \/ /\ down' = << CsLow >> \o << Whole1(op) >>
              /\ dev = Idle \/ (First /\ dev = Stray)
           \/ /\ down' = << Whole1(op) >>
              /\ \/ dev = Dev(IF Small(op) THEN "auto" ELSE "selected", 0, 0, << >>)
                 \/ First /\ dev = Dev("auto", 0, 0, << Bare("opcode of another run") >>)
    BY <1>1, <1>4, <1>5, <1>6, SendingMore
  <2> QED
    BY <1>9, <2>1 DEF Sending, Selected, Dev, Bare
<1>11. Exchanging'
  BY <1>4, <1>5, <1>8, <1>9, <1>10 DEF Exchanging
<1> QED
  BY <1>1, <1>3, <1>4, <1>11 DEF ChAt, ChEnded

LEMMA ChHeadOut == ASSUME HInv, TInv, Noted, ChInv, HeadOut PROVE ChInv'
<1> DEFINE p == Packet("write", HeadItems(op), 0)
<1>1. /\ drv = "ch347" /\ pc = "head" /\ pc \in InOp /\ op.dir = dir /\ dir \in {"in", "out"}
      /\ UNCHANGED << drv, op, dir, page, buf, dev, loaded >>
  <2>1. /\ drv = "ch347" /\ pc = "head" /\ pc \in InOp
        /\ UNCHANGED << drv, op, dir, page, buf, dev, loaded >>
    BY DEF HeadOut, call, far, InOp, TInv, OwnStates
  <2> QED
    BY <2>1, OpFacts DEF TInv, OpShape, Looping, Dirs
<1>2. SUFFICES ASSUME glitch = "none", glitch' = "none" PROVE ChAt' /\ ChEnded'
  BY <1>1, ChOpStep DEF ChProgram
<1>3. ChAt /\ ChEnded
  BY <1>1, <1>2 DEF ChInv
<1>4. ~ Small(op) /\ ChSoFar(col) /\ Heading
  BY <1>1, <1>3 DEF ChAt, Heading
<1>5. p \in ToBridge /\ p # CsHigh
  <2>1. "write" \in Cmds /\ HeadItems(op) \in Seq(Piece) /\ 0 \in Nat
    BY <1>1, HeadPieces DEF Cmds
  <2> QED
    BY <2>1, ToBridgeIs
<1>6. CASE step = 1
  <2>1. Written(<< p >>) /\ step' = 2 /\ UNCHANGED << pc, col, outcome >>
    BY <1>1, <1>2, <1>6, ChClean DEF HeadOut, loop
  <2>2. Sending(<< >>)
    BY <1>4, <1>6 DEF Heading
  <2>3. Held' = Held
    <3>1. down \in Seq(ToBridge)
      BY <1>1 DEF TInv, LineTyped, Item
    <3> QED
      BY <1>1, <1>5, <2>1, <3>1, HeldWritten DEF Written
  <2>4. ChSoFar(col)'
    BY <1>1, <1>4, <2>1, <2>3 DEF ChSoFar
  <2>5. HeadItems(op)' = HeadItems(op) /\ (Small(op) <=> Small(op)')
    BY <1>1, <2>1, OpSame
  <2>6. p' = p
    BY <2>5 DEF Packet
  <2>7. Sending(<< p >>)'
    <3>1. /\ up' = << >> /\ UNCHANGED << dev, First, CsLow, CsHigh, Stray, Idle >>
          /\ \/ /\ down' = << CsHigh >> \o (<< CsLow >> \o << p >>)
                /\ dev = Selected(dev.seen)
             \/ /\ down' = << CsLow >> \o << p >>
                /\ dev = Idle \/ (First /\ dev = Stray)
             \/ /\ down' = << p >>
                /\ \/ dev = Dev(IF Small(op) THEN "auto" ELSE "selected", 0, 0, << >>)
                   \/ First /\ dev = Dev("auto", 0, 0, << Bare("opcode of another run") >>)
      BY <1>1, <1>5, <2>1, <2>2, SendingMore
    <3> QED
      BY <2>5, <2>6, <3>1 DEF Sending, Selected, Dev, Bare
  <2>8. Heading'
    BY <1>4, <2>1, <2>4, <2>5, <2>7 DEF Heading
  <2> QED
    BY <1>1, <1>3, <2>1, <2>8 DEF ChAt, ChEnded
<1>7. CASE step = 2
  <2>1. \/ Receives("write", 1) /\ pc' = op.dir /\ step' = 0 /\ UNCHANGED << col, outcome >>
        \/ ReceiveFails("write", 1)
    BY <1>1, <1>2, <1>7, ChClean DEF HeadOut, loop
  <2>2. ~ (up = << >> /\ down = << >>) /\ ~ (up # << >> /\ ~ Fit("write", 1))
        /\ (up # << >> => /\ down = << >> /\ dev = Selected(HeadItems(op))
                          /\ up = << Reply("write", 1, << Stale >>) >>)
    <3>1. CASE Sending(<< p >>)
      BY <1>5, <3>1, SendingWaits
    <3>2. CASE /\ down = << >> /\ dev = Selected(HeadItems(op))
               /\ up = << Reply("write", 1, << Stale >>) >>
      <4>1. up # << >> /\ up[1] = Reply("write", 1, << Stale >>)
        BY <3>2
      <4>2. Fit("write", 1)
        BY <4>1 DEF Fit, Reply
      <4> QED
        BY <3>2, <4>1, <4>2
    <3> QED
      BY <1>4, <1>7, <3>1, <3>2 DEF Heading
  <2>3. /\ up # << >> /\ Taken(1) /\ pc' = dir /\ step' = 0 /\ UNCHANGED << col, outcome >>
    BY <1>1, <1>2, <2>1, <2>2, ChClean DEF Receives, Fit
  <2>4. down' = << >> /\ up' = << >> /\ dev' = Selected(HeadItems(op))
    BY <1>1, <2>2, <2>3, OneTaken DEF Taken
  <2>5. HeadItems(op)' = HeadItems(op) /\ Sent(op)' = Sent(op)
    BY <1>1, <2>3, OpSame
  <2>6. ChSoFar(col)'
    <3>1. Held = loaded /\ Held' = loaded'
      BY <2>2, <2>3, <2>4 DEF Held, Closing
    <3> QED
      BY <1>1, <1>4, <2>3, <3>1 DEF ChSoFar
  <2>7. CASE dir = "out"
    <3>1. dev' = Selected(HeadItems(op))'
      BY <2>4, <2>5 DEF Selected, Dev
    <3>2. Putting'
      BY <2>3, <2>4, <2>6, <3>1 DEF Putting
    <3> QED
      BY <1>1, <1>3, <2>3, <2>7, <3>2 DEF ChAt, ChEnded
  <2>8. CASE dir = "in"
    <3>1. Sent(op) = HeadItems(op)
      <4>1. DataOut(op) = << >>
        BY <1>1, <2>8 DEF DataOut
      <4> QED
        BY <1>1, <4>1, HeadPieces, ConcatEmptySeq DEF Sent
    <3>2. dev' = Selected(Sent(op))'
      BY <2>4, <2>5, <3>1 DEF Selected, Dev
    <3>3. Getting'
      BY <2>3, <2>4, <2>6, <3>2 DEF Getting
    <3> QED
      BY <1>1, <1>3, <2>3, <2>8, <3>3 DEF ChAt, ChEnded
  <2> QED
    BY <1>1, <2>7, <2>8
<1> QED
  BY <1>4, <1>6, <1>7 DEF Heading

LEMMA ChBodyOut == ASSUME HInv, TInv, Noted, ChInv, BodyOut PROVE ChInv'
<1> DEFINE p == Packet("write", DataOut(op), 0)
<1>1. /\ drv = "ch347" /\ pc = "out" /\ pc \in InOp /\ dir = "out"
      /\ UNCHANGED << drv, op, dir, page, buf, col, outcome, dev, loaded >>
  <2>1. drv = "ch347" /\ pc = "out" /\ pc \in InOp
        /\ UNCHANGED << drv, op, dir, page, buf, col, outcome, dev, loaded >>
    BY DEF BodyOut, call, loop, far, InOp, Deselecting
  <2> QED
    BY <2>1 DEF TInv, OpShape
<1>2. SUFFICES ASSUME glitch = "none", glitch' = "none" PROVE ChAt' /\ ChEnded'
  BY <1>1, ChOpStep DEF ChProgram
<1>3. ChAt /\ ChEnded
  BY <1>1, <1>2 DEF ChInv
<1>4. Putting /\ ChSoFar(col)
  BY <1>1, <1>3 DEF ChAt, Putting
<1>5. /\ HeadItems(op)' = HeadItems(op) /\ Sent(op)' = Sent(op) /\ DataOut(op)' = DataOut(op)
  BY <1>1, OpSame
<1>6. p # CsHigh
  BY ToBridgeIs
<1>7. CASE step = 0
  <2>1. Written(<< p >>) /\ step' = 1 /\ pc' = pc
    BY <1>1, <1>2, <1>7, ChClean DEF BodyOut
  <2>2. down = << >> /\ up = << >> /\ dev = Selected(HeadItems(op))
    BY <1>4, <1>7 DEF Putting
  <2>3. down' = << p >> /\ up' = << >>
    BY <2>1, <2>2, NothingAdded DEF Written
  <2>4. Held = loaded /\ Held' = loaded'
    <3>1. CsHigh' = CsHigh
      BY DEF CsHigh, SetCs
    <3> HIDE DEF p
    <3> QED
      BY <1>6, <2>2, <2>3, <3>1, OneTaken DEF Held, Closing
  <2>5. ChSoFar(col)'
    BY <1>1, <1>4, <2>4 DEF ChSoFar
  <2>6. down' = << p >>' /\ dev' = Selected(HeadItems(op))'
    BY <1>1, <1>5, <2>2, <2>3 DEF Packet, Selected, Dev
  <2>7. Putting'
    BY <2>1, <2>3, <2>5, <2>6 DEF Putting
  <2> QED
    BY <1>1, <1>3, <2>1, <2>7 DEF ChAt, ChEnded
<1>8. CASE step = 1
  <2>1. \/ Receives("write", 1) /\ pc' = "sent"
        \/ ReceiveFails("write", 1)
    BY <1>1, <1>2, <1>8, ChClean DEF BodyOut, Deselecting
  <2>2. ~ (up = << >> /\ down = << >>) /\ ~ (up # << >> /\ ~ Fit("write", 1))
        /\ (up # << >> => /\ down = << >> /\ dev = Selected(Sent(op))
                          /\ up = << Reply("write", 1, << Stale >>) >>)
    <3>1. CASE down = << p >> /\ up = << >>
      BY <3>1, OneTaken
    <3>2. CASE /\ down = << >> /\ dev = Selected(Sent(op))
               /\ up = << Reply("write", 1, << Stale >>) >>
      <4>1. up # << >> /\ up[1] = Reply("write", 1, << Stale >>)
        BY <3>2
      <4>2. Fit("write", 1)
        BY <4>1 DEF Fit, Reply
      <4> QED
        BY <3>2, <4>1, <4>2
    <3> QED
      BY <1>4, <1>8, <3>1, <3>2 DEF Putting
  <2>3. up # << >> /\ Taken(1) /\ pc' = "sent"
    BY <1>1, <1>2, <2>1, <2>2, ChClean DEF Receives, Fit
  <2>4. down' = << >> /\ up' = << >>
    BY <2>2, <2>3, OneTaken DEF Taken
  <2>5. dev' = Selected(Sent(op))'
    BY <1>1, <1>5, <2>2, <2>3 DEF Selected, Dev
  <2>6. ChSoFar(col)'
    <3>1. Held = loaded /\ Held' = loaded'
      BY <2>2, <2>3, <2>4 DEF Held, Closing
    <3> QED
      BY <1>1, <1>4, <3>1 DEF ChSoFar
  <2>7. (ChSoFar(IF dir = "in" THEN col + op.data.nbytes ELSE col))'
    BY <1>1, <2>6
  <2> QED
    BY <1>1, <1>3, <2>3, <2>4, <2>5, <2>7 DEF ChAt, ChEnded
<1> QED
  BY <1>4, <1>7, <1>8 DEF Putting
-----------------------------------------------------------------------------
LEMMA ChExchangeIn == ASSUME HInv, TInv, Noted, ChInv, ExchangeIn PROVE ChInv'
<1> DEFINE all == Reply("trx", TrxLen(op), DataIn(0))
<1>1. /\ drv = "ch347" /\ pc = "exchange" /\ pc \in InOp /\ step = 2
      /\ UNCHANGED << drv, op, dir, page, dev, loaded >>
  BY DEF ExchangeIn, far, InOp, TInv, OwnStates
<1>2. SUFFICES ASSUME glitch = "none", glitch' = "none" PROVE ChAt' /\ ChEnded'
  BY <1>1, ChOpStep DEF ChProgram
<1>3. ChAt /\ ChEnded
  BY <1>1, <1>2 DEF ChInv
<1>4. /\ op.data.nbytes \in Nat /\ col \in Nat /\ op.dir = dir /\ TrxLen(op) \in Nat
      /\ dir = "in" => RdLen(op) = op.data.nbytes
      /\ RdLen(op) \in Nat
  BY <1>1, OpFacts DEF TInv, Looping, TrxLen, Head1, RdLen
<1>5. ~ (up = << >> /\ down = << >>) /\ ~ (up # << >> /\ ~ Fit("trx", TrxLen(op)))
      /\ (up # << >> => /\ down = << >> /\ dev = Idle /\ up = << all >>
                        /\ ChSoFar(IF dir = "out" THEN col + op.data.nbytes ELSE col))
  <2>1. CASE Sending(<< Whole1(op) >>)
    <3>1. Whole1(op) \in ToBridge
      <4>1. Whole1(op) = Packet("trx", Sent(op), RdLen(op))
        BY DEF Whole1, Sent
      <4> QED
        BY <1>1, <1>4, <4>1, SentIs, ToBridgeIs DEF Cmds
    <3> QED
      BY <2>1, <3>1, SendingWaits
  <2>2. CASE /\ down = << >> /\ dev = Idle /\ up = << all >>
             /\ ChSoFar(IF dir = "out" THEN col + op.data.nbytes ELSE col)
    <3>1. up # << >> /\ up[1] = all
      BY <2>2
    <3>2. Fit("trx", TrxLen(op))
      BY <1>4, <3>1 DEF Fit, Reply
    <3> QED
      BY <2>2, <3>1, <3>2
  <2>3. Exchanging
    BY <1>1, <1>3 DEF ChAt
  <2> QED
    BY <1>1, <2>1, <2>2, <2>3 DEF Exchanging
<1>6. ~ ReceiveFails("trx", TrxLen(op))
  BY <1>1, <1>2, <1>5, ChClean
<1>7. up # << >>
  BY <1>1, <1>6 DEF ExchangeIn, Receives, Fit
<1>8. /\ down = << >> /\ dev = Idle /\ up = << all >>
      /\ ChSoFar(IF dir = "out" THEN col + op.data.nbytes ELSE col)
  BY <1>5, <1>7
<1>9. up[1].n = TrxLen(op) /\ up[1].data = DataIn(0)
  BY <1>8 DEF Reply
<1>10. Taken(1) /\ Return(0) /\ buf' = Filled(col, DataIn(0))
  BY <1>4, <1>6, <1>9 DEF ExchangeIn, Receives
<1>11. down' = << >> /\ up' = << >> /\ dev' = Idle
  BY <1>1, <1>8, <1>10, OneTaken DEF Taken, Idle, Dev
<1>12. Quiet'
  BY <1>11 DEF Quiet, Idle, Dev
<1>13. CASE dir = "none"
  <2>1. pc' = "idle" /\ outcome' = "done"
    BY <1>1, <1>10, <1>13, Returns
  <2> QED
    BY <1>1, <1>12, <1>13, <2>1 DEF ChAt, ChEnded
<1>14. CASE dir # "none"
  <2>1. pc' = "part" /\ col' = col + op.data.nbytes /\ outcome' = outcome
    BY <1>1, <1>10, <1>14, Returns
  <2>2. Held = loaded /\ Held' = loaded'
    BY <1>8, <1>11 DEF Held, Closing
  <2>3. ASSUME dir = "in", NEW c \in Columns, c < col + op.data.nbytes
        PROVE  buf'[c] = << page, c >>
    <3>1. /\ DataIn(0) \in Seq(Value) /\ Len(DataIn(0)) = op.data.nbytes
          /\ \A k \in 1 .. op.data.nbytes : DataIn(0)[k] = << page, col + 0 + k - 1 >>
      <4>1. 0 + 0 <= RdLen(op) /\ RdLen(op) - 0 = op.data.nbytes
        BY <1>4, <2>3
      <4> QED
        BY <1>1, <4>1, DataInIs
    <3>2. \A k \in 1 .. Len(DataIn(0)) : DataIn(0)[k] = << page, col + k - 1 >>
      <4> TAKE k \in 1 .. Len(DataIn(0))
      <4>1. col + 0 + k - 1 = col + k - 1
        BY <1>4, <3>1
      <4> QED
        BY <3>1, <4>1
    <3>3. \A d \in Columns : d < col => buf[d] = << page, d >>
      BY <1>8, <2>3 DEF ChSoFar
    <3> QED
      BY <1>4, <1>10, <2>3, <3>1, <3>2, <3>3, FillsUp
  <2>4. ASSUME dir = "out", NEW c \in Columns, c < col + op.data.nbytes
        PROVE  loaded'[c] = << page, c >>
    BY <1>1, <1>8, <2>2, <2>4 DEF ChSoFar
  <2>5. ChSoFar(col)'
    BY <1>1, <2>1, <2>2, <2>3, <2>4 DEF ChSoFar
  <2> QED
    BY <1>3, <1>12, <2>1, <2>5, <1>1 DEF ChAt, ChEnded, Noted
<1> QED
  BY <1>13, <1>14

LEMMA ChBodyIn == ASSUME HInv, TInv, Noted, ChInv, BodyIn PROVE ChInv'
<1> DEFINE p == Packet("read", << >>, op.data.nbytes)
           at == step - 1
           v == DataIn(at)
           n == op.data.nbytes
           left1 == op.data.nbytes - (step - 1)
<1>1. /\ drv = "ch347" /\ pc = "in" /\ pc \in InOp /\ dir = "in"
      /\ UNCHANGED << drv, op, dir, page, col, outcome, dev, loaded >>
  <2>1. drv = "ch347" /\ pc = "in" /\ pc \in InOp
        /\ UNCHANGED << drv, op, dir, page, col, outcome, dev, loaded >>
    BY DEF BodyIn, call, loop, far, InOp, Deselecting
  <2> QED
    BY <2>1 DEF TInv, OpShape
<1>2. SUFFICES ASSUME glitch = "none", glitch' = "none" PROVE ChAt' /\ ChEnded'
  BY <1>1, ChOpStep DEF ChProgram
<1>3. ChAt /\ ChEnded
  BY <1>1, <1>2 DEF ChInv
<1>4. Getting /\ dev = Selected(Sent(op))
  BY <1>1, <1>3 DEF ChAt, Getting
<1>5. /\ HeadItems(op)' = HeadItems(op) /\ Sent(op)' = Sent(op) /\ RdLen(op)' = RdLen(op)
  BY <1>1, OpSame
<1>6. dev' = Selected(Sent(op))'
  BY <1>1, <1>4, <1>5 DEF Selected, Dev
<1>7. /\ n \in Nat /\ n > 0 /\ RdLen(op) = n /\ col \in Nat /\ step \in Nat
  <2>1. op.dir = dir /\ n \in Nat
    BY <1>1, OpFacts DEF TInv, Looping
  <2>2. n = 0 <=> dir = "none"
    BY <1>1 DEF TInv, OpShape
  <2> QED
    BY <1>1, <2>1, <2>2 DEF RdLen, TInv, Looping
<1>8. CASE step = 0
  <2>1. Written(<< p >>) /\ step' = 1 /\ pc' = pc /\ buf' = buf
    BY <1>1, <1>2, <1>8, ChClean DEF BodyIn
  <2>2. down = << >> /\ up = << >> /\ ChSoFar(col)
    BY <1>4, <1>8 DEF Getting
  <2>3. down' = << p >> /\ up' = << >>
    BY <2>1, <2>2, NothingAdded DEF Written
  <2>4. Held = loaded /\ Held' = loaded'
    <3>1. CsHigh' = CsHigh /\ p # CsHigh
      BY ToBridgeIs DEF CsHigh, SetCs
    <3> HIDE DEF p
    <3> QED
      BY <2>2, <2>3, <3>1, OneTaken DEF Held, Closing
  <2>5. (ChSoFar(col + (step - 1)))'
    <3>1. col' + (step' - 1) = col
      BY <1>1, <1>7, <2>1
    <3> QED
      BY <1>1, <2>1, <2>2, <2>4, <3>1 DEF ChSoFar
  <2>6. down' = << p >>' /\ step' - 1 < n'
    BY <1>1, <1>7, <2>1, <2>3 DEF Packet
  <2>7. Getting'
    BY <1>6, <2>1, <2>3, <2>5, <2>6 DEF Getting
  <2> QED
    BY <1>1, <1>3, <2>1, <2>7 DEF ChAt, ChEnded
<1>9. CASE step > 0
  <2>1. at \in Nat /\ at < n /\ ChSoFar(col + at)
        /\ ((down = << p >> /\ up = << >>) \/ (down = << >> /\ Coming(at)))
    BY <1>4, <1>7, <1>9 DEF Getting
  <2>2. /\ v \in Seq(Value) /\ Len(v) = left1 /\ left1 \in Nat
        /\ \A k \in 1 .. left1 : v[k] = << page, col + at + k - 1 >>
    <3>1. at + 0 <= RdLen(op) /\ RdLen(op) - at = left1 /\ left1 \in Nat
      BY <1>7, <2>1
    <3> HIDE DEF at, left1
    <3> QED
      BY <1>1, <2>1, <3>1, DataInIs
  <2>3. ASSUME up # << >>
        PROVE  /\ down = << >>
               /\ \/ up = << Reply("read", left1, v) >>
                  \/ \E k \in 1 .. left1 - 1 :
                        up = << Reply("read", k, SubSeq(v, 1, k)),
                                Reply("read", left1 - k, SubSeq(v, k + 1, left1)) >>
    <3>1. down = << >> /\ Coming(at)
      BY <2>1, <2>3
    <3> QED
      BY <2>2, <3>1 DEF Coming
  <2> HIDE DEF at, v, p, left1
  <2>4. ~ (up = << >> /\ down = << >>) /\ ~ (up # << >> /\ ~ Fit("read", left1))
    <3>1. up # << >> => up[1].t = "reply" /\ up[1].cmd = "read" /\ up[1].n <= left1
      <4>1. CASE up = << Reply("read", left1, v) >>
        <5>1. up[1] = Reply("read", left1, v)
          BY <4>1
        <5> QED
          BY <2>2, <5>1 DEF Reply
      <4>2. ASSUME NEW k \in 1 .. left1 - 1,
                   up = << Reply("read", k, SubSeq(v, 1, k)),
                           Reply("read", left1 - k, SubSeq(v, k + 1, left1)) >>
            PROVE  up[1].t = "reply" /\ up[1].cmd = "read" /\ up[1].n <= left1
        <5>1. up[1] = Reply("read", k, SubSeq(v, 1, k))
          BY <4>2
        <5> QED
          BY <2>2, <5>1 DEF Reply
      <4> QED
        BY <2>3, <4>1, <4>2
    <3>2. up = << >> => down # << >>
      <4>1. ~ Coming(at) \/ up # << >>
        BY OneTaken, TwoTaken DEF Coming
      <4> QED
        BY <2>1, <4>1, OneTaken
    <3> QED
      BY <3>1, <3>2 DEF Fit
  <2>5. ~ ReceiveFails("read", left1)
    BY <1>1, <1>2, <2>4, ChClean
  <2>6. /\ up # << >> /\ Taken(1) /\ buf' = Filled(col + step - 1, up[1].data)
        /\ step' = step + up[1].n
        /\ IF up[1].n = left1 THEN pc' = "sent" ELSE pc' = pc
    BY <1>2, <1>7, <1>9, <2>5, ChClean DEF BodyIn, Receives, Fit, Deselecting, left1
  <2>7. down' = << >> /\ up' = SubSeq(up, 2, Len(up)) /\ down = << >>
    BY <2>3, <2>6 DEF Taken
  <2>8. Held = loaded /\ Held' = loaded'
    BY <2>7 DEF Held, Closing
  <2>9. col + step - 1 = col + at /\ col + at \in Nat /\ at = step - 1
        /\ left1 = n - at
    BY <1>7, <2>1 DEF at, left1
  <2>10. ASSUME NEW values \in Seq(Value), Len(values) <= left1,
                \A k \in 1 .. Len(values) : values[k] = v[k],
                up[1].data = values
         PROVE  \A c \in Columns : c < col + at + Len(values) => buf'[c] = << page, c >>
    <3> DEFINE from == col + at
    <3>1. \A k \in 1 .. Len(values) : values[k] = << page, from + k - 1 >>
      <4> TAKE k \in 1 .. Len(values)
      <4>1. k \in 1 .. left1 /\ Len(values) \in Nat
        BY <2>2, <2>10
      <4> QED
        BY <2>2, <2>10, <4>1
    <3>2. \A c \in Columns : c < from => buf[c] = << page, c >>
      BY <1>1, <2>1 DEF ChSoFar
    <3>3. buf' = Filled(from, values) /\ from \in Nat
      BY <2>6, <2>9, <2>10
    <3> HIDE DEF from
    <3>4. \A c \in Columns : c < from + Len(values) => buf'[c] = << page, c >>
      BY <3>1, <3>2, <3>3, FillsUp
    <3> QED
      BY <3>4 DEF from
  <2>11. CASE up = << Reply("read", left1, v) >>
    <3>1. up[1].data = v /\ up[1].n = left1 /\ up' = << >>
      <4>1. up[1] = Reply("read", left1, v)
        BY <2>11
      <4> QED
        BY <2>7, <2>11, <4>1, OneTaken DEF Reply
    <3>2. \A c \in Columns : c < col + at + left1 => buf'[c] = << page, c >>
      BY <2>2, <2>10, <3>1
    <3>3. col + at + left1 = col + n
      BY <1>7, <2>9
    <3>4. (ChSoFar(IF dir = "in" THEN col + op.data.nbytes ELSE col))'
      BY <1>1, <3>2, <3>3 DEF ChSoFar
    <3> QED
      BY <1>1, <1>3, <1>6, <2>6, <2>7, <3>1, <3>4 DEF ChAt, ChEnded
  <2>12. ASSUME NEW k \in 1 .. left1 - 1,
                up = << Reply("read", k, SubSeq(v, 1, k)),
                        Reply("read", left1 - k, SubSeq(v, k + 1, left1)) >>
         PROVE  ChAt' /\ ChEnded'
    <3> DEFINE b == Reply("read", left1 - k, SubSeq(v, k + 1, left1))
               head == SubSeq(v, 1, k)
    <3>1. up[1] = Reply("read", k, head) /\ up' = << b >>
      <4>1. Len(up) = 2 /\ up[1] = Reply("read", k, head)
        BY <2>12
      <4> QED
        BY <2>7, <2>12, <4>1, SecondLeft
    <3>2. up[1].data = head /\ up[1].n = k /\ k # left1 /\ k \in Nat
      BY <2>2, <3>1 DEF Reply
    <3>3. head \in Seq(Value) /\ Len(head) = k /\ \A i \in 1 .. k : head[i] = v[i]
      BY <2>2, <3>2, SubSeqProperties
    <3>4. \A c \in Columns : c < col + at + k => buf'[c] = << page, c >>
      <4> HIDE DEF head
      <4> QED
        BY <2>2, <2>10, <3>2, <3>3
    <3>5. pc' = pc /\ step' = step + k /\ step' - 1 = at + k /\ step' > 0 /\ at + k < n
      BY <1>7, <2>1, <2>2, <2>6, <2>9, <3>2
    <3>6. /\ SubSeq(v, k + 1, left1) = DataIn(at + k) /\ Len(DataIn(at + k)) = left1 - k
      <4>1. at + k <= RdLen(op) /\ at \in Nat /\ k \in Nat
        BY <1>7, <2>1, <3>2, <3>5
      <4>2. SubSeq(DataIn(at), k + 1, Len(DataIn(at))) = DataIn(at + k)
        BY <1>1, <4>1, DataInIs
      <4>3. (at + k) + 0 <= RdLen(op) /\ at + k \in Nat
        BY <1>7, <4>1
      <4>4. Len(DataIn(at + k)) = RdLen(op) - (at + k)
        BY <1>1, <4>3, DataInIs
      <4>5. RdLen(op) - (at + k) = left1 - k
        BY <1>7, <2>1, <2>9, <3>2
      <4> QED
        BY <2>2, <4>2, <4>4, <4>5 DEF v
    <3>7. up' = << Reply("read", Len(DataIn(at + k)), DataIn(at + k)) >>
      BY <3>1, <3>6
    <3>8. DataIn(step - 1)' = DataIn(at + k)
      BY <1>1, <1>5, <3>5 DEF DataIn
    <3>9. Coming(step - 1)'
      BY <3>7, <3>8 DEF Coming, Reply
    <3>10. (ChSoFar(col + (step - 1)))'
      <4>1. col' + (step' - 1) = col + at + k
        BY <1>1, <1>7, <2>1, <3>2, <3>5
      <4> QED
        BY <1>1, <3>4, <4>1 DEF ChSoFar
    <3>11. Getting'
      BY <1>1, <1>6, <2>7, <3>5, <3>9, <3>10 DEF Getting
    <3> QED
      BY <1>1, <1>3, <3>5, <3>11 DEF ChAt, ChEnded
  <2> QED
    BY <2>3, <2>6, <2>11, <2>12
<1> QED
  BY <1>7, <1>8, <1>9

LEMMA ChDeselect == ASSUME HInv, TInv, Noted, ChInv, Deselect PROVE ChInv'
<1>1. /\ drv = "ch347" /\ pc \in {"sent", "broken"} /\ pc \in InOp
      /\ UNCHANGED << drv, op, dir, page, buf, dev, loaded >>
      /\ ChipSelect(CsHigh)
  BY DEF Deselect, call, far, InOp, TInv, OwnStates, CsHigh
<1>2. SUFFICES ASSUME glitch = "none", glitch' = "none" PROVE ChAt' /\ ChEnded'
  BY <1>1, ChOpStep DEF ChProgram
<1>3. ChAt /\ ChEnded
  BY <1>1, <1>2 DEF ChInv
<1>4. /\ pc = "sent" /\ down = << >> /\ up = << >> /\ dev = Selected(Sent(op))
      /\ ChSoFar(IF dir = "in" THEN col + op.data.nbytes ELSE col)
  BY <1>1, <1>3 DEF ChAt
<1>5. Return(0)
  BY <1>4 DEF Deselect
<1>6. down' = << CsHigh >> /\ up' = << >>
  BY <1>1, <1>2, <1>4, ChClean, NothingAdded DEF Written
<1>7. dev.seen = Sent(op) /\ dev = Selected(dev.seen)
  BY <1>4 DEF Selected, Dev
<1>8. CsHigh' = CsHigh
  BY DEF CsHigh, SetCs
<1>9. Quiet'
  BY <1>1, <1>6, <1>7, <1>8 DEF Quiet, Selected, Dev
<1>10. CASE dir = "none"
  <2>1. pc' = "idle" /\ outcome' = "done"
    BY <1>1, <1>5, <1>10, Returns
  <2> QED
    BY <1>1, <1>9, <1>10, <2>1 DEF ChAt, ChEnded
<1>11. CASE dir # "none"
  <2>1. pc' = "part" /\ col' = col + op.data.nbytes /\ outcome' = outcome
    BY <1>1, <1>5, <1>11, Returns
  <2>2. Held = loaded
    BY <1>4 DEF Held, Closing
  <2>3. Held' = ChipLoads(Sent(op), 1)
    <3>1. Held' = ChipLoads(dev.seen, 1)'
      BY <1>6, <1>8, OneTaken DEF Held, Closing
    <3>2. ChipLoads(dev.seen, 1)' = ChipLoads(dev.seen, 1)
      BY <1>1 DEF ChipLoads, Is, Column
    <3> QED
      BY <1>7, <3>1, <3>2
  <2>4. ASSUME dir = "out", NEW c \in Columns, c < col + op.data.nbytes
        PROVE  Held'[c] = << page, c >>
    <3>1. SoFar(col) /\ Wires = 1
      BY <1>1, <1>4, <2>2, <2>4 DEF ChSoFar, SoFar, Wires
    <3> QED
      BY <1>1, <2>3, <2>4, <3>1, Loads
  <2>5. ASSUME dir = "in", NEW c \in Columns, c < col + op.data.nbytes
        PROVE  buf'[c] = << page, c >>
    BY <1>1, <1>4, <2>5 DEF ChSoFar
  <2>6. ChSoFar(col)'
    BY <1>1, <2>1, <2>4, <2>5 DEF ChSoFar
  <2> QED
    BY <1>1, <1>3, <1>9, <2>1, <2>6 DEF ChAt, ChEnded
<1> QED
  BY <1>10, <1>11

LEMMA ChStarts == DrvsInit => Noted /\ ChInv
<1> SUFFICES ASSUME DrvsInit PROVE Noted /\ ChInv
  OBVIOUS
<1>1. pc = "open" /\ down = << >> /\ outcome = "none" /\ drv \in Drvs
  BY DEF DrvsInit, Init
<1>2. drv # "serprog" => glitch # "now"
  <2>1. drv = "ch347" => ChInit
    BY DEF DrvsInit
  <2>2. drv = "fx2qspi" => FxInit
    BY DEF DrvsInit
  <2> QED
    BY <1>1, <2>1, <2>2, DriverNames DEF ChInit, FxInit
<1>3. ASSUME drv = "ch347" PROVE Waiting
  <2>1. ChInit
    BY <1>3 DEF DrvsInit
  <2> QED
    BY <1>1, <2>1 DEF ChInit, Waiting, Clean, Stray, Old
<1> QED
  BY <1>1, <1>2, <1>3 DEF Noted, ChInv, ChAt, ChEnded

LEMMA ChStep == ASSUME HInv, TInv, Noted, ChInv, [Next]_vars PROVE ChInv'
<1>1. CASE drv # "ch347"
  BY <1>1, Remembered DEF ChInv
<1>2. CASE drv = "ch347" /\ Next
  <2>1. ~ SerProgram /\ ~ FxProgram /\ ~ Programmer /\ ~ Firmware
    BY <1>2, NotTheOthers
  <2>2. CASE ChProgram
    BY <2>2, ChSetting, ChSelect, ChExchangeOut, ChExchangeIn, ChHeadOut, ChBodyOut,
       ChBodyIn, ChDeselect DEF ChProgram
  <2> QED
    BY <1>2, <2>1, <2>2, ChCommon, ChBridge DEF Next, Program, Device
<1>3. CASE UNCHANGED vars
  <2>1. /\ UNCHANGED << drv, glitch, pc, step, down, up, dev, op, page, col, dir, buf >>
        /\ UNCHANGED << loaded, outcome >>
    BY <1>3 DEF vars
  <2>2. /\ HeadItems(op)' = HeadItems(op) /\ DataOut(op)' = DataOut(op)
        /\ Sent(op)' = Sent(op) /\ Whole1(op)' = Whole1(op) /\ TrxLen(op)' = TrxLen(op)
        /\ (Small(op) <=> Small(op)') /\ CsLow' = CsLow /\ CsHigh' = CsHigh
        /\ \A i : DataIn(i)' = DataIn(i)
    BY <2>1, OpSame DEF CsHigh, SetCs
  <2>3. \A cmd, n, v : Reply(cmd, n, v)' = Reply(cmd, n, v)
    BY DEF Reply
  <2>4. Held' = Held
    BY <2>1, <2>2 DEF Held, Closing, ChipLoads, Is, Column
  <2>5. \A n : ChSoFar(n)' <=> ChSoFar(n)
    BY <2>1, <2>4 DEF ChSoFar
  <2>6. (Waiting => Waiting') /\ (Asked => Asked')
    <3>1. Old' = Old /\ Stray' = Stray /\ Idle' = Idle /\ Lost' = Lost
      BY <2>1 DEF Old, Stray, Idle, Lost, Selected, Dev, Reply
    <3> QED
      BY <2>1, <3>1 DEF Waiting, Clean, Asked, Ours, Packet, Reply
  <2>7. (Informing => Informing') /\ (Behind => Behind')
    BY <2>1, <2>6 DEF Informing, Behind, Clean, Old, Stray, Idle, Lost, Selected, Dev,
       Packet, Reply
  <2>8. Configuring => Configuring'
    BY <2>1, <2>6, <2>7 DEF Configuring, Clean, Stray, Idle, Selected, Dev
  <2>9. Quiet => Quiet'
    BY <2>1, <2>2 DEF Quiet, Idle, Selected, Dev
  <2>10. \A packets : Sending(packets) => Sending(packets)'
    BY <2>1, <2>2 DEF Sending, First, Stray, Idle, Selected, Dev
  <2>11. Exchanging => Exchanging'
    BY <2>1, <2>2, <2>5, <2>10 DEF Exchanging
  <2>12. Heading => Heading'
    BY <2>1, <2>2, <2>5, <2>10 DEF Heading
  <2>13. Putting => Putting'
    BY <2>1, <2>2, <2>5 DEF Putting
  <2>14. Getting => Getting'
    <3>1. \A n : Coming(n) => Coming(n)'
      BY <2>1, <2>2 DEF Coming, Reply
    <3>2. Coming(step - 1) => Coming(step - 1)'
      BY <2>1, <3>1 DEF Coming
    <3>3. dev = Selected(Sent(op)) => (dev = Selected(Sent(op)))'
      BY <2>1, <2>2 DEF Selected, Dev
    <3> QED
      BY <2>1, <2>5, <3>2, <3>3 DEF Getting, Packet
  <2>15. ChAt => ChAt'
    BY <2>1, <2>2, <2>5, <2>6, <2>7, <2>8, <2>9, <2>11, <2>12, <2>13, <2>14 DEF ChAt, First
  <2>16. ChEnded => ChEnded'
    BY <2>1, <2>5, <2>9 DEF ChEnded
  <2> QED
    BY <2>1, <2>15, <2>16 DEF ChInv
<1> QED
  BY <1>1, <1>2, <1>3

LEMMA ChShows ==
    ASSUME TInv, Noted, ChInv, drv = "ch347"
    PROVE  InSync /\ PageWhole /\ OnlyRefusalsFail
<1>1. /\ glitch \in Glitches
      /\ glitch = "none" => ChAt /\ ChEnded
  BY DEF ChInv, TInv, FarTyped
<1>2. InSync
  <2>1. ASSUME pc = "idle", glitch = "none"
        PROVE  up = << >> /\ (down = << >> => dev = Idle \/ page = 0)
    <3>1. Quiet \/ (page = 0 /\ down = << >> /\ up = << >> /\ dev = Stray)
      BY <1>1, <2>1 DEF ChAt
    <3>2. << CsHigh >> # << >>
      BY OneTaken
    <3> QED
      BY <3>1, <3>2 DEF Quiet
  <2> QED
    BY <2>1 DEF InSync
<1>3. ASSUME outcome = "done", glitch \in {"none", "now"}
      PROVE  (dir = "in" => buf = Whole) /\ (dir = "out" /\ down = << >> => loaded = Whole)
  <2>1. buf \in [ Columns -> Value ] /\ loaded \in [ Columns -> Value ]
    BY DEF TInv, FarTyped
  <2>2. glitch = "none"
    BY <1>1, <1>3 DEF Noted
  <2>3. dir # "none" => ChSoFar(Bytes)
    BY <1>1, <1>3, <2>2 DEF ChEnded
  <2>4. down = << >> => Held = loaded
    BY DEF Held, Closing
  <2>5. ASSUME dir = "in" PROVE buf = Whole
    <3>1. \A c \in Columns : c < Bytes => buf[c] = << page, c >>
      BY <2>3, <2>5 DEF ChSoFar
    <3> QED
      BY <2>1, <3>1, AllIsWhole
  <2>6. ASSUME dir = "out", down = << >> PROVE loaded = Whole
    <3>1. \A c \in Columns : c < Bytes => loaded[c] = << page, c >>
      BY <2>3, <2>4, <2>6 DEF ChSoFar
    <3> QED
      BY <2>1, <3>1, AllIsWhole
  <2> QED
    BY <2>5, <2>6
<1> QED
  BY <1>1, <1>2, <1>3 DEF PageWhole, OnlyRefusalsFail, ChEnded
-----------------------------------------------------------------------------
(* fx2qspi.  Nothing is answered but reads, so that whole operations may   *)
(* be on their way to the firmware.  What it makes of one item that it     *)
(* does not answer, with what the chip holds before and after.             *)
LoadsOnto(l, seen, wires) ==
    IF ~ Is(seen, "out", wires) THEN l
    ELSE [ c \in Columns |->
             LET k == 3 + c - Column(seen)
             IN  IF k \in 3 .. Len(seen) /\ seen[k].t = "byte"
                 THEN seen[k].v ELSE l[c] ]

Moves(d, l, x, e, m) ==
    LET need == d.need - LengthOf(<< x >>)
    IN  \/ /\ d.mode = "out" /\ x.t # "phase" /\ need >= 0
           /\ e = Dev(IF need = 0 THEN "idle" ELSE "out", need, d.rd, Append(d.seen, x))
           /\ m = l
        \/ /\ d.mode = "idle" /\ x.t = "phase" /\ ~ x.reads /\ x.len > 0
           /\ e = Dev("out", x.len, x.wires, d.seen) /\ m = l
        \/ /\ d.mode = "idle" /\ x.t = "zero"
           /\ e = Idle /\ m = LoadsOnto(l, d.seen, d.rd)

(* From the firmware in d and the chip in l, the items lead to e and m.    *)
Leads(d, l, items, e, m) ==
    \E f, g : /\ f[0] = d /\ g[0] = l
              /\ f[Len(items)] = e /\ g[Len(items)] = m
              /\ \A i \in 1 .. Len(items) : Moves(f[i - 1], g[i - 1], items[i], f[i], g[i])
-----------------------------------------------------------------------------
LEMMA LeadsNowhere == \A d, l, e, m : Leads(d, l, << >>, e, m) <=> d = e /\ l = m
<1> TAKE d, l, e, m
<1>1. ASSUME Leads(d, l, << >>, e, m) PROVE d = e /\ l = m
  BY <1>1 DEF Leads
<1>2. ASSUME d = e, l = m PROVE Leads(d, l, << >>, e, m)
  <2> DEFINE f == [ i \in {0} |-> d ]
             g == [ i \in {0} |-> l ]
  <2>1. f[0] = d /\ g[0] = l
    OBVIOUS
  <2>2. Len(<< >>) = 0 /\ 1 .. 0 = {}
    OBVIOUS
  <2> HIDE DEF f, g
  <2> QED
    BY <1>2, <2>1, <2>2 DEF Leads
<1> QED
  BY <1>1, <1>2

LEMMA LeadsOne == \A d, l, x, e, m : Moves(d, l, x, e, m) => Leads(d, l, << x >>, e, m)
<1> SUFFICES ASSUME NEW d, NEW l, NEW x, NEW e, NEW m, Moves(d, l, x, e, m)
             PROVE  Leads(d, l, << x >>, e, m)
  OBVIOUS
<1> DEFINE f == [ i \in 0 .. 1 |-> IF i = 0 THEN d ELSE e ]
           g == [ i \in 0 .. 1 |-> IF i = 0 THEN l ELSE m ]
<1>1. f[0] = d /\ g[0] = l /\ f[1] = e /\ g[1] = m
  OBVIOUS
<1>2. Len(<< x >>) = 1 /\ << x >>[1] = x
  OBVIOUS
<1> HIDE DEF f, g
<1>3. ASSUME NEW i \in 1 .. 1 PROVE Moves(f[i - 1], g[i - 1], << x >>[i], f[i], g[i])
  <2>1. i = 1 /\ i - 1 = 0
    OBVIOUS
  <2> QED
    BY <1>1, <1>2, <2>1
<1> QED
  BY <1>1, <1>2, <1>3 DEF Leads

LEMMA LeadsOn ==
    ASSUME NEW S, NEW a \in Seq(S), NEW b \in Seq(S)
    PROVE  \A d, l, e, m, h, k : Leads(d, l, a, e, m) /\ Leads(e, m, b, h, k)
              => Leads(d, l, a \o b, h, k)
<1> SUFFICES ASSUME NEW d, NEW l, NEW e, NEW m, NEW h, NEW k,
                    Leads(d, l, a, e, m), Leads(e, m, b, h, k)
             PROVE  Leads(d, l, a \o b, h, k)
  OBVIOUS
<1>1. PICK f, g : /\ f[0] = d /\ g[0] = l /\ f[Len(a)] = e /\ g[Len(a)] = m
                  /\ \A i \in 1 .. Len(a) : Moves(f[i - 1], g[i - 1], a[i], f[i], g[i])
  BY Zenon DEF Leads
<1>2. PICK p, q : /\ p[0] = e /\ q[0] = m /\ p[Len(b)] = h /\ q[Len(b)] = k
                  /\ \A i \in 1 .. Len(b) : Moves(p[i - 1], q[i - 1], b[i], p[i], q[i])
  BY Zenon DEF Leads
<1>3. /\ Len(a) \in Nat /\ Len(b) \in Nat /\ Len(a \o b) = Len(a) + Len(b)
      /\ \A i \in 1 .. Len(a) + Len(b) : (a \o b)[i] = IF i <= Len(a) THEN a[i] ELSE b[i - Len(a)]
  BY ConcatProperties
<1> DEFINE n == Len(a)
           all == n + Len(b)
           u == [ i \in 0 .. all |-> IF i <= n THEN f[i] ELSE p[i - n] ]
           v == [ i \in 0 .. all |-> IF i <= n THEN g[i] ELSE q[i - n] ]
<1>4. \A i \in 0 .. all : /\ i <= n => u[i] = f[i] /\ v[i] = g[i]
                          /\ i >= n => u[i] = p[i - n] /\ v[i] = q[i - n]
  <2> SUFFICES ASSUME NEW i \in 0 .. all
               PROVE  /\ i <= n => u[i] = f[i] /\ v[i] = g[i]
                      /\ i >= n => u[i] = p[i - n] /\ v[i] = q[i - n]
    OBVIOUS
  <2>1. u[i] = (IF i <= n THEN f[i] ELSE p[i - n]) /\ v[i] = (IF i <= n THEN g[i] ELSE q[i - n])
    OBVIOUS
  <2>2. i = n => i - n = 0
    BY <1>3
  <2>3. f[n] = p[0] /\ g[n] = q[0]
    BY <1>1, <1>2
  <2> HIDE DEF u, v
  <2>4. i >= n => i = n \/ ~ (i <= n)
    BY <1>3
  <2> QED
    BY <2>1, <2>2, <2>3, <2>4
<1> HIDE DEF u, v
<1>5. u[0] = d /\ v[0] = l /\ u[all] = h /\ v[all] = k
  <2>1. 0 \in 0 .. all /\ 0 <= n /\ all \in 0 .. all /\ all >= n /\ all - n = Len(b)
    BY <1>3
  <2> QED
    BY <1>1, <1>2, <1>4, <2>1
<1>6. ASSUME NEW i \in 1 .. all
      PROVE  Moves(u[i - 1], v[i - 1], (a \o b)[i], u[i], v[i])
  <2>1. CASE i <= n
    <3>1. i \in 1 .. n /\ i - 1 \in 0 .. all /\ i \in 0 .. all /\ i - 1 <= n
      BY <1>3, <2>1
    <3>2. (a \o b)[i] = a[i]
      BY <1>3, <2>1
    <3> QED
      BY <1>1, <1>4, <2>1, <3>1, <3>2
  <2>2. CASE ~ (i <= n)
    <3> DEFINE j == i - n
    <3>1. j \in 1 .. Len(b) /\ i - 1 \in 0 .. all /\ i \in 0 .. all /\ i - 1 >= n /\ i >= n
          /\ (i - 1) - n = j - 1
      BY <1>3, <2>2
    <3>2. (a \o b)[i] = b[j]
      BY <1>3, <2>2
    <3>3. u[i] = p[j] /\ v[i] = q[j] /\ u[i - 1] = p[j - 1] /\ v[i - 1] = q[j - 1]
      BY <1>4, <3>1
    <3> HIDE DEF j
    <3> QED
      BY <1>2, <3>1, <3>2, <3>3
  <2> QED
    BY <2>1, <2>2
<1> QED
  BY <1>3, <1>5, <1>6 DEF Leads

LEMMA LeadsFirst ==
    ASSUME NEW S, NEW items \in Seq(S), items # << >>
    PROVE  \A d, l, e, m : Leads(d, l, items, e, m) =>
              \E h, k : Moves(d, l, Head(items), h, k) /\ Leads(h, k, Tail(items), e, m)
<1> SUFFICES ASSUME NEW d, NEW l, NEW e, NEW m, Leads(d, l, items, e, m)
             PROVE  \E h, k : Moves(d, l, Head(items), h, k) /\ Leads(h, k, Tail(items), e, m)
  OBVIOUS
<1>1. PICK f, g : /\ f[0] = d /\ g[0] = l /\ f[Len(items)] = e /\ g[Len(items)] = m
                  /\ \A i \in 1 .. Len(items) :
                        Moves(f[i - 1], g[i - 1], items[i], f[i], g[i])
  BY Zenon DEF Leads
<1>2. /\ Len(items) \in Nat /\ Len(items) >= 1 /\ Head(items) = items[1]
      /\ Len(Tail(items)) = Len(items) - 1
      /\ \A i \in 1 .. Len(items) - 1 : Tail(items)[i] = items[i + 1]
  BY HeadTailProperties
<1> DEFINE n == Len(items) - 1
           p == [ i \in 0 .. n |-> f[i + 1] ]
           q == [ i \in 0 .. n |-> g[i + 1] ]
<1>3. \A i \in 0 .. n : p[i] = f[i + 1] /\ q[i] = g[i + 1]
  OBVIOUS
<1> HIDE DEF p, q
<1>4. Moves(d, l, Head(items), f[1], g[1])
  <2>1. 1 \in 1 .. Len(items) /\ 1 - 1 = 0
    BY <1>2
  <2>2. Moves(f[1 - 1], g[1 - 1], items[1], f[1], g[1])
    BY <1>1, <2>1
  <2> QED
    BY <1>1, <1>2, <2>1, <2>2
<1>5. p[0] = f[1] /\ q[0] = g[1] /\ p[n] = e /\ q[n] = m
  <2>1. 0 \in 0 .. n /\ n \in 0 .. n /\ 0 + 1 = 1 /\ n + 1 = Len(items)
    BY <1>2
  <2> QED
    BY <1>1, <1>3, <2>1
<1>6. ASSUME NEW i \in 1 .. n PROVE Moves(p[i - 1], q[i - 1], Tail(items)[i], p[i], q[i])
  <2>1. /\ i + 1 \in 1 .. Len(items) /\ i - 1 \in 0 .. n /\ i \in 0 .. n
        /\ (i - 1) + 1 = i /\ (i + 1) - 1 = i
    BY <1>2
  <2>2. Moves(f[i], g[i], items[i + 1], f[i + 1], g[i + 1])
    BY <1>1, <2>1
  <2>3. p[i - 1] = f[i] /\ q[i - 1] = g[i] /\ p[i] = f[i + 1] /\ q[i] = g[i + 1]
    BY <1>3, <2>1
  <2> QED
    BY <1>2, <2>2, <2>3
<1>7. Leads(f[1], g[1], Tail(items), e, m)
  BY <1>2, <1>5, <1>6 DEF Leads
<1> QED
  BY <1>4, <1>7
-----------------------------------------------------------------------------
(* How long an item is. *)
LEMMA ItemLength ==
    ASSUME NEW x
    PROVE  LengthOf(<< x >>) = IF x.t \in {"addr", "garbage"} THEN 2 ELSE 1
<1> DEFINE wide == { k \in DOMAIN << x >> : << x >>[k].t \in {"addr", "garbage"} }
<1>1. LengthOf(<< x >>) = 1 + Cardinality(wide)
  BY DEF LengthOf, Quantify
<1>2. DOMAIN << x >> = {1} /\ << x >>[1] = x
  OBVIOUS
<1>3. wide = IF x.t \in {"addr", "garbage"} THEN {1} ELSE {}
  BY <1>2
<1>4. Cardinality({1}) = 1 /\ Cardinality({}) = 0
  BY FS_Singleton, FS_EmptySet
<1> HIDE DEF wide
<1> QED
  BY <1>1, <1>3, <1>4

(* The firmware does what Moves says, and answers nothing. *)
LEMMA TakesMoves ==
    ASSUME TInv, NEW x, FirmwareTakes(x)
    PROVE  \A e, m : Moves(dev, loaded, x, e, m) =>
              dev' = e /\ loaded' = m /\ up' = up
<1> SUFFICES ASSUME NEW e, NEW m, Moves(dev, loaded, x, e, m)
             PROVE  dev' = e /\ loaded' = m /\ up' = up
  OBVIOUS
<1> DEFINE need == dev.need - LengthOf(<< x >>)
<1>1. \A seen, wires : LoadsOnto(loaded, seen, wires) = ChipLoads(seen, wires)
  BY DEF LoadsOnto, ChipLoads
<1>2. CASE dev.mode = "out" /\ x.t # "phase" /\ need >= 0
  <2>1. /\ e = Dev(IF need = 0 THEN "idle" ELSE "out", need, dev.rd, Append(dev.seen, x))
        /\ m = loaded
    BY <1>2 DEF Moves
  <2>2. ~ (need < 0)
    <3>1. LengthOf(<< x >>) \in Nat /\ dev.need \in Int
      BY ItemLength DEF TInv, FarTyped
    <3> QED
      BY <1>2, <3>1
  <2> QED
    BY <1>2, <2>1, <2>2 DEF FirmwareTakes
<1>3. CASE dev.mode = "idle" /\ x.t = "phase" /\ ~ x.reads /\ x.len > 0
  BY <1>3 DEF Moves, FirmwareTakes
<1>4. CASE dev.mode = "idle" /\ x.t = "zero"
  BY <1>1, <1>4 DEF Moves, FirmwareTakes
<1> QED
  BY <1>2, <1>3, <1>4 DEF Moves

(* What the items on the line lead to stays what it is as they are taken.  *)
LEMMA Follows ==
    ASSUME TInv, Firmware
    PROVE  \A e, m : Leads(dev, loaded, down, e, m) =>
              Leads(dev', loaded', down', e, m) /\ up' = up
<1> SUFFICES ASSUME NEW e, NEW m, Leads(dev, loaded, down, e, m)
             PROVE  Leads(dev', loaded', down', e, m) /\ up' = up
  OBVIOUS
<1>1. down # << >> /\ down' = Tail(down) /\ FirmwareTakes(Head(down)) /\ down \in Seq(Item)
  BY DEF Firmware, TInv, LineTyped
<1>2. PICK h, k : Moves(dev, loaded, Head(down), h, k) /\ Leads(h, k, Tail(down), e, m)
  BY <1>1, LeadsFirst
<1>3. dev' = h /\ loaded' = k /\ up' = up
  BY <1>1, <1>2, TakesMoves
<1> QED
  BY <1>1, <1>2, <1>3

LEMMA Sends ==
    ASSUME TInv, drv = "fx2qspi", NEW items \in Seq(Piece), Written(items),
           UNCHANGED << dev, loaded >>
    PROVE  \A e, m, h, k : Leads(dev, loaded, down, e, m) /\ Leads(e, m, items, h, k) =>
              Leads(dev', loaded', down', h, k) /\ up' = up
<1>1. down \in Seq(Piece) /\ down' = down \o items /\ up' = up
  BY DEF TInv, LineTyped, Item, Written
<1> QED
  BY <1>1, LeadsOn
(* What a phase tells the firmware. *)
LEMMA PhaseHas ==
    ASSUME NEW w, NEW reads \in BOOLEAN, NEW len \in Nat
    PROVE  LET p == Phase2(w, reads, len)
           IN  /\ p.t = "phase" /\ p.wires = w /\ p.len = len % LenMod
               /\ p.reads <=> reads \/ (len \div LenMod) % 2 = 1
BY DEF Phase2

(* A phase and the item it announces. *)
LEMMA Phased ==
    ASSUME NEW r, NEW s, NEW l, NEW w, NEW n \in 1 .. 2, NEW x, x.t # "phase",
           LengthOf(<< x >>) = n
    PROVE  \A p : p = Phase2(w, FALSE, n) =>
              Leads(Dev("idle", 0, r, s), l, << p, x >>, Dev("idle", 0, w, Append(s, x)), l)
<1> SUFFICES ASSUME NEW p, p = Phase2(w, FALSE, n)
             PROVE  Leads(Dev("idle", 0, r, s), l, << p, x >>,
                          Dev("idle", 0, w, Append(s, x)), l)
  OBVIOUS
<1>1. n % LenMod = n /\ n \div LenMod = 0
  BY Sizes
<1>2. p.t = "phase" /\ p.wires = w /\ p.len = n /\ ~ p.reads
  <2>1. n \in Nat /\ ~ (0 % 2 = 1)
    OBVIOUS
  <2> QED
    BY <1>1, <2>1, PhaseHas
<1>3. Moves(Dev("idle", 0, r, s), l, p, Dev("out", n, w, s), l)
  <2>1. Dev("idle", 0, r, s).mode = "idle" /\ Dev("idle", 0, r, s).seen = s
    BY DEF Dev
  <2>2. p.len > 0
    <3>1. n > 0
      OBVIOUS
    <3> QED
      BY <1>2, <3>1
  <2> QED
    BY <1>2, <2>1, <2>2 DEF Moves
<1>4. Moves(Dev("out", n, w, s), l, x, Dev("idle", 0, w, Append(s, x)), l)
  <2>1. /\ Dev("out", n, w, s).mode = "out" /\ Dev("out", n, w, s).need = n
        /\ Dev("out", n, w, s).rd = w /\ Dev("out", n, w, s).seen = s
    BY DEF Dev
  <2>2. Dev("out", n, w, s).need - LengthOf(<< x >>) = 0 /\ 0 >= 0
    BY <2>1
  <2> QED
    BY <2>1, <2>2 DEF Moves
<1>5. << p >> \o << x >> = << p, x >>
  BY Joined
<1>6. << p >> \in Seq({p, x}) /\ << x >> \in Seq({p, x})
  OBVIOUS
<1>7. Leads(Dev("idle", 0, r, s), l, << p >> \o << x >>, Dev("idle", 0, w, Append(s, x)), l)
  <2>1. /\ Leads(Dev("idle", 0, r, s), l, << p >>, Dev("out", n, w, s), l)
        /\ Leads(Dev("out", n, w, s), l, << x >>, Dev("idle", 0, w, Append(s, x)), l)
    BY <1>3, <1>4, LeadsOne, Zenon
  <2>2. \A d, e, h : Leads(d, l, << p >>, e, l) /\ Leads(e, l, << x >>, h, l) =>
           Leads(d, l, << p >> \o << x >>, h, l)
    BY <1>6, LeadsOn
  <2> QED
    BY <2>1, <2>2, Zenon
<1> QED
  BY <1>5, <1>7

(* What the end of an operation leaves in the chip.                        *)
LEMMA LoadsSent ==
    ASSUME TInv, pc \in InOp
    PROVE  /\ dir # "out" => \A l, w : LoadsOnto(l, Sent(op), w) = l
           /\ dir = "out" => \A l :
                 (\A c \in Columns : c < col => l[c] = << page, c >>) =>
                    \A c \in Columns : c < col + op.data.nbytes =>
                       LoadsOnto(l, Sent(op), Wires)[c] = << page, c >>
<1>1. op.dir = dir /\ op.data.nbytes \in Nat /\ col \in Nat /\ dir \in Dirs
  BY OpFacts DEF TInv, Looping
<1>2. ASSUME dir # "out", NEW l, NEW w PROVE LoadsOnto(l, Sent(op), w) = l
  <2>1. Sent(op)[1] = Opcode(op)
    BY <1>1, <1>2, SentIs DEF Dirs
  <2>2. ~ Is(Sent(op), "out", w)
    BY <1>1, <1>2, <2>1 DEF Is, Opcode
  <2> QED
    BY <2>2 DEF LoadsOnto
<1>3. ASSUME dir = "out", NEW l, \A c \in Columns : c < col => l[c] = << page, c >>,
             NEW c \in Columns, c < col + op.data.nbytes
      PROVE  LoadsOnto(l, Sent(op), Wires)[c] = << page, c >>
  <2>1. /\ Len(Sent(op)) = 2 + op.data.nbytes
        /\ Sent(op)[1] = Opcode(op) /\ Sent(op)[2] = Address
        /\ \A k \in 1 .. op.data.nbytes : Sent(op)[2 + k] = Byte(<< page, col + k - 1 >>)
    BY <1>3, SentIs
  <2>2. op.data.width = Wires
    BY <1>1, <1>3, OpFacts, TemplateIs
  <2>3. Is(Sent(op), "out", Wires) /\ Column(Sent(op)) = col
    BY <1>1, <1>3, <2>1, <2>2 DEF Is, Opcode, Column, Address
  <2> DEFINE k == 3 + c - col
  <2>4. LoadsOnto(l, Sent(op), Wires)[c] =
           IF k \in 3 .. Len(Sent(op)) /\ Sent(op)[k].t = "byte"
           THEN Sent(op)[k].v ELSE l[c]
    BY <2>3 DEF LoadsOnto
  <2>5. c \in Int
    BY Sizes DEF Columns
  <2>6. CASE c < col
    <3>1. k \notin 3 .. Len(Sent(op))
      BY <1>1, <2>1, <2>5, <2>6
    <3> QED
      BY <1>3, <2>4, <2>6, <3>1
  <2>7. CASE ~ (c < col)
    <3> DEFINE i == 1 + c - col
    <3>0. Len(Sent(op)) = 2 + op.data.nbytes
      BY <2>1
    <3>1. i \in 1 .. op.data.nbytes /\ k = 2 + i /\ col + i - 1 = c
          /\ k \in 3 .. Len(Sent(op))
      <4>1. c < col + op.data.nbytes
        BY <1>3
      <4> QED
        BY <1>1, <3>0, <2>5, <2>7, <4>1
    <3> HIDE DEF i, k
    <3>2. Sent(op)[k] = Byte(<< page, c >>)
      BY <2>1, <3>1
    <3> QED
      BY <2>4, <3>1, <3>2 DEF Byte
  <2> QED
    BY <2>6, <2>7
<1> QED
  BY <1>2, <1>3
-----------------------------------------------------------------------------
LEMMA Appended ==
    ASSUME NEW a, NEW b, NEW c
    PROVE  /\ Append(<< >>, a) = << a >> /\ Append(<< a >>, b) = << a, b >>
           /\ Append(<< a, b >>, c) = << a, b, c >>
<1> DEFINE S == {a, b, c}
<1>0. /\ << a >> \in Seq(S) /\ << a, b >> \in Seq(S) /\ << a, b, c >> \in Seq(S)
      /\ << >> \in Seq(S) /\ a \in S /\ b \in S /\ c \in S
  OBVIOUS
<1> HIDE DEF S
<1>1. Append(<< >>, a) = << a >>
  OBVIOUS
<1>2. Append(<< a >>, b) = << a, b >>
  <2> DEFINE t == Append(<< a >>, b)
  <2>1. t \in Seq(S) /\ Len(t) = 2 /\ t[1] = a /\ t[2] = b
    BY <1>0
  <2> HIDE DEF t
  <2>2. t = << a, b >>
    BY <1>0, <2>1, SeqEqual
  <2> QED
    BY <2>2 DEF t
<1>3. Append(<< a, b >>, c) = << a, b, c >>
  <2> DEFINE t == Append(<< a, b >>, c)
  <2>1. t \in Seq(S) /\ Len(t) = 3 /\ t[1] = a /\ t[2] = b /\ t[3] = c
    BY <1>0
  <2> HIDE DEF t
  <2>2. t = << a, b, c >>
    BY <1>0, <2>1, SeqEqual
  <2> QED
    BY <2>2 DEF t
<1> QED
  BY <1>1, <1>2, <1>3

(* The phase that asks for the data.                                       *)
ReadPhase == Phase2(op.data.width, TRUE, op.data.nbytes)

(* The phases up to the data lead the firmware to where it has sent the    *)
(* chip what comes before the data, and where it waits for data to send.   *)
LEMMA StreamLeads ==
    ASSUME TInv, pc \in InOp, drv = "fx2qspi"
    PROVE  /\ dir = "none" => /\ Stream(op) \in Seq(Piece)
                              /\ \A l : Leads(Idle, l, Stream(op), Dev("idle", 0, 1, Sent(op)), l)
           /\ dir = "in" => \E s \in Seq(Piece) :
                 /\ Stream(op) = s \o << ReadPhase >> /\ ReadPhase \in Piece
                 /\ \A l : Leads(Idle, l, s, Dev("idle", 0, 1, Sent(op)), l)
           /\ dir = "out" => \E s \in Seq(Piece) :
                 /\ Stream(op) = s \o << Phase2(Wires, FALSE, op.data.nbytes) >>
                 /\ Phase2(Wires, FALSE, op.data.nbytes) \in Piece
                 /\ \A l : Leads(Idle, l, s, Dev("idle", 0, 1, HeadItems(op)), l)
<1> DEFINE O == Opcode(op)
           dum == Bare("dummy")
           C == << Phase2(1, FALSE, 1), O >>
           A == << Phase2(1, FALSE, 2), Address >>
           D == << Phase2(1, FALSE, 1), dum >>
<1>1. /\ op.dir = dir /\ dir \in Dirs /\ op.data.nbytes \in Nat /\ op.cmd = PhaseOf(1, 1)
      /\ dir = "none" => op.data.nbytes = 0
      /\ dir # "none" => op.data.nbytes # 0 /\ op.data.width = Wires
      /\ dir = "none" => op.addr.nbytes = 0 /\ op.dummy.nbytes = 0
      /\ dir = "in"   => op.addr = PhaseOf(2, 1) /\ op.dummy = PhaseOf(1, 1)
      /\ dir = "out"  => op.addr = PhaseOf(2, 1) /\ op.dummy.nbytes = 0
  <2>1. op.dir = dir /\ dir \in Dirs /\ op.data.nbytes \in Nat /\ op.cmd = PhaseOf(1, 1)
    BY OpFacts DEF TInv, Looping
  <2>2. op.data.nbytes = 0 <=> dir = "none"
    BY DEF TInv, OpShape
  <2> QED
    BY <2>1, <2>2, OpFacts, TemplateIs DEF PhaseOf, Dirs
<1>2. /\ O.t = "opcode" /\ Address.t = "addr" /\ dum.t = "dummy"
  BY DEF Opcode, Address, Bare
<1>3. O \in Piece /\ Address \in Piece /\ dum \in Piece
  <2>1. op.dir \in Dirs /\ page \in 0 .. MaxCalls /\ col \in Nat /\ op.data.width \in Nat
    BY Sizes DEF TInv, Looping, OpShape, Op, Phase
  <2> QED
    BY <2>1 DEF Opcode, Address, Bare, Piece
<1>4. \A w, len \in Nat, reads \in BOOLEAN : Phase2(w, reads, len) \in Piece
  <2> TAKE w, len \in Nat, reads \in BOOLEAN
  <2>1. len % LenMod \in Nat
    BY Sizes
  <2> QED
    BY <2>1 DEF Phase2, Piece
<1>5. LengthOf(<< O >>) = 1 /\ LengthOf(<< Address >>) = 2 /\ LengthOf(<< dum >>) = 1
  BY <1>2, ItemLength
<1> HIDE DEF O, dum
<1>6. /\ \A r, s, l : Leads(Dev("idle", 0, r, s), l, C, Dev("idle", 0, 1, Append(s, O)), l)
      /\ \A r, s, l : Leads(Dev("idle", 0, r, s), l, A, Dev("idle", 0, 1, Append(s, Address)), l)
      /\ \A r, s, l : Leads(Dev("idle", 0, r, s), l, D, Dev("idle", 0, 1, Append(s, dum)), l)
  <2>1. 1 \in 1 .. 2 /\ 2 \in 1 .. 2 /\ O.t # "phase" /\ Address.t # "phase" /\ dum.t # "phase"
    BY <1>2
  <2>2. \A r, s, l : Leads(Dev("idle", 0, r, s), l, C, Dev("idle", 0, 1, Append(s, O)), l)
    BY <1>5, <2>1, Phased
  <2>3. \A r, s, l : Leads(Dev("idle", 0, r, s), l, A, Dev("idle", 0, 1, Append(s, Address)), l)
    BY <1>5, <2>1, Phased
  <2>4. \A r, s, l : Leads(Dev("idle", 0, r, s), l, D, Dev("idle", 0, 1, Append(s, dum)), l)
    BY <1>5, <2>1, Phased
  <2> QED
    BY <2>2, <2>3, <2>4
<1>7. /\ C \in Seq(Piece) /\ A \in Seq(Piece) /\ D \in Seq(Piece)
  <2>1. Phase2(1, FALSE, 1) \in Piece /\ Phase2(1, FALSE, 2) \in Piece
    BY <1>4
  <2>2. \A x, y \in Piece : << x, y >> \in Seq(Piece)
    OBVIOUS
  <2> QED
    BY <1>3, <2>1, <2>2
<1> DEFINE addr == IF op.addr.nbytes = 0 THEN << >>
                   ELSE << Phase2(op.addr.width, FALSE, op.addr.nbytes), Address >>
           dummy == IF op.dummy.nbytes = 0 THEN << >>
                    ELSE << Phase2(op.dummy.width, FALSE, op.dummy.nbytes) >>
                         \o [ k \in 1 .. op.dummy.nbytes |-> Bare("dummy") ]
           data == IF op.data.nbytes = 0 THEN << >>
                   ELSE << Phase2(op.data.width, op.dir = "in", op.data.nbytes) >>
<1>8. Stream(op) = C \o addr \o dummy \o data
  <2>1. Stream(op) = << Phase2(op.cmd.width, FALSE, 1), O >> \o addr \o dummy \o data
    BY DEF Stream, O
  <2>2. op.cmd.width = 1
    BY <1>1 DEF PhaseOf
  <2> HIDE DEF addr, dummy, data
  <2> QED
    BY <2>1, <2>2
<1>9. /\ dir = "none" => addr = << >> /\ dummy = << >> /\ data = << >>
      /\ dir \in {"in", "out"} => addr = A
      /\ dir = "in"  => dummy = D /\ data = << ReadPhase >>
      /\ dir = "out" => dummy = << >> /\ data = << Phase2(Wires, FALSE, op.data.nbytes) >>
  <2>1. dir = "none" => addr = << >> /\ dummy = << >> /\ data = << >>
    BY <1>1
  <2>2. ASSUME dir \in {"in", "out"} PROVE addr = A
    <3>1. op.addr.nbytes = 2 /\ op.addr.width = 1
      BY <1>1, <2>2 DEF PhaseOf
    <3>2. addr = << Phase2(op.addr.width, FALSE, op.addr.nbytes), Address >>
      BY <3>1
    <3> HIDE DEF addr
    <3> QED
      BY <3>1, <3>2
  <2>3. ASSUME dir = "in" PROVE dummy = D
    <3>1. [ k \in 1 .. 1 |-> Bare("dummy") ] = << dum >>
      BY DEF dum
    <3>2. << Phase2(1, FALSE, 1) >> \o << dum >> = D
      BY Joined
    <3>3. op.dummy.nbytes = 1 /\ op.dummy.width = 1
      BY <1>1, <2>3 DEF PhaseOf
    <3>4. dummy = << Phase2(op.dummy.width, FALSE, op.dummy.nbytes) >>
                     \o [ k \in 1 .. op.dummy.nbytes |-> Bare("dummy") ]
      BY <3>3
    <3> HIDE DEF dummy, D
    <3>5. dummy = << Phase2(1, FALSE, 1) >> \o [ k \in 1 .. 1 |-> Bare("dummy") ]
      BY <3>3, <3>4, Zenon
    <3> QED
      BY <3>1, <3>2, <3>5
  <2>4. dir = "in" => data = << ReadPhase >>
    BY <1>1 DEF ReadPhase
  <2>5. dir = "out" => dummy = << >>
    BY <1>1
  <2>6. dir = "out" => data = << Phase2(Wires, FALSE, op.data.nbytes) >>
    <3>1. dir = "out" => (op.dir = "in") = FALSE
      BY <1>1
    <3> QED
      BY <1>1, <3>1
  <2> HIDE DEF addr, dummy, data, A, D
  <2> QED
    BY <2>1, <2>2, <2>3, <2>4, <2>5, <2>6
<1> HIDE DEF addr, dummy, data, C, A, D
<1>10. \A l : Leads(Idle, l, C, Dev("idle", 0, 1, << O >>), l)
  BY <1>6, Appended DEF Idle
<1>11. \A l : Leads(Idle, l, C \o A, Dev("idle", 0, 1, << O, Address >>), l)
  <2>1. \A l : Leads(Dev("idle", 0, 1, << O >>), l, A, Dev("idle", 0, 1, << O, Address >>), l)
    BY <1>6, Appended
  <2> QED
    BY <1>7, <1>10, <2>1, LeadsOn
<1>12. C \o A \in Seq(Piece) /\ (C \o A) \o D \in Seq(Piece)
  BY <1>7, ConcatProperties
<1>13. \A l : Leads(Idle, l, (C \o A) \o D, Dev("idle", 0, 1, << O, Address, dum >>), l)
  <2>1. \A l : Leads(Dev("idle", 0, 1, << O, Address >>), l, D,
                     Dev("idle", 0, 1, << O, Address, dum >>), l)
    BY <1>6, Appended
  <2> QED
    BY <1>7, <1>11, <1>12, <2>1, LeadsOn
<1>14. CASE dir = "none"
  <2>1. Stream(op) = C
    BY <1>7, <1>8, <1>9, <1>14, ConcatEmptySeq
  <2>2. Sent(op) = << O >>
    BY <1>14, SentIs DEF O
  <2> QED
    BY <1>7, <1>10, <1>14, <2>1, <2>2
<1>15. CASE dir = "in"
  <2>1. Stream(op) = ((C \o A) \o D) \o << ReadPhase >>
    BY <1>8, <1>9, <1>15
  <2>2. Sent(op) = << O, Address, dum >>
    BY <1>15, SentIs DEF O, dum
  <2>3. ReadPhase \in Piece
    <3>1. op.data.width \in Nat
      BY DEF TInv, OpShape, Op, Phase
    <3> QED
      BY <1>1, <1>4, <3>1 DEF ReadPhase
  <2> QED
    BY <1>12, <1>13, <1>15, <2>1, <2>2, <2>3
<1>16. CASE dir = "out"
  <2>1. Stream(op) = (C \o A) \o << Phase2(Wires, FALSE, op.data.nbytes) >>
    BY <1>8, <1>9, <1>12, <1>16, ConcatEmptySeq
  <2>2. HeadItems(op) = << O, Address >>
    <3>1. (IF op.addr.nbytes > 0 THEN << Address >> ELSE << >>) = << Address >>
      BY <1>1, <1>16 DEF PhaseOf
    <3>2. [ k \in 1 .. op.dummy.nbytes |-> Bare("dummy") ] = << >>
      BY <1>1, <1>16
    <3>3. HeadItems(op) = << O >> \o << Address >> \o << >>
      BY <3>1, <3>2 DEF HeadItems, O
    <3> QED
      BY <3>3, Joined
  <2>3. Phase2(Wires, FALSE, op.data.nbytes) \in Piece
    BY <1>1, <1>4 DEF Wires
  <2> QED
    BY <1>11, <1>12, <1>16, <2>1, <2>2, <2>3
<1> QED
  BY <1>1, <1>14, <1>15, <1>16 DEF Dirs
-----------------------------------------------------------------------------
(* How many packets there are: one up to the size of the buffer, and one   *)
(* more for every buffer beyond.                                           *)
LEMMA HowMany ==
    ASSUME NEW B \in Nat \ {0}, NEW n \in Nat \ {0}
    PROVE  /\ n <= B => (n + B - 1) \div B = 1
           /\ n > B => /\ (n + B - 1) \div B = ((n - B) + B - 1) \div B + 1
                       /\ ((n - B) + B - 1) \div B \in Nat
<1> DEFINE q(a) == a \div B
           r(a) == a % B
<1>1. \A a \in Nat : q(a) \in Nat /\ r(a) \in 0 .. B - 1 /\ a = q(a) * B + r(a)
  OBVIOUS
<1> HIDE DEF q, r
<1>2. ASSUME NEW a \in Nat, NEW j \in Nat, NEW s \in 0 .. B - 1, a = j * B + s
      PROVE  q(a) = j
  <2>1. q(a) \in Nat /\ r(a) \in 0 .. B - 1 /\ q(a) * B + r(a) = j * B + s
    BY <1>1, <1>2
  <2>2. CASE q(a) < j
    <3>1. PICK i \in Nat : j = q(a) + 1 + i
      BY <2>1, <2>2
    <3>2. j * B = q(a) * B + B + i * B
      BY <2>1, <3>1
    <3>3. i * B \in Nat /\ q(a) * B \in Nat
      BY <2>1
    <3> QED
      BY <2>1, <3>2, <3>3
  <2>3. CASE j < q(a)
    <3>1. PICK i \in Nat : q(a) = j + 1 + i
      BY <2>1, <2>3
    <3>2. q(a) * B = j * B + B + i * B
      BY <2>1, <3>1
    <3>3. i * B \in Nat /\ j * B \in Nat
      BY <2>1
    <3> QED
      BY <2>1, <3>2, <3>3
  <2>4. q(a) \in Nat
    BY <2>1
  <2> QED
    BY <2>2, <2>3, <2>4
<1>3. ASSUME n <= B PROVE q(n + B - 1) = 1
  <2>1. n + B - 1 \in Nat /\ n - 1 \in 0 .. B - 1 /\ n + B - 1 = 1 * B + (n - 1)
    BY <1>3
  <2> QED
    BY <1>2, <2>1
<1>4. ASSUME n > B PROVE q(n + B - 1) = q((n - B) + B - 1) + 1 /\ q((n - B) + B - 1) \in Nat
  <2> DEFINE a == (n - B) + B - 1
             b == n + B - 1
  <2>1. a \in Nat /\ b \in Nat /\ b = a + B
    BY <1>4
  <2> HIDE DEF a, b
  <2>2. q(a) \in Nat /\ r(a) \in 0 .. B - 1 /\ a = q(a) * B + r(a)
    BY <1>1, <2>1
  <2>3. q(a) * B \in Nat /\ (q(a) + 1) * B = q(a) * B + B
    BY <2>2
  <2>4. b = (q(a) + 1) * B + r(a)
    BY <2>1, <2>2, <2>3
  <2>5. q(a) + 1 \in Nat
    BY <2>2
  <2>6. q(b) = q(a) + 1
    BY <1>2, <2>1, <2>2, <2>4, <2>5
  <2> QED
    BY <2>2, <2>6 DEF a, b
<1> QED
  BY <1>3, <1>4 DEF q

(* The first packet of what the chip was asked for, and the others.        *)
LEMMA PacketsAre ==
    ASSUME NEW v \in Seq(Value), v # << >>
    PROVE  LET p == Packets(v)
           IN  /\ p # << >>
               /\ p[1] = SubSeq(v, 1, IF BufSize < Len(v) THEN BufSize ELSE Len(v))
               /\ Len(v) <= BufSize => SubSeq(p, 2, Len(p)) = << >>
               /\ BufSize < Len(v) =>
                     SubSeq(p, 2, Len(p)) = Packets(SubSeq(v, BufSize + 1, Len(v)))
<1> DEFINE B == BufSize
           L == Len(v)
           count(k) == (k + B - 1) \div B
           upto(k, m) == IF k * B < m THEN k * B ELSE m
           p == Packets(v)
<1>1. B \in Nat \ {0} /\ L \in Nat \ {0}
  BY Sizes
<1>2. p = [ k \in 1 .. count(L) |-> SubSeq(v, (k - 1) * B + 1, upto(k, L)) ]
  BY DEF Packets
<1>3. /\ L <= B => count(L) = 1
      /\ L > B => count(L) = count(L - B) + 1 /\ count(L - B) \in Nat
  BY <1>1, HowMany
<1>4. p \in Seq(Seq(Value))
  BY PacketsType
<1>5. count(L) \in Nat /\ count(L) >= 1
  BY <1>1, <1>3
<1> HIDE DEF count
<1>6. Len(p) = count(L) /\ \A k \in 1 .. count(L) :
         p[k] = SubSeq(v, (k - 1) * B + 1, upto(k, L))
  <2> HIDE DEF upto, p
  <2>1. DOMAIN p = 1 .. count(L)
    BY <1>2
  <2>2. Len(p) \in Nat /\ DOMAIN p = 1 .. Len(p)
    BY <1>4, LenProperties
  <2>3. Len(p) = count(L)
    BY <1>5, <2>1, <2>2
  <2> QED
    BY <1>2, <2>3
<1> HIDE DEF p
<1>7. p # << >>
  BY <1>4, <1>5, <1>6
<1>8. p[1] = SubSeq(v, 1, IF B < L THEN B ELSE L)
  <2>1. 1 \in 1 .. count(L)
    BY <1>5
  <2>2. (1 - 1) * B + 1 = 1 /\ 1 * B = B
    BY <1>1
  <2>3. upto(1, L) = IF B < L THEN B ELSE L
    BY <2>2
  <2> HIDE DEF upto
  <2> QED
    BY <1>6, <2>1, <2>2, <2>3
<1>9. ASSUME L <= B PROVE SubSeq(p, 2, Len(p)) = << >>
  BY <1>3, <1>6, <1>9, SubSeqEmpty
<1>10. ASSUME B < L
       PROVE  SubSeq(p, 2, Len(p)) = Packets(SubSeq(v, B + 1, L))
  <2> DEFINE w == SubSeq(v, B + 1, L)
             s == Packets(w)
             t == SubSeq(p, 1 + 1, Len(p))
  <2>1. w \in Seq(Value) /\ Len(w) = L - B
    BY <1>1, <1>10, RestOf
  <2>2. s \in Seq(Seq(Value))
    BY <2>1, PacketsType
  <2>3. s = [ k \in 1 .. count(L - B) |-> SubSeq(w, (k - 1) * B + 1, upto(k, L - B)) ]
    BY <2>1 DEF Packets, count
  <2>4. count(L) = count(L - B) + 1 /\ count(L - B) \in Nat
    BY <1>1, <1>3, <1>10
  <2> HIDE DEF s
  <2>5. Len(s) = count(L - B) /\ \A k \in 1 .. count(L - B) :
           s[k] = SubSeq(w, (k - 1) * B + 1, upto(k, L - B))
    <3> HIDE DEF w, upto
    <3>1. DOMAIN s = 1 .. count(L - B)
      BY <2>3
    <3>2. Len(s) \in Nat /\ DOMAIN s = 1 .. Len(s)
      BY <2>2, LenProperties
    <3>3. Len(s) = count(L - B)
      BY <2>4, <3>1, <3>2
    <3> QED
      BY <2>3, <3>3
  <2>6. t \in Seq(Seq(Value)) /\ Len(t) = count(L - B) /\ \A k \in 1 .. Len(p) - 1 : t[k] = p[1 + k]
    <3>1. /\ t \in Seq(Seq(Value)) /\ Len(t) = IF 1 < Len(p) THEN Len(p) - 1 ELSE 0
          /\ \A k \in 1 .. Len(p) - 1 : t[k] = p[1 + k]
      BY <1>4, RestOf
    <3> HIDE DEF t
    <3> QED
      BY <1>6, <2>4, <3>1
  <2> HIDE DEF t
  <2>7. ASSUME NEW k \in 1 .. count(L - B) PROVE t[k] = s[k]
    <3> DEFINE a == (k - 1) * B
    <3>1. k \in Nat \ {0} /\ k - 1 \in Nat /\ 1 + k \in 1 .. count(L) /\ k \in 1 .. Len(p) - 1
      BY <1>6, <2>4
    <3>2. a \in Nat /\ k * B = a + B /\ (1 + k) * B = a + B + B /\ ((1 + k) - 1) * B = a + B
      BY <1>1, <3>1
    <3>3. t[k] = SubSeq(v, a + B + 1, upto(1 + k, L))
      <4>1. t[k] = p[1 + k] /\ p[1 + k] = SubSeq(v, ((1 + k) - 1) * B + 1, upto(1 + k, L))
        BY <1>6, <2>6, <3>1
      <4> HIDE DEF upto, a
      <4> QED
        BY <3>2, <4>1
    <3>4. s[k] = SubSeq(w, a + 1, upto(k, L - B))
      BY <2>5
    <3>5. upto(1 + k, L) = upto(k, L - B) + B /\ upto(k, L - B) \in Nat
          /\ upto(k, L - B) <= L - B
      BY <1>1, <1>10, <3>2
    <3> HIDE DEF a, w
    <3> DEFINE e == upto(k, L - B)
               lo == B + a + 1
               hi == B + e
               x == SubSeq(v, lo, hi)
               y == SubSeq(w, a + 1, e)
    <3>6. e \in Nat /\ e <= L - B
      BY <3>5
    <3> HIDE DEF e
    <3>7. \A i \in 1 .. L - B : w[i] = v[B + i]
      BY <1>1, <1>10, RestOf DEF w
    <3>0. a \in Nat /\ lo \in Int /\ hi \in Int /\ hi - lo = e - (a + 1) /\ hi <= L /\ lo >= 1
      BY <1>1, <3>2, <3>6
    <3>8. /\ \A i \in lo .. hi : v[i] \in Value
          /\ \A i \in a + 1 .. e : w[i] \in Value
      <4>1. (\A i \in 1 .. L : v[i] \in Value) /\ (\A i \in 1 .. L - B : w[i] \in Value)
        BY <2>1
      <4> QED
        BY <1>1, <3>0, <3>6, <4>1
    <3> HIDE DEF lo, hi
    <3>9. /\ x \in Seq(Value) /\ Len(x) = IF lo <= hi THEN hi - lo + 1 ELSE 0
          /\ \A i \in 1 .. hi - lo + 1 : x[i] = v[lo + i - 1]
      BY <3>0, <3>8, SubSeqProperties
    <3>10. /\ y \in Seq(Value) /\ Len(y) = IF a + 1 <= e THEN e - (a + 1) + 1 ELSE 0
           /\ \A i \in 1 .. e - (a + 1) + 1 : y[i] = w[a + 1 + i - 1]
      <4>1. a + 1 \in Int /\ e \in Int
        BY <1>1, <3>2, <3>6
      <4> QED
        BY <3>8, <4>1, SubSeqProperties
    <3> HIDE DEF x, y
    <3>11. Len(x) = Len(y) /\ Len(x) = IF a + 1 <= e THEN e - a ELSE 0
      BY <3>0, <3>6, <3>9, <3>10
    <3>12. \A i \in 1 .. Len(x) : x[i] = y[i]
      <4> TAKE i \in 1 .. Len(x)
      <4>1. i \in 1 .. e - a
        BY <3>0, <3>6, <3>11
      <4>2. /\ i \in 1 .. hi - lo + 1 /\ i \in 1 .. e - (a + 1) + 1
            /\ lo + i - 1 = B + (a + i) /\ a + 1 + i - 1 = a + i
            /\ a + i \in 1 .. L - B
        BY <1>1, <3>0, <3>6, <4>1 DEF lo
      <4> QED
        BY <3>7, <3>9, <3>10, <4>2
    <3>13. x = y
      BY <3>9, <3>10, <3>11, <3>12, SeqEqual
    <3>14. a + B + 1 = B + a + 1 /\ e + B = B + e
      BY <1>1, <3>2, <3>6
    <3>15. upto(1 + k, L) = e + B /\ upto(k, L - B) = e
      BY <3>5 DEF e
    <3> HIDE DEF upto
    <3> QED
      BY <3>3, <3>4, <3>13, <3>14, <3>15 DEF x, y, lo, hi
  <2>8. t = s
    BY <2>2, <2>5, <2>6, <2>7, SeqEqual
  <2> QED
    BY <2>8 DEF t, s, w
<1> QED
  BY <1>7, <1>8, <1>9, <1>10 DEF p
-----------------------------------------------------------------------------
(* The data of a load is taken byte by byte. *)
LEMMA DataLeads ==
    ASSUME TInv, pc \in InOp, dir = "out"
    PROVE  \A l, w : Leads(Dev("out", op.data.nbytes, w, HeadItems(op)), l, DataOut(op),
                           Dev("idle", 0, w, Sent(op)), l)
<1> DEFINE H == HeadItems(op)
           D == DataOut(op)
           T == Sent(op)
           h == Len(H)
           n == op.data.nbytes
<1> SUFFICES ASSUME NEW l, NEW w
             PROVE  Leads(Dev("out", n, w, H), l, D, Dev("idle", 0, w, T), l)
  OBVIOUS
<1>1. /\ H \in Seq(Piece) /\ D \in Seq(Piece) /\ T = H \o D /\ h \in Nat \ {0}
      /\ op.dir = "out" /\ n \in Nat \ {0}
  <2>1. op.dir = "out" /\ op.data.nbytes \in Nat
    BY OpFacts DEF TInv, Looping
  <2>2. op.data.nbytes # 0
    BY DEF TInv, OpShape
  <2>3. H \in Seq(Piece) /\ Len(H) >= 1
    BY HeadPieces
  <2> HIDE DEF H
  <2> QED
    BY <2>1, <2>2, <2>3, DataPieces DEF Sent, H
<1>2. Len(D) = n /\ \A i \in 1 .. n : D[i].t = "byte"
  <2>1. D = [ k \in 1 .. n |-> Byte(<< page, col + k - 1 >>) ]
    BY <1>1 DEF DataOut
  <2>2. DOMAIN D = 1 .. n
    BY <2>1
  <2>3. Len(D) \in Nat /\ DOMAIN D = 1 .. Len(D)
    BY <1>1, LenProperties
  <2> HIDE DEF D, n
  <2>4. Len(D) = n
    BY <1>1, <2>2, <2>3
  <2> QED
    BY <2>1, <2>4 DEF Byte
<1> HIDE DEF H, D, T, h, n
<1>3. T \in Seq(Piece) /\ Len(T) = h + n /\ \A i \in 1 .. n : T[h + i] = D[i]
  <2>1. /\ T \in Seq(Piece) /\ Len(T) = h + Len(D)
        /\ \A i \in 1 .. h + Len(D) : T[i] = IF i <= h THEN H[i] ELSE D[i - h]
    BY <1>1, ConcatProperties DEF h
  <2>2. ASSUME NEW i \in 1 .. n PROVE T[h + i] = D[i]
    <3>1. h + i \in 1 .. h + Len(D) /\ ~ (h + i <= h) /\ (h + i) - h = i
      BY <1>1, <1>2
    <3> QED
      BY <2>1, <3>1
  <2> QED
    BY <1>2, <2>1, <2>2
<1>4. SubSeq(T, 1, h) = H /\ SubSeq(T, 1, h + n) = T
  <2>1. 1 \in 1 .. h /\ h \in 1 .. h
    BY <1>1
  <2>2. SubSeq(H \o D, 1, h) = SubSeq(H, 1, h)
    BY <1>1, <2>1, SubSeqOfConcat1 DEF h
  <2>3. SubSeq(H, 1, h) = H
    BY <1>1, SubSeqFull DEF h
  <2>4. SubSeq(T, 1, h + n) = T
    BY <1>3, SubSeqFull
  <2> QED
    BY <1>1, <2>2, <2>3, <2>4
<1>5. \A i \in 1 .. n : SubSeq(T, 1, h + i) = Append(SubSeq(T, 1, h + (i - 1)), D[i])
  <2> TAKE i \in 1 .. n
  <2>1. h + i \in 1 .. Len(T) /\ 1 \in 1 .. Len(T) /\ (h + i) - 1 = h + (i - 1)
        /\ h + (i - 1) \in 0 .. Len(T)
    BY <1>1, <1>3
  <2>2. SubSeq(T, 1, h + i) = SubSeq(T, 1, (h + i) - 1) \o << T[h + i] >>
    BY <1>3, <2>1, SubSeqRecursiveSecond
  <2>3. SubSeq(T, 1, h + (i - 1)) \in Seq(Piece) /\ D[i] \in Piece
    <3>1. D[i] \in Piece
      BY <1>1, <1>2
    <3> QED
      BY <1>3, <2>1, <3>1, FrontOfType
  <2>4. Append(SubSeq(T, 1, h + (i - 1)), D[i]) = SubSeq(T, 1, h + (i - 1)) \o << D[i] >>
    BY <2>3, AppendIsConcat
  <2> QED
    BY <1>3, <2>1, <2>2, <2>4
<1> DEFINE f == [ i \in 0 .. n |->
                    Dev(IF i = n THEN "idle" ELSE "out", n - i, w, SubSeq(T, 1, h + i)) ]
           g == [ i \in 0 .. n |-> l ]
<1>6. \A i \in 0 .. n :
         f[i] = Dev(IF i = n THEN "idle" ELSE "out", n - i, w, SubSeq(T, 1, h + i)) /\ g[i] = l
  OBVIOUS
<1> HIDE DEF f, g
<1>7. f[0] = Dev("out", n, w, H) /\ g[0] = l /\ f[n] = Dev("idle", 0, w, T) /\ g[n] = l
  <2>1. 0 \in 0 .. n /\ n \in 0 .. n /\ 0 # n /\ n - 0 = n /\ n - n = 0 /\ h + 0 = h
    BY <1>1
  <2> QED
    BY <1>4, <1>6, <2>1
<1>8. ASSUME NEW i \in 1 .. n PROVE Moves(f[i - 1], g[i - 1], D[i], f[i], g[i])
  <2>1. i - 1 \in 0 .. n /\ i \in 0 .. n /\ i - 1 # n /\ n - (i - 1) - 1 = n - i /\ n - i >= 0
        /\ (n - i = 0 <=> i = n)
    BY <1>1
  <2>2. f[i - 1] = Dev("out", n - (i - 1), w, SubSeq(T, 1, h + (i - 1)))
    BY <1>6, <2>1
  <2>3. f[i] = Dev(IF n - i = 0 THEN "idle" ELSE "out", n - i, w,
                   Append(SubSeq(T, 1, h + (i - 1)), D[i]))
    BY <1>5, <1>6, <2>1
  <2>4. LengthOf(<< D[i] >>) = 1 /\ D[i].t # "phase"
    BY <1>2, ItemLength
  <2>5. /\ f[i - 1].mode = "out" /\ f[i - 1].need = n - (i - 1) /\ f[i - 1].rd = w
        /\ f[i - 1].seen = SubSeq(T, 1, h + (i - 1))
    <3> DEFINE d == f[i - 1]
               k == n - (i - 1)
               s == SubSeq(T, 1, h + (i - 1))
    <3>1. d = Dev("out", k, w, s)
      BY <2>2
    <3> HIDE DEF d, k, s
    <3>2. d.mode = "out" /\ d.need = k /\ d.rd = w /\ d.seen = s
      BY <3>1 DEF Dev
    <3> QED
      BY <3>2 DEF d, k, s
  <2>6. f[i - 1].need - LengthOf(<< D[i] >>) = n - i
    BY <2>1, <2>4, <2>5
  <2>7. g[i] = g[i - 1]
    BY <1>6, <2>1
  <2> QED
    BY <2>1, <2>3, <2>4, <2>5, <2>6, <2>7 DEF Moves
<1> QED
  BY <1>2, <1>7, <1>8 DEF Leads, H, D, T, n

(* The phase that announces the data of a load, if its length fits.        *)
LEMMA DataPhased ==
    ASSUME TInv, NEW n \in Nat \ {0}, n < LenMod
    PROVE  \A r, s, l, w : Leads(Dev("idle", 0, r, s), l, << Phase2(w, FALSE, n) >>,
                                 Dev("out", n, w, s), l)
<1> TAKE r, s, l, w
<1> DEFINE p == Phase2(w, FALSE, n)
<1>1. n % LenMod = n /\ n \div LenMod = 0
  BY Sizes
<1>2. p.t = "phase" /\ p.wires = w /\ p.len = n /\ ~ p.reads
  <2>1. n \in Nat /\ ~ (0 % 2 = 1)
    OBVIOUS
  <2> HIDE DEF p
  <2> QED
    BY <1>1, <2>1, PhaseHas DEF p
<1> HIDE DEF p
<1>3. Moves(Dev("idle", 0, r, s), l, p, Dev("out", n, w, s), l)
  <2>1. Dev("idle", 0, r, s).mode = "idle" /\ Dev("idle", 0, r, s).seen = s
    BY DEF Dev
  <2>2. p.len > 0
    BY <1>2
  <2> QED
    BY <1>2, <2>1, <2>2 DEF Moves
<1> QED
  BY <1>3, LeadsOne DEF p

(* The byte that deselects the chip. *)
LEMMA ZeroLeads ==
    \A r, s, l : Leads(Dev("idle", 0, r, s), l, << Bare("zero") >>, Idle, LoadsOnto(l, s, r))
<1> TAKE r, s, l
<1>1. /\ Dev("idle", 0, r, s).mode = "idle" /\ Dev("idle", 0, r, s).seen = s
      /\ Dev("idle", 0, r, s).rd = r /\ Bare("zero").t = "zero"
  BY DEF Dev, Bare
<1>2. Moves(Dev("idle", 0, r, s), l, Bare("zero"), Idle, LoadsOnto(l, s, r))
  BY <1>1 DEF Moves
<1> QED
  BY <1>2, LeadsOne
-----------------------------------------------------------------------------
(* What is on its way to the firmware, at every point of a call.           *)
Ready == dev.mode = "idle" \/ (dev.mode = "out" /\ dev.need > 0)
Entire == Dev("idle", 0, IF dir = "out" THEN Wires ELSE 1, Sent(op))

FxMoved(l, n) == \A c \in Columns : c < n =>
                    /\ dir = "in"  => buf[c] = << page, c >>
                    /\ dir = "out" => l[c] = << page, c >>
Bound(e, n)   == up = << >> /\ \E m : Leads(dev, loaded, down, e, m) /\ FxMoved(m, n)

(* Zeros end whatever the firmware was waiting for, before it is asked for *)
(* garbage; if they do not, there is nothing to be read and fx2qspi_reset  *)
(* fails.                                                                  *)
OneGarbage == \E g : up = << g >>

Zeroing ==
    /\ step \in 1 .. ResetWrites + 2
    /\ step <= ResetWrites + 1 =>
          up = << >> /\ Ready /\ \A i \in 1 .. Len(down) : down[i] = Bare("zero")
    /\ step = ResetWrites + 2 =>
          \/ /\ up = << >> /\ Ready /\ Len(down) >= 2
             /\ \A i \in 1 .. Len(down) :
                   down[i] = Bare(IF i = Len(down) - 1 THEN "garbage" ELSE "zero")
          \/ OneGarbage /\ dev.mode = "idle" /\ down = << Bare("zero") >>
          \/ OneGarbage /\ dev = Idle /\ down = << >>
          \/ up = << >> /\ down \in {<< >>, << Bare("zero") >>}

(* The packets still to come when step bytes have been taken. *)
Fetching ==
    /\ FxMoved(loaded, col + step)
    /\ \/ /\ step = 0 /\ up = << >>
          /\ \E s \in Seq(Piece) : /\ down = s \o << ReadPhase >>
                                   /\ \E m : Leads(dev, loaded, s, Entire, m)
       \/ /\ step < op.data.nbytes /\ down = << >> /\ dev = Entire
          /\ up = Packets(DataIn(step))

FxAt ==
    /\ pc = "open" => down = << >> /\ up = << >> /\ Ready
    /\ pc = "reset" => Zeroing
    /\ pc = "idle" => Bound(Idle, 0)
    /\ pc \in {"part", "send"} => Bound(Idle, col)
    /\ pc \in {"send", "out", "in", "end"} => op.data.nbytes < LenMod
    /\ pc = "out" => Bound(Dev("out", op.data.nbytes, Wires, HeadItems(op)), col)
    /\ pc = "in" => Fetching
    /\ pc = "end" => Bound(Entire, IF dir = "in" THEN col + op.data.nbytes ELSE col)

FxEnded == /\ outcome # "failed"
           /\ outcome = "done" => pc \in {"idle", "closed"} /\ Bound(Idle, Bytes)

(* No phase is longer than the low bits of its flags can say. *)
LengthsFit == Bytes < LenMod \/ MaxTransfer < LenMod

FxInv == drv = "fx2qspi" /\ glitch = "none" /\ LengthsFit => FxAt /\ FxEnded
-----------------------------------------------------------------------------
(* A step without a failure behind it or in it. *)
LEMMA FxClean ==
    ASSUME glitch' = "none"
    PROVE  /\ \A items : ~ OutFails(items)
           /\ InFails => up = << >> /\ down = << >>
<1>1. \A fault : ~ Fails(fault)
  BY DEF Fails
<1> QED
  BY <1>1 DEF OutFails, WriteFails, InFails, ReadFails, TimesOut

(* What a step of the firmware changes, and where it has got. *)
LEMMA FirmwareMoves ==
    ASSUME TInv, Firmware
    PROVE  /\ drv = "fx2qspi" /\ down # << >> /\ down \in Seq(Piece)
           /\ down' = Tail(down) /\ FirmwareTakes(Head(down))
           /\ UNCHANGED << drv, pc, step, dir, op, page, buf, col, left, outcome, glitch >>
BY DEF Firmware, TInv, LineTyped, Item, call, loop

LEMMA BoundKept ==
    ASSUME TInv, Firmware
    PROVE  \A e, n : Bound(e, n) =>
              up' = << >> /\ \E m : Leads(dev', loaded', down', e, m) /\ FxMoved(m, n)
<1> TAKE e, n
<1> SUFFICES ASSUME Bound(e, n)
             PROVE  up' = << >> /\ \E m : Leads(dev', loaded', down', e, m) /\ FxMoved(m, n)
  OBVIOUS
<1>1. PICK m : Leads(dev, loaded, down, e, m) /\ FxMoved(m, n)
  BY DEF Bound
<1>2. Leads(dev', loaded', down', e, m) /\ up' = up
  BY <1>1, Follows
<1> QED
  BY <1>1, <1>2 DEF Bound
(* The firmware takes the zeros and what asks for garbage.                 *)
LEMMA ZeroTaken ==
    ASSUME TInv, Firmware, Ready, Head(down) = Bare("zero")
    PROVE  Ready' /\ up' = up
<1>1. FirmwareTakes(Bare("zero")) /\ Bare("zero").t = "zero" /\ dev.need \in Int
  BY FirmwareMoves DEF Bare, TInv, FarTyped
<1>2. LengthOf(<< Bare("zero") >>) = 1
  BY <1>1, ItemLength
<1>3. CASE dev.mode = "idle"
  <2>1. dev' = Idle /\ up' = up
    BY <1>1, <1>3 DEF FirmwareTakes
  <2> QED
    BY <2>1 DEF Ready, Idle, Dev
<1>4. CASE dev.mode = "out" /\ dev.need > 0
  <2>1. dev.need - 1 >= 0 /\ (dev.need - 1 = 0 \/ dev.need - 1 > 0)
    BY <1>1, <1>4
  <2>2. /\ dev' = Dev(IF dev.need - 1 = 0 THEN "idle" ELSE "out", dev.need - 1, dev.rd,
                      Append(dev.seen, Bare("zero")))
        /\ up' = up
    BY <1>1, <1>2, <1>4, <2>1 DEF FirmwareTakes
  <2> QED
    BY <2>1, <2>2 DEF Ready, Dev
<1> QED
  BY <1>3, <1>4 DEF Ready

LEMMA ZeroingKept ==
    ASSUME TInv, Firmware, pc = "reset", Zeroing
    PROVE  Zeroing'
<1> DEFINE zero == Bare("zero")
           garbage == Bare("garbage")
           n == Len(down)
           final == ResetWrites + 2
<1>1. /\ down # << >> /\ down \in Seq(Piece) /\ down' = Tail(down)
      /\ FirmwareTakes(Head(down)) /\ step' = step
  BY FirmwareMoves
<1>2. /\ n \in Nat \ {0} /\ Head(down) = down[1] /\ Len(down') = n - 1
      /\ \A i \in 1 .. n - 1 : down'[i] = down[i + 1]
  <2>1. Len(down) \in Nat /\ Len(down) # 0
    BY <1>1
  <2> QED
    BY <1>1, <2>1, HeadTailProperties
<1>3. zero.t = "zero" /\ garbage.t = "garbage" /\ zero # garbage /\ dev.need \in Int
  BY DEF Bare, TInv, FarTyped
<1>4. step \in 1 .. final
  BY DEF Zeroing
<1>5. CASE step <= ResetWrites + 1
  <2>1. up = << >> /\ Ready /\ \A i \in 1 .. n : down[i] = zero
    BY <1>5 DEF Zeroing
  <2>2. Ready' /\ up' = up
    BY <1>2, <2>1, ZeroTaken
  <2>3. \A i \in 1 .. Len(down') : down'[i] = zero
    BY <1>2, <2>1
  <2>4. step # final
    BY <1>5, Sizes
  <2> QED
    BY <1>1, <1>4, <2>1, <2>2, <2>3, <2>4 DEF Zeroing
<1>6. CASE step = final
  <2>0. ~ (step <= ResetWrites + 1)
    BY <1>6, Sizes
  <2>1. CASE /\ up = << >> /\ Ready /\ n >= 2
             /\ \A i \in 1 .. n : down[i] = Bare(IF i = n - 1 THEN "garbage" ELSE "zero")
    <3>1. CASE n > 2
      <4>1. Head(down) = zero
        BY <1>2, <2>1, <3>1
      <4>2. Ready' /\ up' = << >>
        BY <2>1, <4>1, ZeroTaken
      <4>3. ASSUME NEW i \in 1 .. n - 1
            PROVE  down'[i] = Bare(IF i = (n - 1) - 1 THEN "garbage" ELSE "zero")
        <5>1. i + 1 \in 1 .. n /\ (i + 1 = n - 1 <=> i = (n - 1) - 1)
          BY <1>2
        <5> QED
          BY <1>2, <2>1, <5>1
      <4>4. Len(down') >= 2
        BY <1>2, <3>1
      <4> QED
        BY <1>1, <1>2, <1>4, <1>6, <2>0, <4>2, <4>3, <4>4 DEF Zeroing
    <3>2. CASE n = 2
      <4>1. Head(down) = garbage
        BY <1>2, <2>1, <3>2
      <4>2. down' = << zero >>
        <5>1. Len(down') = 1 /\ down'[1] = zero /\ down' \in Seq(Piece)
          BY <1>1, <1>2, <2>1, <3>2
        <5> QED
          BY <5>1
      <4>3. FirmwareTakes(garbage)
        BY <1>1, <4>1
      <4>4. CASE dev.mode = "idle"
        <5>1. PICK g : up' = << g >> /\ dev' = dev
          BY <1>3, <2>1, <4>3, <4>4, NothingAdded DEF FirmwareTakes, Answer
        <5>2. OneGarbage'
          BY <5>1 DEF OneGarbage
        <5> QED
          BY <1>1, <1>4, <1>6, <2>0, <4>2, <4>4, <5>1, <5>2 DEF Zeroing
      <4>5. CASE dev.mode = "out"
        <5>1. up' = << >>
          BY <1>3, <2>1, <4>3, <4>5 DEF FirmwareTakes
        <5> QED
          BY <1>1, <1>4, <1>6, <2>0, <4>2, <5>1 DEF Zeroing
      <4> QED
        BY <2>1, <4>4, <4>5 DEF Ready
    <3> QED
      BY <1>2, <2>1, <3>1, <3>2
  <2>2. CASE OneGarbage /\ dev.mode = "idle" /\ down = << zero >>
    <3>1. Head(down) = zero /\ down' = << >>
      BY <1>1, <2>2, OneTaken
    <3>2. dev' = Idle /\ up' = up
      BY <1>1, <1>3, <2>2, <3>1 DEF FirmwareTakes
    <3>3. dev' = Idle' /\ OneGarbage'
      BY <2>2, <3>2 DEF Idle, Dev, OneGarbage
    <3> QED
      BY <1>1, <1>4, <1>6, <2>0, <2>2, <3>1, <3>2, <3>3 DEF Zeroing
  <2>3. CASE up = << >> /\ down = << zero >>
    <3>1. Head(down) = zero /\ down' = << >>
      BY <1>1, <2>3, OneTaken
    <3>2. up' = up
      BY <1>1, <1>3, <3>1 DEF FirmwareTakes
    <3> QED
      BY <1>1, <1>4, <1>6, <2>0, <2>3, <3>1, <3>2 DEF Zeroing
  <2> QED
    BY <1>1, <1>6, <2>1, <2>2, <2>3 DEF Zeroing
<1> QED
  BY <1>4, <1>5, <1>6, Sizes
(* The phase that asks for the data is taken when everything before it has *)
(* been, and answered with the packets of the data.                        *)
LEMMA ReadTaken ==
    ASSUME TInv, Firmware, pc \in InOp, dir = "in", op.data.nbytes < LenMod,
           Head(down) = ReadPhase, dev = Entire, up = << >>
    PROVE  /\ dev' = dev /\ loaded' = loaded
           /\ up' = Packets(DataIn(0))
<1>1. FirmwareTakes(ReadPhase) /\ drv = "fx2qspi"
  BY FirmwareMoves
<1>2. op.dir = dir /\ op.data.nbytes \in Nat /\ op.data.width = Wires
  BY OpFacts, TemplateIs DEF TInv, Looping
<1>3. op.data.nbytes % LenMod = op.data.nbytes
  BY <1>2, Sizes
<1>4. /\ ReadPhase.t = "phase" /\ ReadPhase.reads
      /\ ReadPhase.wires = Wires /\ ReadPhase.len = op.data.nbytes
  <2> DEFINE n == op.data.nbytes
             p == Phase2(Wires, TRUE, n)
  <2>1. TRUE \in BOOLEAN /\ n \in Nat
    BY <1>2
  <2>2. ReadPhase = p
    BY <1>2 DEF ReadPhase
  <2> HIDE DEF n
  <2>3. p.t = "phase" /\ p.wires = Wires /\ p.len = n % LenMod
    BY <2>1, PhaseHas
  <2>4. p.reads
    BY <2>1, PhaseHas
  <2> HIDE DEF p
  <2> QED
    BY <1>3, <2>2, <2>3, <2>4 DEF n
<1>5. dev.mode = "idle" /\ dev.seen = Sent(op)
  BY DEF Entire, Dev
<1>6. RdLen(op) = op.data.nbytes
  BY <1>2 DEF RdLen
<1>7. /\ Answer(Packets(ChipData(Sent(op), RdLen(op), Wires)))
      /\ UNCHANGED << dev, loaded >>
  BY <1>1, <1>4, <1>5, <1>6 DEF FirmwareTakes
<1>8. Packets(DataIn(0)) \in Seq(Seq(Value))
  <2>1. 0 + 0 <= RdLen(op) /\ 0 \in Nat
    BY <1>2, <1>6
  <2>2. DataIn(0) \in Seq(Value)
    BY <2>1, DataInIs
  <2> QED
    BY <2>2, PacketsType
<1> QED
  BY <1>7, <1>8, ReadBack, NothingAdded DEF Answer

LEMMA FetchingKept ==
    ASSUME TInv, Firmware, pc = "in", op.data.nbytes < LenMod, Fetching
    PROVE  Fetching'
<1>1. /\ drv = "fx2qspi" /\ down # << >> /\ down \in Seq(Piece)
      /\ down' = Tail(down) /\ FirmwareTakes(Head(down))
      /\ UNCHANGED << drv, pc, step, dir, op, page, buf, col >>
  BY FirmwareMoves
<1>2. pc \in InOp /\ dir = "in" /\ op.data.nbytes \in Nat /\ op.data.nbytes # 0
  <2>1. pc \in InOp
    BY DEF InOp
  <2>2. op.data.nbytes \in Nat
    BY <2>1, OpFacts DEF TInv, Looping
  <2> QED
    BY <2>1, <2>2 DEF TInv, OpShape
<1>0. PICK s \in Seq(Piece) :
         /\ step = 0 /\ up = << >> /\ down = s \o << ReadPhase >>
         /\ \E m : Leads(dev, loaded, s, Entire, m)
  BY <1>1 DEF Fetching
<1>3. PICK m : /\ step = 0 /\ up = << >> /\ down = s \o << ReadPhase >>
               /\ Leads(dev, loaded, s, Entire, m)
  BY <1>0
<1>4. Sent(op)' = Sent(op) /\ (\A i : DataIn(i)' = DataIn(i)) /\ Wires' = Wires
  BY <1>1, OpSame DEF Wires
<1>5. Entire' = Entire /\ ReadPhase' = ReadPhase
  BY <1>1, <1>4 DEF Entire, Dev, ReadPhase, Phase2
<1>6. \A k : FxMoved(loaded, k) => FxMoved(loaded, k)'
  BY <1>1, <1>2 DEF FxMoved
<1>7. FxMoved(loaded, col + step)'
  BY <1>1, <1>2 DEF FxMoved, Fetching
<1>8. CASE s = << >>
  <2>1. dev = Entire /\ down = << ReadPhase >>
    BY <1>3, <1>8, LeadsNowhere, NothingAdded
  <2>2. Head(down) = ReadPhase /\ down' = << >>
    BY <1>1, <2>1, OneTaken
  <2>3. dev' = dev /\ up' = Packets(DataIn(0))
    BY <1>2, <1>3, <2>1, <2>2, ReadTaken
  <2>4. up' = Packets(DataIn(step))'
    BY <1>1, <1>3, <1>4, <2>3 DEF Packets, DataIn
  <2>5. step' < op'.data.nbytes
    BY <1>1, <1>2, <1>3
  <2> QED
    BY <1>5, <1>7, <2>1, <2>2, <2>3, <2>4, <2>5 DEF Fetching
<1>9. CASE s # << >>
  <2>1. ReadPhase \in Piece /\ << ReadPhase >> \in Seq(Piece)
    <3>1. op.data.width \in Nat /\ op.data.nbytes % LenMod \in Nat
      BY <1>2, Sizes DEF TInv, OpShape, Op, Phase
    <3>2. ReadPhase \in Piece
      BY <3>1 DEF ReadPhase, Phase2, Piece
    <3> QED
      BY <3>2
  <2>2. Head(s) \in Piece /\ Tail(s) \in Seq(Piece) /\ s = << Head(s) >> \o Tail(s)
    BY <1>3, <1>9
  <2>3. down = << Head(s) >> \o (Tail(s) \o << ReadPhase >>)
    <3>1. << Head(s) >> \in Seq(Piece)
      BY <2>2
    <3>2. (<< Head(s) >> \o Tail(s)) \o << ReadPhase >>
             = << Head(s) >> \o (Tail(s) \o << ReadPhase >>)
      BY <2>1, <2>2, <3>1, ConcatAssociative
    <3> QED
      BY <1>3, <2>2, <3>2
  <2>4. Tail(s) \o << ReadPhase >> \in Seq(Piece)
    BY <2>1, <2>2, ConcatProperties
  <2>5. Head(down) = Head(s) /\ down' = Tail(s) \o << ReadPhase >>
    <3> DEFINE x == Head(s)
               r == Tail(s) \o << ReadPhase >>
    <3>1. x \in Piece /\ r \in Seq(Piece) /\ down = << x >> \o r
      BY <2>2, <2>3, <2>4
    <3> HIDE DEF x, r
    <3>2. Head(down) = x /\ Tail(down) = r
      BY <3>1, FirstTaken
    <3> QED
      BY <1>1, <3>2 DEF x, r
  <2>6. PICK h, k : Moves(dev, loaded, Head(s), h, k) /\ Leads(h, k, Tail(s), Entire, m)
    BY <1>3, <1>9, LeadsFirst
  <2>7. dev' = h /\ loaded' = k /\ up' = up
    BY <1>1, <2>5, <2>6, TakesMoves
  <2>8. Leads(dev', loaded', Tail(s), Entire, m)
    BY <2>6, <2>7
  <2> QED
    BY <1>1, <1>3, <1>5, <1>7, <2>2, <2>5, <2>7, <2>8 DEF Fetching
<1> QED
  BY <1>8, <1>9

LEMMA FxFirmware == ASSUME HInv, TInv, FxInv, Firmware PROVE FxInv'
<1>1. /\ drv = "fx2qspi" /\ down # << >>
      /\ UNCHANGED << drv, pc, step, dir, op, page, buf, col, left, outcome, glitch >>
  BY FirmwareMoves
<1>2. SUFFICES ASSUME glitch = "none", LengthsFit PROVE FxAt' /\ FxEnded'
  BY <1>1 DEF FxInv, LengthsFit
<1>3. FxAt /\ FxEnded
  BY <1>1, <1>2 DEF FxInv
<1>4. HeadItems(op)' = HeadItems(op) /\ Sent(op)' = Sent(op) /\ Wires' = Wires
  BY <1>1, OpSame DEF Wires
<1>5. Idle' = Idle /\ Entire' = Entire
      /\ Dev("out", op.data.nbytes, Wires, HeadItems(op))'
            = Dev("out", op.data.nbytes, Wires, HeadItems(op))
  BY <1>1, <1>4 DEF Idle, Entire, Dev
<1>6. \A m, n : FxMoved(m, n) => FxMoved(m, n)'
  BY <1>1 DEF FxMoved
<1>7. \A m : FxMoved(m, col) => FxMoved(m, col)'
  BY <1>1 DEF FxMoved
<1>8. Bound(Idle, 0) => Bound(Idle, 0)'
  BY <1>5, <1>6, BoundKept DEF Bound
<1>9. Bound(Idle, col) => Bound(Idle, col)'
  BY <1>5, <1>7, BoundKept DEF Bound
<1>10. Bound(Idle, Bytes) => Bound(Idle, Bytes)'
  BY <1>5, <1>6, BoundKept DEF Bound
<1>11. pc = "open" => ~ Firmware
  BY <1>1, <1>3 DEF FxAt
<1>12. pc = "reset" => Zeroing'
  BY <1>3, ZeroingKept DEF FxAt
<1>13. pc = "in" => Fetching'
  BY <1>3, FetchingKept DEF FxAt
<1>14. pc = "out" => Bound(Dev("out", op.data.nbytes, Wires, HeadItems(op)), col)'
  <2> DEFINE e == Dev("out", op.data.nbytes, Wires, HeadItems(op))
  <2>1. pc = "out" => Bound(e, col)
    BY <1>3 DEF FxAt
  <2>2. e' = e
    BY <1>5
  <2> HIDE DEF e
  <2> SUFFICES ASSUME pc = "out" PROVE Bound(e, col)'
    BY DEF e
  <2> QED
    BY <1>7, <2>1, <2>2, BoundKept DEF Bound
<1>15. pc = "end" => Bound(Entire, IF dir = "in" THEN col + op.data.nbytes ELSE col)'
  <2> DEFINE n == IF dir = "in" THEN col + op.data.nbytes ELSE col
  <2>1. pc = "end" => Bound(Entire, n)
    BY <1>3 DEF FxAt
  <2>2. n' = n
    BY <1>1
  <2> HIDE DEF n
  <2> SUFFICES ASSUME pc = "end" PROVE Bound(Entire, n)'
    BY DEF n
  <2>3. \A m : FxMoved(m, n) => FxMoved(m, n)'
    BY <1>1, <2>2 DEF FxMoved
  <2> QED
    BY <1>5, <2>1, <2>2, <2>3, BoundKept DEF Bound
<1>16. FxAt'
  BY <1>1, <1>3, <1>8, <1>9, <1>11, <1>12, <1>13, <1>14, <1>15 DEF FxAt
<1>17. FxEnded'
  BY <1>1, <1>3, <1>10 DEF FxEnded
<1> QED
  BY <1>16, <1>17
-----------------------------------------------------------------------------
LEMMA FxClear ==
    ASSUME HInv, TInv, FxInv, Common \/ FxProgram, drv = "fx2qspi",
           glitch = "none" /\ glitch' = "none" /\ LengthsFit /\ FxAt /\ FxEnded
              => FxAt' /\ FxEnded'
    PROVE  FxInv'
<1>1. [Next]_vars
  BY DEF Next, Program
<1>2. drv' = drv /\ (glitch' = "none" => glitch = "none")
  BY <1>1, Remembered
<1>3. LengthsFit' <=> LengthsFit
  BY DEF LengthsFit
<1> QED
  BY <1>2, <1>3 DEF FxInv

LEMMA FxCommon == ASSUME HInv, TInv, Noted, FxInv, Common, drv = "fx2qspi" PROVE FxInv'
<1>1. SUFFICES ASSUME glitch = "none", LengthsFit, FxAt, FxEnded
               PROVE  FxAt' /\ FxEnded'
  BY FxClear
<1>2. Idle' = Idle
  BY DEF Idle, Dev
<1>3. CASE Open
  <2>1. UNCHANGED << outcome, down, up, dev >>
    BY <1>3 DEF Open, loop, line, far
  <2>2. pc = "open" /\ (pc' = "open" \/ (pc' = "reset" /\ step' = 1))
    BY <1>1, <1>3 DEF Open, Probing
  <2>3. down = << >> /\ up = << >> /\ Ready
    BY <1>1, <2>2 DEF FxAt
  <2>4. Ready'
    BY <2>1, <2>3 DEF Ready
  <2>5. pc' = "reset" => Zeroing'
    <3>1. 1 \in 1 .. ResetWrites + 2 /\ 1 <= ResetWrites + 1 /\ 1 # ResetWrites + 2
      BY Sizes
    <3>2. Len(<< >>) = 0 /\ 1 .. 0 = {}
      OBVIOUS
    <3> QED
      BY <2>1, <2>2, <2>3, <2>4, <3>1, <3>2 DEF Zeroing
  <2>6. FxAt'
    BY <2>1, <2>2, <2>3, <2>4, <2>5 DEF FxAt
  <2> QED
    BY <1>1, <2>1, <2>2, <2>6, <1>3 DEF FxEnded, Noted
<1>4. CASE OpenFails \/ Unwind
  <2>1. UNCHANGED outcome
    BY <1>4 DEF OpenFails, Unwind, loop
  <2>2. pc \in {"open", "unwind"} /\ pc' \in {"unwind", "closed"}
    BY <1>4 DEF OpenFails, Unwind, Unwinds
  <2> QED
    BY <1>1, <2>1, <2>2 DEF FxAt, FxEnded
<1>5. \A m : FxMoved(m, 0)'
  BY Sizes DEF FxMoved, Columns
<1>6. CASE RemoveAdapter
  <2>1. UNCHANGED << dir, page, buf, outcome, down, up, dev, loaded >>
    BY <1>6 DEF RemoveAdapter, call, loop, line, far
  <2>2. pc = "idle" /\ pc' = "closed"
    BY <1>6 DEF RemoveAdapter
  <2>3. \A m : FxMoved(m, Bytes) => FxMoved(m, Bytes)'
    BY <2>1 DEF FxMoved
  <2>4. Bound(Idle, Bytes) => Bound(Idle, Bytes)'
    BY <1>2, <2>1, <2>3 DEF Bound
  <2> QED
    BY <1>1, <2>1, <2>2, <2>4 DEF FxAt, FxEnded
<1>7. CASE Call
  <2>1. /\ pc = "idle" /\ pc' = "part" /\ outcome' = "none" /\ col' = 0
        /\ UNCHANGED << down, up, dev, loaded >>
    BY <1>7 DEF Call
  <2>2. Bound(Idle, 0)
    BY <1>1, <2>1 DEF FxAt
  <2>3. \A m : FxMoved(m, col)'
    BY <2>1, Sizes DEF FxMoved, Columns
  <2>4. Bound(Idle, col)'
    BY <1>2, <2>1, <2>2, <2>3 DEF Bound
  <2> QED
    BY <2>1, <2>4 DEF FxAt, FxEnded
<1>8. CASE Part
  <2>1. /\ pc = "part" /\ (left > 0 \/ dir = "none") /\ op' = Adjust(WithData(Template, left))
        /\ UNCHANGED << drv, dir, page, buf, down, up, dev, loaded >>
    BY <1>8 DEF Part, line, far
  <2>2. drv \in Drvs /\ dir \in Dirs /\ left \in Nat /\ (left = 0 <=> dir = "none")
        /\ left <= Bytes
    BY <2>1 DEF HInv, TInv, Looping
  <2>3. SupportsOp(Mode, op') /\ Takes(op') /\ op'.data.nbytes \in 0 .. left
        /\ op'.data.nbytes <= MaxTransfer
    BY <2>1, <2>2, PartIs
  <2>4. pc' = "send" /\ UNCHANGED << col, left, outcome >>
    BY <1>8, <2>3 DEF Part, loop
  <2>5. Bound(Idle, col)
    BY <1>1, <2>1 DEF FxAt
  <2>6. \A m : FxMoved(m, col) => FxMoved(m, col)'
    BY <2>1, <2>4 DEF FxMoved
  <2>7. Bound(Idle, col)'
    BY <1>2, <2>1, <2>5, <2>6 DEF Bound
  <2>8. op'.data.nbytes < LenMod
    BY <1>1, <2>2, <2>3, Sizes DEF LengthsFit
  <2>9. outcome # "done"
    BY <2>1 DEF Noted
  <2> QED
    BY <1>1, <2>4, <2>7, <2>8, <2>9 DEF FxAt, FxEnded
<1>9. CASE PartsEnd
  <2>1. /\ pc = "part" /\ left = 0 /\ dir # "none" /\ pc' = "idle" /\ outcome' = "done"
        /\ UNCHANGED << dir, page, buf, col, down, up, dev, loaded >>
    BY <1>9 DEF PartsEnd, Ends, call, line, far
  <2>2. col = Bytes
    BY <2>1, Sizes DEF TInv, Looping
  <2>3. Bound(Idle, Bytes)
    BY <1>1, <2>1, <2>2 DEF FxAt
  <2>4. \A m : FxMoved(m, Bytes) => FxMoved(m, Bytes)'
    BY <2>1 DEF FxMoved
  <2>5. Bound(Idle, Bytes)' /\ Bound(Idle, 0)'
    BY <1>2, <1>5, <2>1, <2>3, <2>4 DEF Bound
  <2> QED
    BY <2>1, <2>5 DEF FxAt, FxEnded
<1> QED
  BY <1>3, <1>4, <1>6, <1>7, <1>8, <1>9 DEF Common
-----------------------------------------------------------------------------
LEMMA FxResetOut == ASSUME HInv, TInv, Noted, FxInv, ResetOut PROVE FxInv'
<1>1. /\ drv = "fx2qspi" /\ pc = "reset" /\ step <= ResetWrites + 1
      /\ UNCHANGED << drv, outcome, dev >>
  BY DEF ResetOut, loop, far, TInv, OwnStates
<1>2. SUFFICES ASSUME glitch' = "none", FxAt, FxEnded PROVE FxAt' /\ FxEnded'
  BY <1>1, FxClear DEF FxProgram
<1> DEFINE items == IF step <= ResetWrites THEN Zeros ELSE << Bare("garbage"), Bare("zero") >>
           zero == Bare("zero")
<1>3. Written(items) /\ step' = step + 1 /\ pc' = pc
  BY <1>2, FxClean DEF ResetOut
<1> HIDE DEF items
<1>4. /\ step \in 1 .. ResetWrites + 1 /\ up = << >> /\ Ready
      /\ \A i \in 1 .. Len(down) : down[i] = zero
  BY <1>1, <1>2, Sizes DEF FxAt, Zeroing
<1>5. down' = down \o items /\ up' = << >> /\ Ready' /\ down \in Seq(Piece)
  BY <1>1, <1>3, <1>4 DEF Written, Ready, TInv, LineTyped, Item
<1>6. step' \in 1 .. ResetWrites + 2 /\ (step' <= ResetWrites + 1 <=> step <= ResetWrites)
      /\ (step' = ResetWrites + 2 <=> ~ (step <= ResetWrites))
  BY <1>3, <1>4, Sizes
<1>7. zero \in Piece /\ Bare("garbage") \in Piece
  BY DEF Bare, Piece
<1>8. CASE step <= ResetWrites
  <2>1. Zeros = [ k \in 1 .. BufSize |-> zero ]
    BY DEF Zeros
  <2>2. Zeros \in Seq(Piece) /\ Len(Zeros) = BufSize /\ \A i \in 1 .. BufSize : Zeros[i] = zero
    <3>1. Zeros \in [ 1 .. BufSize -> Piece ] /\ BufSize \in Nat
      BY <1>7, <2>1, Sizes
    <3> QED
      BY <2>1, <3>1, FcnIsSeq
  <2>3. items = Zeros
    BY <1>8 DEF items
  <2>4. /\ Len(down') = Len(down) + BufSize
        /\ \A i \in 1 .. Len(down) + BufSize :
              down'[i] = IF i <= Len(down) THEN down[i] ELSE Zeros[i - Len(down)]
    BY <1>5, <2>2, <2>3, ConcatProperties
  <2>5. \A i \in 1 .. Len(down') : down'[i] = zero
    <3> TAKE i \in 1 .. Len(down')
    <3>1. Len(down) \in Nat /\ BufSize \in Nat
      BY <1>5, Sizes
    <3>2. CASE i <= Len(down)
      BY <1>4, <2>4, <3>1, <3>2
    <3>3. CASE ~ (i <= Len(down))
      <4>1. i - Len(down) \in 1 .. BufSize /\ i \in 1 .. Len(down) + BufSize
        BY <2>4, <3>1, <3>3
      <4> QED
        BY <2>2, <2>4, <3>3, <4>1
    <3> QED
      BY <3>2, <3>3
  <2>6. Zeroing'
    BY <1>5, <1>6, <1>8, <2>5 DEF Zeroing
  <2> QED
    BY <1>1, <1>2, <1>3, <2>6 DEF FxAt, FxEnded, Noted
<1>9. CASE ~ (step <= ResetWrites)
  <2>1. items = << Bare("garbage"), zero >>
    BY <1>9 DEF items
  <2> DEFINE two == << Bare("garbage"), zero >>
  <2>2. two \in Seq(Piece) /\ Len(two) = 2 /\ two[1] = Bare("garbage") /\ two[2] = zero
    BY <1>7
  <2> HIDE DEF two
  <2>3. /\ Len(down') = Len(down) + 2
        /\ \A i \in 1 .. Len(down) + 2 :
              down'[i] = IF i <= Len(down) THEN down[i] ELSE two[i - Len(down)]
    BY <1>5, <2>1, <2>2, ConcatProperties DEF two
  <2>4. ASSUME NEW i \in 1 .. Len(down')
        PROVE  down'[i] = Bare(IF i = Len(down') - 1 THEN "garbage" ELSE "zero")
    <3>1. Len(down) \in Nat
      BY <1>5
    <3>2. CASE i <= Len(down)
      <4>1. i \in 1 .. Len(down) /\ i \in 1 .. Len(down) + 2 /\ i # Len(down') - 1
        BY <2>3, <3>1, <3>2
      <4> QED
        BY <1>4, <2>3, <3>2, <4>1
    <3>3. CASE i = Len(down) + 1
      <4>1. i - Len(down) = 1 /\ ~ (i <= Len(down)) /\ i = Len(down') - 1
            /\ i \in 1 .. Len(down) + 2
        BY <2>3, <3>1, <3>3
      <4> QED
        BY <2>2, <2>3, <4>1
    <3>4. CASE i = Len(down) + 2
      <4>1. i - Len(down) = 2 /\ ~ (i <= Len(down)) /\ i # Len(down') - 1
            /\ i \in 1 .. Len(down) + 2
        BY <2>3, <3>1, <3>4
      <4> QED
        BY <2>2, <2>3, <4>1
    <3> QED
      BY <2>3, <3>1, <3>2, <3>3, <3>4
  <2>5. Len(down') >= 2
    <3>1. Len(down) \in Nat
      BY <1>5
    <3> QED
      BY <2>3, <3>1
  <2>6. Zeroing'
    BY <1>5, <1>6, <1>9, <2>4, <2>5 DEF Zeroing
  <2> QED
    BY <1>1, <1>2, <1>3, <2>6 DEF FxAt, FxEnded, Noted
<1> QED
  BY <1>8, <1>9

LEMMA FxResetIn == ASSUME HInv, TInv, Noted, FxInv, ResetIn PROVE FxInv'
<1>1. /\ drv = "fx2qspi" /\ pc = "reset" /\ step = ResetWrites + 2
      /\ UNCHANGED << drv, outcome, dev, loaded >>
  BY DEF ResetIn, loop, far, TInv, OwnStates
<1>2. SUFFICES ASSUME glitch' = "none", FxAt, FxEnded PROVE FxAt' /\ FxEnded'
  BY <1>1, FxClear DEF FxProgram
<1>3. outcome # "done"
  BY <1>1 DEF Noted
<1>4. CASE pc' = "unwind"
  BY <1>1, <1>2, <1>3, <1>4 DEF FxAt, FxEnded
<1>5. CASE up # << >> /\ Taken(1) /\ pc' = "idle"
  <2>1. /\ OneGarbage
        /\ \/ dev.mode = "idle" /\ down = << Bare("zero") >>
           \/ dev = Idle /\ down = << >>
    BY <1>1, <1>2, <1>5 DEF FxAt, Zeroing
  <2>2. down' = down /\ up' = << >>
    BY <1>5, <2>1, OneTaken DEF Taken, OneGarbage
  <2>3. \E m : Leads(dev, loaded, down, Idle, m)
    <3>1. CASE dev.mode = "idle" /\ down = << Bare("zero") >>
      <4>1. Bare("zero").t = "zero"
        BY DEF Bare
      <4>2. Moves(dev, loaded, Bare("zero"), Idle, LoadsOnto(loaded, dev.seen, dev.rd))
        BY <3>1, <4>1 DEF Moves
      <4> QED
        BY <3>1, <4>2, LeadsOne
    <3>2. CASE dev = Idle /\ down = << >>
      BY <3>2, LeadsNowhere
    <3> QED
      BY <2>1, <3>1, <3>2
  <2>4. \A m : FxMoved(m, 0)'
    BY Sizes DEF FxMoved, Columns
  <2>5. Idle' = Idle
    BY DEF Idle, Dev
  <2>6. Bound(Idle, 0)'
    BY <1>1, <2>2, <2>3, <2>4, <2>5 DEF Bound
  <2> QED
    BY <1>1, <1>2, <1>3, <1>5, <2>6 DEF FxAt, FxEnded
<1> QED
  BY <1>4, <1>5 DEF ResetIn, Unwinds
-----------------------------------------------------------------------------
(* What an operation is, at any of its steps. *)
LEMMA FxOp ==
    ASSUME TInv, pc \in InOp, drv = "fx2qspi"
    PROVE  /\ op.dir = dir /\ dir \in Dirs /\ op.data.nbytes \in Nat
           /\ op.data.nbytes = 0 <=> dir = "none"
           /\ col \in Nat /\ down \in Seq(Piece)
           /\ pc \in {"in", "out"} => dir = pc
<1>1. op.dir = dir /\ op.data.nbytes \in 0 .. left
  BY OpFacts
<1>2. dir \in Dirs /\ left \in Nat /\ col \in Nat
  BY Sizes DEF TInv, Looping
<1>3. op.data.nbytes = 0 <=> dir = "none"
  BY DEF TInv, OpShape
<1>4. pc \in {"in", "out"} => dir = pc
  BY DEF TInv, OpShape
<1>5. down \in Seq(Piece)
  BY DEF TInv, LineTyped, Item
<1> QED
  BY <1>1, <1>2, <1>3, <1>4, <1>5

LEMMA OpStays ==
    ASSUME UNCHANGED << drv, op, dir, page, col >>
    PROVE  /\ Entire' = Entire /\ ReadPhase' = ReadPhase
           /\ Dev("out", op.data.nbytes, Wires, HeadItems(op))'
                 = Dev("out", op.data.nbytes, Wires, HeadItems(op))
           /\ \A i : Packets(DataIn(i))' = Packets(DataIn(i))
<1>1. /\ Sent(op)' = Sent(op) /\ HeadItems(op)' = HeadItems(op) /\ Wires' = Wires
      /\ \A i : DataIn(i)' = DataIn(i)
  BY OpSame DEF Wires
<1> QED
  BY <1>1 DEF Entire, ReadPhase, Dev, Phase2, Packets, DataIn

LEMMA FxPhases == ASSUME HInv, TInv, Noted, FxInv, Phases PROVE FxInv'
<1>1. /\ drv = "fx2qspi" /\ pc = "send" /\ pc \in InOp
      /\ UNCHANGED << drv, op, dir, page, buf, dev, loaded >>
  BY DEF Phases, call, far, InOp
<1>2. SUFFICES ASSUME glitch' = "none", FxAt, FxEnded PROVE FxAt' /\ FxEnded'
  BY <1>1, FxClear DEF FxProgram
<1>3. /\ Written(Stream(op)) /\ pc' = DataPhase(op) /\ step' = 0
      /\ UNCHANGED << col, left, outcome >>
  BY <1>2, FxClean DEF Phases, loop
<1>4. /\ op.dir = dir /\ dir \in Dirs /\ op.data.nbytes \in Nat
      /\ op.data.nbytes = 0 <=> dir = "none"
      /\ col \in Nat /\ down \in Seq(Piece)
  BY <1>1, FxOp
<1>5. pc' = IF dir = "none" THEN "end" ELSE dir
  BY <1>3, <1>4 DEF DataPhase
<1>6. /\ up = << >> /\ up' = << >> /\ down' = down \o Stream(op)
      /\ op.data.nbytes < LenMod
  BY <1>1, <1>2, <1>3 DEF FxAt, Bound, Written
<1>7. PICK m : Leads(dev, loaded, down, Idle, m) /\ FxMoved(m, col)
  BY <1>1, <1>2 DEF FxAt, Bound
<1>8. outcome' # "done" /\ outcome' # "failed"
  BY <1>1, <1>2, <1>3 DEF FxEnded, Noted
<1>9. FxMoved(m, col)' /\ op'.data.nbytes < LenMod
  BY <1>1, <1>3, <1>6, <1>7 DEF FxMoved
<1>10. Stream(op) \in Seq(Piece)
  BY <1>1, StreamType
<1>11. CASE dir = "none"
  <2>1. Leads(Idle, m, Stream(op), Dev("idle", 0, 1, Sent(op)), m)
    BY <1>1, <1>11, StreamLeads
  <2>2. Dev("idle", 0, 1, Sent(op)) = Entire
    BY <1>11 DEF Entire
  <2>3. Leads(dev, loaded, down \o Stream(op), Entire, m)
    BY <1>4, <1>7, <1>10, <2>1, <2>2, LeadsOn
  <2>4. Leads(dev', loaded', down', Entire, m)
    BY <1>1, <1>6, <2>3
  <2>5. (Bound(Entire, IF dir = "in" THEN col + op.data.nbytes ELSE col))'
    <3>1. Entire' = Entire
      BY <1>1, <1>3, OpStays
    <3>2. FxMoved(m, IF dir = "in" THEN col + op.data.nbytes ELSE col)'
      BY <1>1, <1>11 DEF FxMoved
    <3> QED
      BY <1>6, <2>4, <3>1, <3>2 DEF Bound
  <2> QED
    BY <1>5, <1>8, <1>9, <1>11, <2>5 DEF FxAt, FxEnded
<1>12. CASE dir = "in"
  <2>1. PICK s \in Seq(Piece) :
           /\ Stream(op) = s \o << ReadPhase >> /\ ReadPhase \in Piece
           /\ \A l : Leads(Idle, l, s, Dev("idle", 0, 1, Sent(op)), l)
    BY <1>1, <1>12, StreamLeads
  <2>2. Dev("idle", 0, 1, Sent(op)) = Entire
    BY <1>12 DEF Entire
  <2>3. Leads(dev, loaded, down \o s, Entire, m)
    BY <1>4, <1>7, <2>1, <2>2, LeadsOn
  <2>4. down' = (down \o s) \o << ReadPhase >> /\ down \o s \in Seq(Piece)
    <3>1. << ReadPhase >> \in Seq(Piece)
      BY <2>1
    <3>2. (down \o s) \o << ReadPhase >> = down \o (s \o << ReadPhase >>)
      BY <1>4, <2>1, <3>1, ConcatAssociative
    <3>3. down \o s \in Seq(Piece)
      BY <1>4, <2>1, ConcatProperties
    <3> QED
      BY <1>6, <2>1, <3>2, <3>3
  <2>5. Entire' = Entire /\ ReadPhase' = ReadPhase
    BY <1>1, <1>3, OpStays
  <2>6. FxMoved(loaded, col + step)'
    <3>1. col' + step' = col
      BY <1>3, <1>4
    <3>2. \A c \in Columns : c < col => buf'[c] = << page', c >>
      BY <1>1, <1>7, <1>12 DEF FxMoved
    <3> QED
      BY <1>1, <1>12, <3>1, <3>2 DEF FxMoved
  <2>7. Fetching'
    BY <1>1, <1>3, <1>6, <2>3, <2>4, <2>5, <2>6 DEF Fetching
  <2> QED
    BY <1>5, <1>8, <1>9, <1>12, <2>7 DEF FxAt, FxEnded
<1>13. CASE dir = "out"
  <2> DEFINE p == Phase2(Wires, FALSE, op.data.nbytes)
             e == Dev("out", op.data.nbytes, Wires, HeadItems(op))
  <2>1. PICK s \in Seq(Piece) :
           /\ Stream(op) = s \o << p >> /\ p \in Piece
           /\ \A l : Leads(Idle, l, s, Dev("idle", 0, 1, HeadItems(op)), l)
    BY <1>1, <1>13, StreamLeads
  <2>2. op.data.nbytes \in Nat \ {0}
    BY <1>4, <1>13
  <2>3. Leads(Dev("idle", 0, 1, HeadItems(op)), m, << p >>, e, m)
    BY <1>6, <2>2, DataPhased
  <2>4. << p >> \in Seq(Piece)
    <3> HIDE DEF p
    <3> QED
      BY <2>1
  <2>5. Leads(Idle, m, Stream(op), e, m)
    <3> HIDE DEF p, e
    <3> QED
      BY <2>1, <2>3, <2>4, LeadsOn
  <2>6. e' = e
    BY <1>1, <1>3, OpStays
  <2> HIDE DEF p, e
  <2>7. Leads(dev, loaded, down \o Stream(op), e, m)
    BY <1>4, <1>7, <1>10, <2>5, LeadsOn
  <2>8. Leads(dev', loaded', down', e, m)
    BY <1>1, <1>6, <2>7
  <2>9. Bound(e, col)'
    BY <1>6, <1>9, <2>6, <2>8 DEF Bound
  <2>10. Bound(Dev("out", op.data.nbytes, Wires, HeadItems(op)), col)'
    BY <2>9 DEF e
  <2> QED
    BY <1>5, <1>8, <1>9, <1>13, <2>10 DEF FxAt, FxEnded
<1> QED
  BY <1>4, <1>11, <1>12, <1>13 DEF Dirs

LEMMA FxPacketsOut == ASSUME HInv, TInv, Noted, FxInv, PacketsOut PROVE FxInv'
<1>1. /\ drv = "fx2qspi" /\ pc = "out" /\ pc \in InOp
      /\ UNCHANGED << drv, op, dir, page, buf, dev, loaded >>
  BY DEF PacketsOut, call, far, InOp
<1>2. SUFFICES ASSUME glitch' = "none", FxAt, FxEnded PROVE FxAt' /\ FxEnded'
  BY <1>1, FxClear DEF FxProgram
<1>3. Written(DataOut(op)) /\ pc' = "end" /\ UNCHANGED << col, left, outcome >>
  BY <1>2, FxClean DEF PacketsOut, loop
<1>4. dir = "out" /\ down \in Seq(Piece) /\ DataOut(op) \in Seq(Piece)
  <2>1. DataOut(op) \in Seq(Piece)
    BY <1>1, DataPieces
  <2> QED
    BY <1>1, <2>1, FxOp
<1> DEFINE e == Dev("out", op.data.nbytes, Wires, HeadItems(op))
<1>5. Bound(e, col) /\ op.data.nbytes < LenMod
  BY <1>1, <1>2 DEF FxAt
<1>6. \A l : Leads(e, l, DataOut(op), Dev("idle", 0, Wires, Sent(op)), l)
  BY <1>1, <1>4, DataLeads
<1> HIDE DEF e
<1>7. PICK m : Leads(dev, loaded, down, e, m) /\ FxMoved(m, col) /\ up = << >>
  BY <1>5 DEF Bound
<1>8. Dev("idle", 0, Wires, Sent(op)) = Entire
  BY <1>4 DEF Entire
<1>9. Leads(dev, loaded, down \o DataOut(op), Entire, m)
  BY <1>4, <1>6, <1>7, <1>8, LeadsOn
<1>10. down' = down \o DataOut(op) /\ up' = << >>
  BY <1>3, <1>7 DEF Written
<1>11. Leads(dev', loaded', down', Entire, m)
  BY <1>1, <1>9, <1>10
<1>12. (Bound(Entire, IF dir = "in" THEN col + op.data.nbytes ELSE col))'
  <2>1. Entire' = Entire
    BY <1>1, <1>3, OpStays
  <2>2. FxMoved(m, IF dir = "in" THEN col + op.data.nbytes ELSE col)'
    BY <1>1, <1>3, <1>4, <1>7 DEF FxMoved
  <2> QED
    BY <1>10, <1>11, <2>1, <2>2 DEF Bound
<1>13. outcome' # "done" /\ outcome' # "failed"
  BY <1>1, <1>2, <1>3 DEF FxEnded, Noted
<1> QED
  BY <1>1, <1>3, <1>5, <1>12, <1>13 DEF FxAt, FxEnded
(* A packet goes to its place in the page, and the next is the one after.  *)
LEMMA FxPacketsIn == ASSUME HInv, TInv, Noted, FxInv, PacketsIn PROVE FxInv'
<1>1. /\ drv = "fx2qspi" /\ pc = "in" /\ pc \in InOp
      /\ UNCHANGED << drv, op, dir, page, dev, loaded >>
  BY DEF PacketsIn, far, InOp
<1>2. SUFFICES ASSUME glitch' = "none", FxAt, FxEnded PROVE FxAt' /\ FxEnded'
  BY <1>1, FxClear DEF FxProgram
<1>3. /\ dir = "in" /\ op.dir = "in" /\ op.data.nbytes \in Nat \ {0} /\ col \in Nat
      /\ step \in Nat
  <2>1. step \in Nat
    BY DEF TInv
  <2> QED
    BY <1>1, <2>1, FxOp
<1>4. Fetching /\ op.data.nbytes < LenMod
  BY <1>1, <1>2 DEF FxAt
<1>5. ~ InFails
  <2>1. ASSUME InFails PROVE FALSE
    <3>1. up = << >> /\ down = << >>
      BY <1>2, <2>1, FxClean
    <3>2. step < op.data.nbytes /\ up = Packets(DataIn(step))
      <4>1. ASSUME NEW s \in Seq(Piece) PROVE s \o << ReadPhase >> # << >>
        <5>1. << ReadPhase >> \in Seq({ReadPhase}) /\ Len(<< ReadPhase >>) = 1
          OBVIOUS
        <5>2. Len(s \o << ReadPhase >>) = Len(s) + 1 /\ Len(s) \in Nat
          BY <5>1
        <5> QED
          BY <5>2
      <4> QED
        BY <1>4, <3>1, <4>1 DEF Fetching
    <3>3. DataIn(step) \in Seq(Value) /\ DataIn(step) # << >>
      <4>1. RdLen(op) = op.data.nbytes /\ step + 0 <= RdLen(op)
        BY <1>3, <3>2 DEF RdLen
      <4>2. DataIn(step) \in Seq(Value) /\ Len(DataIn(step)) = RdLen(op) - step
        BY <1>1, <1>3, <4>1, DataInIs
      <4> QED
        BY <1>3, <3>2, <4>1, <4>2
    <3> QED
      BY <3>1, <3>2, <3>3, PacketsAre
  <2> QED
    BY <2>1
<1>6. /\ up # << >> /\ Taken(1) /\ buf' = Filled(col + step, up[1])
      /\ step' = step + Len(up[1])
      /\ pc' = IF step' = op.data.nbytes THEN "end" ELSE "in"
      /\ UNCHANGED << col, left, outcome >>
  BY <1>5 DEF PacketsIn, loop
<1>7. /\ step < op.data.nbytes /\ down = << >> /\ dev = Entire
      /\ up = Packets(DataIn(step)) /\ FxMoved(loaded, col + step)
  BY <1>4, <1>6 DEF Fetching
<1> DEFINE v == DataIn(step)
           n == op.data.nbytes
           k == IF BufSize < Len(v) THEN BufSize ELSE Len(v)
           w == SubSeq(v, 1, k)
<1>8. RdLen(op) = n
  BY <1>3 DEF RdLen
<1>9. /\ v \in Seq(Value) /\ Len(v) = n - step
      /\ \A i \in 1 .. n - step : v[i] = << page, col + step + i - 1 >>
  <2>1. step + 0 <= RdLen(op)
    BY <1>3, <1>7, <1>8
  <2> QED
    BY <1>1, <1>3, <1>8, <2>1, DataInIs
<1>10. v # << >> /\ Len(v) \in Nat \ {0} /\ k \in 1 .. Len(v)
  BY <1>3, <1>7, <1>9, Sizes
<1>11. up[1] = w /\ (Len(v) <= BufSize => SubSeq(up, 2, Len(up)) = << >>)
       /\ (BufSize < Len(v) => SubSeq(up, 2, Len(up)) = Packets(SubSeq(v, BufSize + 1, Len(v))))
  <2> HIDE DEF v
  <2>1. up = Packets(v)
    BY <1>7 DEF v
  <2> QED
    BY <1>9, <1>10, <2>1, PacketsAre
<1>12. w \in Seq(Value) /\ Len(w) = k /\ \A i \in 1 .. k : w[i] = v[i]
  <2> HIDE DEF v, k
  <2>1. 1 \in 1 .. Len(v) /\ 1 <= k + 1 /\ k \in 0 .. Len(v)
    BY <1>10
  <2> QED
    BY <1>9, <1>10, <2>1, SubSeqProperties
<1> HIDE DEF v, w, k
<1>13. k \in Nat \ {0} /\ k <= n - step /\ k <= BufSize
       /\ (k # n - step => BufSize < Len(v) /\ k = BufSize)
  BY <1>3, <1>9, <1>10, Sizes DEF k
<1>14. step' = step + k /\ buf' = Filled(col + step, w)
  BY <1>6, <1>11, <1>12
<1>15. \A c \in Columns : c < col + (step + k) => buf'[c] = << page, c >>
  <2>1. \A c \in Columns : c < col + step => buf[c] = << page, c >>
    BY <1>3, <1>7 DEF FxMoved
  <2>2. \A i \in 1 .. Len(w) : w[i] = << page, (col + step) + i - 1 >>
    <3> TAKE i \in 1 .. Len(w)
    <3>1. i \in 1 .. k /\ i \in 1 .. n - step
      BY <1>3, <1>12, <1>13
    <3>2. w[i] = << page, col + step + i - 1 >>
      BY <1>9, <1>12, <3>1
    <3> QED
      BY <3>2
  <2>3. col + step \in Nat /\ (col + step) + Len(w) = col + (step + k)
    BY <1>3, <1>12, <1>13
  <2> QED
    BY <1>12, <1>14, <2>1, <2>2, <2>3, FillsUp
<1>16. down' = << >> /\ up' = SubSeq(up, 2, Len(up))
  BY <1>6, <1>7 DEF Taken
<1>17. Entire' = Entire
  BY <1>1, <1>6, OpStays
<1>18. outcome' # "done" /\ outcome' # "failed"
  BY <1>1, <1>2, <1>6 DEF FxEnded, Noted
<1>19. CASE step + k = n
  <2>1. pc' = "end"
    BY <1>6, <1>14, <1>19
  <2>2. up' = << >>
    BY <1>3, <1>9, <1>11, <1>13, <1>16, <1>19
  <2>3. FxMoved(loaded, IF dir = "in" THEN col + n ELSE col)'
    BY <1>1, <1>3, <1>6, <1>15, <1>19 DEF FxMoved
  <2>4. Leads(dev', loaded', down', Entire', loaded')
    BY <1>1, <1>7, <1>16, <1>17, LeadsNowhere
  <2>5. (Bound(Entire, IF dir = "in" THEN col + op.data.nbytes ELSE col))'
    BY <2>2, <2>3, <2>4 DEF Bound, n
  <2> QED
    BY <1>1, <1>4, <1>18, <2>1, <2>5 DEF FxAt, FxEnded
<1>20. CASE step + k # n
  <2>1. pc' = "in"
    BY <1>6, <1>14, <1>20
  <2>2. BufSize < Len(v) /\ k = BufSize /\ step + k < n
    BY <1>3, <1>13, <1>20
  <2>3. DataIn(step + k) = SubSeq(v, BufSize + 1, Len(v))
    <3>1. step + k <= RdLen(op) /\ k \in Nat
      BY <1>3, <1>8, <1>13, <2>2
    <3> QED
      BY <1>1, <1>3, <2>2, <3>1, DataInIs DEF v
  <2>4. up' = Packets(DataIn(step'))
    BY <1>11, <1>14, <1>16, <2>2, <2>3
  <2>5. Packets(DataIn(step))' = Packets(DataIn(step'))
    <3>1. RdLen(op)' = RdLen(op)
      BY <1>1 DEF RdLen
    <3> QED
      BY <1>1, <1>6, <3>1 DEF Packets, DataIn
  <2>6. FxMoved(loaded, col + step)'
    BY <1>1, <1>3, <1>6, <1>14, <1>15 DEF FxMoved
  <2>7. step' < op'.data.nbytes
    BY <1>1, <1>14, <2>2
  <2>8. Fetching'
    BY <1>1, <1>7, <1>16, <1>17, <2>4, <2>5, <2>6, <2>7 DEF Fetching
  <2> QED
    BY <1>1, <1>4, <1>18, <2>1, <2>8 DEF FxAt, FxEnded
<1> QED
  BY <1>19, <1>20

(* The byte that deselects the chip ends the operation. *)
LEMMA FxEnd == ASSUME HInv, TInv, Noted, FxInv, End PROVE FxInv'
<1>1. /\ drv = "fx2qspi" /\ pc = "end" /\ pc \in InOp
      /\ UNCHANGED << drv, op, dir, page, buf, dev, loaded >>
  BY DEF End, call, far, InOp, TInv, OwnStates
<1>2. SUFFICES ASSUME glitch' = "none", FxAt, FxEnded PROVE FxAt' /\ FxEnded'
  BY <1>1, FxClear DEF FxProgram
<1> DEFINE zero == << Bare("zero") >>
<1>3. Written(zero) /\ Return(0)
  BY <1>2, FxClean DEF End
<1>4. /\ op.dir = dir /\ dir \in Dirs /\ op.data.nbytes \in Nat /\ col \in Nat
      /\ down \in Seq(Piece) /\ zero \in Seq(Piece)
  <2>1. Bare("zero") \in Piece
    BY DEF Bare, Piece
  <2> QED
    BY <1>1, <2>1, FxOp
<1> HIDE DEF zero
<1> DEFINE n == IF dir = "in" THEN col + op.data.nbytes ELSE col
           w == IF dir = "out" THEN Wires ELSE 1
<1>5. Bound(Entire, n)
  BY <1>1, <1>2 DEF FxAt
<1>6. PICK m : Leads(dev, loaded, down, Entire, m) /\ FxMoved(m, n)
  BY <1>5 DEF Bound
<1>7. Entire = Dev("idle", 0, w, Sent(op))
  BY DEF Entire
<1> HIDE DEF n, w
<1>8. PICK h : h = LoadsOnto(m, Sent(op), w)
  OBVIOUS
<1>9. Leads(dev, loaded, down \o zero, Idle, h)
  <2>1. Leads(Entire, m, zero, Idle, h)
    BY <1>7, <1>8, ZeroLeads DEF zero
  <2> QED
    BY <1>4, <1>6, <2>1, LeadsOn
<1>10. down' = down \o zero /\ up' = << >>
  BY <1>3, <1>5 DEF Written, Bound
<1>11. Leads(dev', loaded', down', Idle, h) /\ Idle' = Idle
  BY <1>1, <1>9, <1>10 DEF Idle, Dev
<1>12. CASE dir = "none"
  <2>1. pc' = "idle" /\ outcome' = "done"
    BY <1>1, <1>3, <1>12, Returns
  <2>2. FxMoved(h, 0)' /\ FxMoved(h, Bytes)'
    BY <1>1, <1>12 DEF FxMoved
  <2>3. Bound(Idle, 0)' /\ Bound(Idle, Bytes)'
    BY <1>10, <1>11, <2>2 DEF Bound
  <2> QED
    BY <2>1, <2>3 DEF FxAt, FxEnded
<1>13. CASE dir # "none"
  <2>1. pc' = "part" /\ col' = col + op.data.nbytes /\ outcome' = outcome
    BY <1>1, <1>3, <1>13, Returns
  <2>2. FxMoved(h, col)'
    <3>1. CASE dir = "in"
      BY <1>1, <1>6, <2>1, <3>1 DEF FxMoved, n
    <3>2. CASE dir = "out"
      <4>1. w = Wires /\ n = col
        BY <3>2 DEF w, n
      <4>2. \A c \in Columns : c < col => m[c] = << page, c >>
        BY <1>6, <3>2, <4>1 DEF FxMoved
      <4>3. \A c \in Columns : c < col + op.data.nbytes => h[c] = << page, c >>
        BY <1>1, <1>8, <3>2, <4>1, <4>2, LoadsSent
      <4> QED
        BY <1>1, <2>1, <3>2, <4>3 DEF FxMoved
    <3> QED
      BY <1>4, <1>13, <3>1, <3>2 DEF Dirs
  <2>3. Bound(Idle, col)'
    BY <1>10, <1>11, <2>2 DEF Bound
  <2>4. outcome' # "done" /\ outcome' # "failed"
    BY <1>1, <1>2, <2>1 DEF FxEnded, Noted
  <2> QED
    BY <2>1, <2>3, <2>4 DEF FxAt, FxEnded
<1> QED
  BY <1>12, <1>13
-----------------------------------------------------------------------------
LEMMA FxStarts == DrvsInit => FxInv
<1> SUFFICES ASSUME DrvsInit, drv = "fx2qspi", glitch = "none" PROVE FxAt /\ FxEnded
  BY DEF FxInv
<1>1. pc = "open" /\ down = << >> /\ outcome = "none" /\ FxInit
  BY DEF DrvsInit, Init
<1>2. up = << >> /\ Ready
  BY <1>1 DEF FxInit, Ready, Idle, Dev
<1> QED
  BY <1>1, <1>2 DEF FxAt, FxEnded

LEMMA FxStands == ASSUME FxInv, UNCHANGED vars PROVE FxInv'
<1>1. /\ UNCHANGED << drv, glitch, pc, step, down, up, dev, op, page, col, dir, buf >>
      /\ UNCHANGED << loaded, outcome >>
  BY DEF vars
<1>2. SUFFICES ASSUME drv = "fx2qspi", glitch = "none", FxAt, FxEnded PROVE FxAt' /\ FxEnded'
  BY <1>1 DEF FxInv, LengthsFit
<1> DEFINE e == Dev("out", op.data.nbytes, Wires, HeadItems(op))
           n == IF dir = "in" THEN col + op.data.nbytes ELSE col
<1>3. /\ Entire' = Entire /\ ReadPhase' = ReadPhase /\ e' = e
      /\ \A i : Packets(DataIn(i))' = Packets(DataIn(i))
  BY <1>1, OpStays
<1>4. Idle' = Idle /\ n' = n
  BY <1>1 DEF Idle, Dev
<1>5. pc = "out" => Bound(e, col)
  BY <1>2 DEF FxAt
<1>6. pc = "end" => Bound(Entire, n)
  BY <1>2 DEF FxAt
<1> HIDE DEF e, n
<1>7. /\ Bound(Idle, 0) => Bound(Idle, 0)'
      /\ Bound(Idle, col) => Bound(Idle, col)'
      /\ Bound(Idle, Bytes) => Bound(Idle, Bytes)'
  BY <1>1, <1>4 DEF Bound, FxMoved
<1>8. (pc = "out" => Bound(e, col)') /\ (pc = "end" => Bound(Entire, n)')
  BY <1>1, <1>3, <1>4, <1>5, <1>6 DEF Bound, FxMoved
<1>9. Zeroing => Zeroing'
  BY <1>1, <1>4 DEF Zeroing, Ready, Bare, OneGarbage
<1>10. Fetching => Fetching'
  <2>1. up = Packets(DataIn(step)) => up' = Packets(DataIn(step))'
    BY <1>1 DEF Packets, DataIn, RdLen
  <2>2. FxMoved(loaded, col + step) => FxMoved(loaded, col + step)'
    BY <1>1 DEF FxMoved
  <2> QED
    BY <1>1, <1>3, <2>1, <2>2 DEF Fetching
<1>11. FxAt'
  <2>1. pc = "out" => Bound(Dev("out", op.data.nbytes, Wires, HeadItems(op)), col)'
    BY <1>8 DEF e
  <2>2. pc = "end" => Bound(Entire, IF dir = "in" THEN col + op.data.nbytes ELSE col)'
    BY <1>8 DEF n
  <2>3. Ready => Ready'
    BY <1>1 DEF Ready
  <2> QED
    BY <1>1, <1>2, <1>7, <1>9, <1>10, <2>1, <2>2, <2>3 DEF FxAt
<1>12. FxEnded'
  BY <1>1, <1>2, <1>7 DEF FxEnded
<1> QED
  BY <1>11, <1>12

LEMMA FxStep == ASSUME HInv, TInv, Noted, FxInv, [Next]_vars PROVE FxInv'
<1>1. CASE drv # "fx2qspi"
  BY <1>1, Remembered DEF FxInv
<1>2. CASE drv = "fx2qspi" /\ Next
  <2>1. ~ SerProgram /\ ~ ChProgram /\ ~ Programmer /\ ~ Bridge
    BY <1>2, NotTheOthers
  <2>2. CASE FxProgram
    BY <2>2, FxResetOut, FxResetIn, FxPhases, FxPacketsOut, FxPacketsIn, FxEnd DEF FxProgram
  <2> QED
    BY <1>2, <2>1, <2>2, FxCommon, FxFirmware DEF Next, Program, Device
<1>3. CASE UNCHANGED vars
  BY <1>3, FxStands
<1> QED
  BY <1>1, <1>2, <1>3

LEMMA FxShows ==
    ASSUME TInv, Noted, FxInv, drv = "fx2qspi", LengthsFit
    PROVE  InSync /\ PageWhole /\ OnlyRefusalsFail
<1>1. /\ glitch \in Glitches
      /\ glitch = "none" => FxAt /\ FxEnded
  BY DEF FxInv, TInv, FarTyped
<1>2. InSync
  <2>1. ASSUME pc = "idle", glitch = "none"
        PROVE  up = << >> /\ (down = << >> => dev = Idle)
    BY <1>1, <2>1, LeadsNowhere DEF FxAt, Bound
  <2> QED
    BY <2>1 DEF InSync
<1>3. PageWhole
  <2>1. SUFFICES ASSUME outcome = "done", glitch \in {"none", "now"}
                 PROVE  /\ dir = "in" => buf = Whole
                        /\ dir = "out" /\ down = << >> => loaded = Whole
    BY DEF PageWhole
  <2>2. glitch = "none"
    BY <1>1, <2>1 DEF Noted
  <2>3. PICK m : Leads(dev, loaded, down, Idle, m) /\ FxMoved(m, Bytes)
    BY <1>1, <2>1, <2>2 DEF FxEnded, Bound
  <2>4. buf \in [ Columns -> Value ] /\ loaded \in [ Columns -> Value ]
    BY DEF TInv, FarTyped
  <2>5. dir = "in" => buf = Whole
    BY <2>3, <2>4, AllIsWhole DEF FxMoved
  <2>6. dir = "out" /\ down = << >> => loaded = Whole
    <3>1. ASSUME dir = "out", down = << >> PROVE loaded = Whole
      <4>1. loaded = m
        BY <2>3, <3>1, LeadsNowhere
      <4> QED
        BY <2>3, <2>4, <3>1, <4>1, AllIsWhole DEF FxMoved
    <3> QED
      BY <3>1
  <2> QED
    BY <2>5, <2>6
<1>4. OnlyRefusalsFail
  BY <1>1 DEF OnlyRefusalsFail, FxEnded
<1> QED
  BY <1>2, <1>3, <1>4
-----------------------------------------------------------------------------
(* No length that fx2qspi announces outgrows the bits it has. *)
Fits == drv = "fx2qspi" => LengthsFit

(* What holds at every point of a run. *)
LEMMA LineKept == Spec => [](Fits => InSync /\ PageWhole /\ OnlyRefusalsFail)
<1> DEFINE LineInv == HInv /\ TInv /\ SerInv /\ Noted /\ ChInv /\ FxInv
<1>1. DrvsInit => LineInv
  BY HInvInit, TInit, SerStarts, ChStarts, FxStarts
<1>2. LineInv /\ [Next]_vars => LineInv'
  BY HInvStep, TStep, SerStep, NotedStep, ChStep, FxStep
<1>3. LineInv => (Fits => InSync /\ PageWhole /\ OnlyRefusalsFail)
  <2> SUFFICES ASSUME LineInv, Fits PROVE InSync /\ PageWhole /\ OnlyRefusalsFail
    OBVIOUS
  <2>1. drv \in {"serprog", "ch347", "fx2qspi"}
    BY DriverNames DEF HInv
  <2> QED
    BY <2>1, SerShows, ChShows, FxShows DEF Fits
<1> HIDE DEF LineInv
<1> QED
  BY <1>1, <1>2, <1>3, PTL DEF Spec

(* Between two calls that nothing went wrong in there is nothing on the    *)
(* line that the next call could take for its own answer, however the      *)
(* answers were split on the way and whatever a run that was killed left   *)
(* in them, one leftover excepted: serprog's sync exchange, for ch347 the  *)
(* reset that takes the chip select along and that every reply is read to  *)
(* its end before the operation returns, and for fx2qspi the zeros of      *)
(* fx2qspi_reset and the one that ends every operation, as long as no      *)
(* phase is longer than the bits fx2qspi_fill_op leaves its length.  Of an *)
(* fx2qspi run killed while it was reading, whose packets are on the pipe  *)
(* (glitch is "left"), nothing is said.                                    *)
THEOREM LineInSync == Spec => [](Fits => InSync)
<1>1. (Fits => InSync /\ PageWhole /\ OnlyRefusalsFail) => (Fits => InSync)
  OBVIOUS
<1> QED
  BY <1>1, LineKept, PTL

(* A call that reports success has moved the page: every column of it is   *)
(* in databuf, or in the cache of the chip once the device has got what    *)
(* deselects it, across every part that adjust_op_size makes of the page   *)
(* and every packet that it goes or comes in; on fx2qspi while the lengths *)
(* fit and unless a run that was killed while reading left packets on the  *)
(* pipe.                                                                   *)
THEOREM PageMovedWhole == Spec => [](Fits => PageWhole)
<1>1. (Fits => InSync /\ PageWhole /\ OnlyRefusalsFail) => (Fits => PageWhole)
  OBVIOUS
<1> QED
  BY <1>1, LineKept, PTL

(* No operation that adjust_op_size lets through is more than the device   *)
(* can be told of or than a reply may be, lengths that do not fit on       *)
(* fx2qspi excepted, and what is left on its pipe of a run killed while    *)
(* reading: a call fails only after a transfer that failed or a refusal by *)
(* the programmer, and none times out.                                     *)
THEOREM FailsOnlyRefused == Spec => [](Fits => OnlyRefusalsFail)
<1>1. (Fits => InSync /\ PageWhole /\ OnlyRefusalsFail) => (Fits => OnlyRefusalsFail)
  OBVIOUS
<1> QED
  BY <1>1, LineKept, PTL
=============================================================================
