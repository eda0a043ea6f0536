------------------------------- MODULE Ch347 -------------------------------
(***************************************************************************)
(* The CH347 adapter, spi-mem/ch347/: the program, two USB pipes, and the  *)
(* bridge at their end, which is not in src/.  A packet is one item: its   *)
(* command, its length, and what it carries.  The bridge takes the packets *)
(* in order and moves the chip select when it is told to.                  *)
(***************************************************************************)
EXTENDS AdapterCalls

CONSTANT OpBuf         \* sizeof buf of ch347_mem_exec_op

ASSUME Ch347Assumption == OpBuf \in Nat \ {0}

(* Packets out: ch347_spi_write_packet. *)
Packet(cmd, items, rd) == [ t |-> "packet", cmd |-> cmd, items |-> items, rd |-> rd ]
SetCs(val, auto)       == [ t |-> "cs", val |-> val, auto |-> auto ]
Reply(cmd, n, data)    == [ t |-> "reply", cmd |-> cmd, n |-> n, data |-> data ]
Settings               == {"info", "setup", "rate"}

(* What a setting is on the wire: the last two are both CH347_CMD_SPI_INIT. *)
CmdOf   == [ info |-> "info", setup |-> "init", rate |-> "init" ]
SetCmds == {"info", "init"}

(* A packet of which the second transfer failed; what is left of a reply.  *)
Cut  == Bare("cut")
Rest == Bare("rest")

(* The bridge, which an earlier run may have left with the chip selected,  *)
(* with an answer nobody took, or in the middle of a packet.               *)
Selected(seen) == Dev("selected", 0, 0, seen)

ChInit ==
    /\ refused = FALSE /\ glitch = "none"
    /\ \/ dev = Idle /\ up = << >>
       \/ /\ "killed" \in Faults
          /\ \/ dev = Idle /\ up \in { << Reply(cmd, 1, << Stale >>) >> :
                                  cmd \in SetCmds \cup {"trx", "write", "read"} }
             \/ dev = Selected(<< Bare("opcode of another run") >>) /\ up = << >>
             \/ dev = Lost /\ up = << >>
-----------------------------------------------------------------------------
(* The bridge. *)

Deselects(seen) == dev' = Idle /\ loaded' = ChipLoads(seen, 1)
Clocked(items)  == IF dev.mode = "idle" THEN << >> ELSE dev.seen \o items

Exchange(p) ==
    LET seen == Clocked(p.items)
    IN  IF dev.mode = "auto" THEN Deselects(seen)
        ELSE dev' = Dev(dev.mode, dev.need, dev.rd, seen) /\ UNCHANGED loaded

Replies(p) ==
    LET data == ChipData(Clocked(p.items), p.rd, 1)
    IN  CASE p.cmd = "read" -> \E k \in 1 .. p.rd :       \* one packet or two
               Answer(<< Reply("read", k, SubSeq(data, 1, k)) >> \o
                      (IF k = p.rd THEN << >>
                       ELSE << Reply("read", p.rd - k, SubSeq(data, k + 1, p.rd)) >>))
          [] p.cmd = "trx" -> Answer(<< Reply("trx", LengthOf(p.items) + p.rd, data) >>)
          [] OTHER         -> Answer(<< Reply(p.cmd, 1, << Stale >>) >>)

BridgeTakes(p) ==
    \/ dev.mode = "lost" /\ UNCHANGED << dev, up, loaded >>
    \/ /\ dev.mode # "lost" /\ p.t = "cut"
       /\ dev' = Lost /\ UNCHANGED << up, loaded >>
    \/ /\ dev.mode # "lost" /\ p.t = "cs"
       /\ IF p.val = "high" THEN Deselects(dev.seen)
          ELSE /\ dev' = Dev(IF p.auto THEN "auto" ELSE "selected",
                             dev.need, dev.rd, dev.seen)
               /\ UNCHANGED loaded
       /\ UNCHANGED up
    \/ /\ dev.mode # "lost" /\ p.t = "packet" /\ Replies(p)
       /\ IF p.cmd \in SetCmds THEN UNCHANGED << dev, loaded >> ELSE Exchange(p)

Bridge ==
    /\ drv = "ch347" /\ down # << >>
    /\ down' = Tail(down) /\ BridgeTakes(Head(down))
    /\ UNCHANGED << drv, pc, step, held, call, loop, refused, glitch >>
-----------------------------------------------------------------------------
(* ch347_spi_write_packet: a failure has sent nothing, part, or all of it. *)
SendFails(p) == \E sent \in {<< >>, << Cut >>, << p >>} : WriteFails(sent)

(* ch347_spi_read_packet, which wants a reply to cmd of at most max: a     *)
(* reply it refuses is gone all the same, except for what tmpbuf could not *)
(* hold of a long one.                                                     *)
Fit(cmd, max) == up # << >> /\ up[1].t = "reply" /\ up[1].cmd = cmd /\ up[1].n <= max

Receives(cmd, max) == Fit(cmd, max) /\ Taken(1)

ReceiveFails(cmd, max) ==
    \/ TimesOut
    \/ ReadFails("read", 0)
    \/ Fit(cmd, max) /\ Fails("read") /\ up' = << Rest >> \o Tail(up) /\ down' = down
    \/ /\ up # << >> /\ ~ Fit(cmd, max)
       /\ UNCHANGED << down, glitch >>
       /\ \/ up' = Tail(up)
          \/ up[1].t = "reply" /\ up[1].cmd = "read" /\ up' = << Rest >> \o Tail(up)
-----------------------------------------------------------------------------
(* Probing: ch347_get_hw_config at the end of ch347_open, then             *)
(* ch347_setup_spi and ch347_set_spi_freq, whose failure ch347_probe       *)
(* returns without closing anything.                                       *)
NextSetting == [ info |-> "setup", setup |-> "rate", rate |-> "idle" ]
GivesUp     == IF pc = "info" THEN Unwinds(Stages) ELSE pc' = "closed" /\ step' = 1

Setting ==
    /\ pc \in Settings
    /\ \/ step = 1 /\ Written(<< Packet(CmdOf[pc], << >>, 0) >>) /\ pc' = pc /\ step' = 2
       \/ step = 1 /\ SendFails(Packet(CmdOf[pc], << >>, 0)) /\ GivesUp
       \/ step = 2 /\ Receives(CmdOf[pc], 1) /\ pc' = NextSetting[pc] /\ step' = 1
       \/ step = 2 /\ ReceiveFails(CmdOf[pc], 1) /\ GivesUp
    /\ UNCHANGED << drv, held, call, loop, far >>
-----------------------------------------------------------------------------
(* ch347_mem_exec_op.  An operation that fits buf is one full duplex       *)
(* exchange, after which the bridge deselects the chip by itself; a longer *)
(* one is a write of opcode, address and dummy bytes, then the data, then  *)
(* a packet that deselects the chip.                                       *)
Small(o) == Head1(o) <= OpBuf /\ OpBuf - Head1(o) >= o.data.nbytes

Whole1(o) == Packet("trx", HeadItems(o) \o DataOut(o), RdLen(o))
TrxLen(o) == Head1(o) + o.data.nbytes

(* Its result is not looked at: the operation goes on without a chip.      *)
Unseen == /\ "write" \in Faults /\ glitch = "none" /\ glitch' = "past" /\ up' = up
ChipSelect(cs) == \/ Written(<< cs >>)
                  \/ Unseen /\ down' \in { down, down \o << Cut >>, down \o << cs >> }

Select ==
    /\ drv = "ch347" /\ pc = "send"
    /\ ChipSelect(SetCs("low", Small(op)))
    /\ pc' = IF Small(op) THEN "exchange" ELSE "head"
    /\ step' = 1
    /\ UNCHANGED << drv, held, call, loop, far >>

(* ch347_spi_trx_full_duplex; what is in its buffer is copied to the       *)
(* caller's whatever came of it.                                           *)
ExchangeOut ==
    /\ pc = "exchange" /\ step = 1
    /\ \/ Written(<< Whole1(op) >>) /\ step' = 2 /\ UNCHANGED << pc, loop, buf >>
       \/ /\ SendFails(Whole1(op)) /\ Return(-1) /\ step' = step
          /\ buf' = Filled(col, [ k \in 1 .. RdLen(op) |-> Stale ])
    /\ UNCHANGED << drv, held, dir, op, page, far >>

ExchangeIn ==
    /\ pc = "exchange" /\ step = 2
    /\ \/ /\ Receives("trx", TrxLen(op)) /\ up[1].n = TrxLen(op) /\ Return(0)
          /\ buf' = Filled(col, up[1].data)
       \/ /\ Receives("trx", TrxLen(op)) /\ up[1].n < TrxLen(op) /\ Return(-1)
          /\ buf' = Filled(col, up[1].data)
       \/ /\ ReceiveFails("trx", TrxLen(op)) /\ Return(-1)
          /\ buf' = Filled(col, [ k \in 1 .. RdLen(op) |-> Stale ])
    /\ UNCHANGED << drv, step, held, dir, op, page, far >>

(* ch347_spi_tx of opcode, address and dummy bytes: a failure returns with *)
(* the chip selected.                                                      *)
HeadOut ==
    /\ pc = "head"
    /\ \/ /\ step = 1 /\ Written(<< Packet("write", HeadItems(op), 0) >>)
          /\ step' = 2 /\ UNCHANGED << pc, loop >>
       \/ /\ step = 2 /\ Receives("write", 1)
          /\ pc' = op.dir /\ step' = 0 /\ UNCHANGED loop
       \/ /\ \/ step = 1 /\ SendFails(Packet("write", HeadItems(op), 0))
             \/ step = 2 /\ ReceiveFails("write", 1)
          /\ step' = step /\ Return(-1)
    /\ UNCHANGED << drv, held, call, far >>

Deselecting(how) == pc' = how /\ UNCHANGED loop

(* ch347_spi_tx of the data; longer data than MaxTrx never gets here. *)
BodyOut ==
    /\ drv = "ch347" /\ pc = "out"
    /\ \/ /\ step = 0 /\ Written(<< Packet("write", DataOut(op), 0) >>)
          /\ step' = 1 /\ UNCHANGED << pc, loop >>
       \/ /\ step = 1 /\ Receives("write", 1) /\ step' = step /\ Deselecting("sent")
       \/ /\ \/ step = 0 /\ SendFails(Packet("write", DataOut(op), 0))
             \/ step = 1 /\ ReceiveFails("write", 1)
          /\ step' = step /\ Deselecting("broken")
    /\ UNCHANGED << drv, held, call, far >>

(* ch347_spi_rx: step is one more than rxlen, 0 before it asks. *)
BodyIn ==
    LET left1 == op.data.nbytes - (step - 1)
    IN  /\ drv = "ch347" /\ pc = "in"
        /\ \/ /\ step = 0 /\ Written(<< Packet("read", << >>, op.data.nbytes) >>)
              /\ step' = 1 /\ UNCHANGED << pc, loop, buf >>
           \/ /\ step > 0 /\ Receives("read", left1)
              /\ buf' = Filled(col + step - 1, up[1].data)
              /\ step' = step + up[1].n
              /\ IF up[1].n = left1 THEN Deselecting("sent") ELSE UNCHANGED << pc, loop >>
           \/ /\ \/ step = 0 /\ SendFails(Packet("read", << >>, op.data.nbytes))
                 \/ step > 0 /\ ReceiveFails("read", left1)
              /\ buf' = buf /\ step' = step /\ Deselecting("broken")
        /\ UNCHANGED << drv, held, dir, op, page, far >>

DeselectNot ==                              \* mutant: the chip stays selected
    /\ pc \in {"sent", "broken"}
    /\ Return(IF pc = "sent" THEN 0 ELSE -1)
    /\ UNCHANGED << drv, step, held, call, line, far >>
Deselect ==
    /\ pc \in {"sent", "broken"}
    /\ ChipSelect(SetCs("high", FALSE))
    /\ Return(IF pc = "sent" THEN 0 ELSE -1)
    /\ UNCHANGED << drv, step, held, call, far >>
-----------------------------------------------------------------------------
ChProgram == Setting \/ Select \/ ExchangeOut \/ ExchangeIn
               \/ HeadOut \/ BodyOut \/ BodyIn \/ Deselect

ChPcs == Settings \cup {"exchange", "head", "in", "out", "sent", "broken"}
=============================================================================
