------------------------------ MODULE Fx2Qspi ------------------------------
(***************************************************************************)
(* The FX2 adapter, spi-mem/spi-mem-fx2qspi.c: the program, two USB pipes, *)
(* and the firmware at their end, which is not in src/.  What goes out is  *)
(* a stream of phases, each two bytes of flags and length and then its     *)
(* bytes; a byte of 0 deselects the chip.  What comes in are packets.      *)
(***************************************************************************)
EXTENDS AdapterCalls

CONSTANTS BufSize,     \* FX2_BUF_SIZE
          LenMod,      \* what the low bits of the flags leave a length: 4096
          ResetWrites  \* buffers of zeros fx2qspi_reset writes: 4

(* An address of two bytes can be announced. *)
ASSUME Fx2Assumption ==
    {BufSize, LenMod, ResetWrites} \subseteq Nat \ {0} /\ LenMod > 2

(* fx2qspi_fill_op: the length is or-ed into the flags, and what LenMod    *)
(* leaves of it falls on FX2QSPI_READ.                                     *)
Phase2(wires, reads, len) ==
    [ t |-> "phase", wires |-> wires, len |-> len % LenMod,
      reads |-> reads \/ (len \div LenMod) % 2 = 1 ]

Stream(o) ==
    << Phase2(o.cmd.width, FALSE, 1), Opcode(o) >>
      \o (IF o.addr.nbytes = 0 THEN << >>
          ELSE << Phase2(o.addr.width, FALSE, o.addr.nbytes), Address >>)
      \o (IF o.dummy.nbytes = 0 THEN << >>
          ELSE << Phase2(o.dummy.width, FALSE, o.dummy.nbytes) >>
               \o [ k \in 1 .. o.dummy.nbytes |-> Bare("dummy") ])
      \o (IF o.data.nbytes = 0 THEN << >>
          ELSE << Phase2(o.data.width, o.dir = "in", o.data.nbytes) >>)

(* An answer is sent in packets of at most a buffer. *)
Packets(values) ==
    [ k \in 1 .. (Len(values) + BufSize - 1) \div BufSize |->
        SubSeq(values, (k - 1) * BufSize + 1,
               IF k * BufSize < Len(values) THEN k * BufSize ELSE Len(values)) ]

StaleBytes(n) == [ k \in 1 .. n |-> Stale ]

(* The firmware, which an earlier run that was killed may have left        *)
(* waiting for what it was promised, or with an answer nobody took.        *)
FxInit ==
    /\ refused = FALSE
    /\ \/ dev = Idle /\ up = << >> /\ glitch = "none"
       \/ /\ "killed" \in Faults
          /\ \/ /\ dev \in { Dev("out", need, 1, << >>) : need \in 1 .. Bytes }
                /\ up = << >> /\ glitch = "none"
             \/ /\ up \in { Packets(StaleBytes(n)) : n \in 1 .. Bytes }
                /\ dev = Idle /\ glitch = "left"
-----------------------------------------------------------------------------
(* The firmware; rd is how many wires the last phase is on, and what it    *)
(* answers for garbage is a packet of some length.                         *)
FirmwareTakes(item) ==
    LET seen == Append(dev.seen, item)
        need == dev.need - LengthOf(<< item >>)
    IN  \/ dev.mode = "lost" /\ UNCHANGED << dev, up, loaded >>
        \/ /\ dev.mode = "out" /\ item.t # "phase" /\ need >= 0
           /\ dev' = Dev(IF need = 0 THEN "idle" ELSE "out", need, dev.rd, seen)
           /\ UNCHANGED << up, loaded >>
        \/ /\ dev.mode = "idle" /\ item.t = "phase" /\ item.reads
           /\ Answer(Packets(ChipData(dev.seen, item.len, item.wires)))
           /\ UNCHANGED << dev, loaded >>
        \/ /\ dev.mode = "idle" /\ item.t = "phase" /\ ~ item.reads /\ item.len > 0
           /\ dev' = Dev("out", item.len, item.wires, dev.seen)
           /\ UNCHANGED << up, loaded >>
        \/ /\ dev.mode = "idle" /\ item.t = "zero"
           /\ dev' = Idle /\ loaded' = ChipLoads(dev.seen, dev.rd)
           /\ UNCHANGED up
        \/ /\ dev.mode = "idle" /\ item.t = "garbage"
           /\ \E n \in 1 .. BufSize : Answer(<< StaleBytes(n) >>)
           /\ UNCHANGED << dev, loaded >>
        \/ /\ IF dev.mode = "out" THEN item.t = "phase" \/ need < 0
              ELSE /\ dev.mode = "idle" /\ item.t \notin {"zero", "garbage"}
                   /\ item.t = "phase" => ~ item.reads /\ item.len = 0
           /\ dev' = Lost /\ UNCHANGED << up, loaded >>

Firmware ==
    /\ drv = "fx2qspi" /\ down # << >>
    /\ down' = Tail(down) /\ FirmwareTakes(Head(down))
    /\ UNCHANGED << drv, pc, step, held, call, loop, refused, glitch >>
-----------------------------------------------------------------------------
(* A transfer out that fails may have moved part of it.                    *)
OutFails(items) == \E n \in 0 .. Len(items) : WriteFails(SubSeq(items, 1, n))
InFails         == TimesOut \/ ReadFails("read", 0)

(* fx2qspi_reset, at the end of fx2qspi_probe. *)
Zeros == [ k \in 1 .. BufSize |-> Bare("zero") ]

ResetOut ==
    LET items == IF step <= ResetWrites THEN Zeros ELSE << Bare("garbage"), Bare("zero") >>
    IN  /\ pc = "reset" /\ step <= ResetWrites + 1
        /\ \/ Written(items) /\ step' = step + 1 /\ pc' = pc
           \/ OutFails(items) /\ Unwinds(Stages)
        /\ UNCHANGED << drv, held, call, loop, far >>

ResetIn ==
    /\ pc = "reset" /\ step = ResetWrites + 2
    /\ \/ up # << >> /\ Taken(1) /\ pc' = "idle" /\ step' = 1
       \/ InFails /\ Unwinds(Stages)
    /\ UNCHANGED << drv, held, call, loop, far >>
-----------------------------------------------------------------------------
(* fx2qspi_exec_op: phases up to the data in one transfer, the data, and   *)
(* the byte that deselects the chip.  A failure returns at once.           *)
DataPhase(o) == IF o.data.nbytes = 0 THEN "end" ELSE o.dir

Phases ==
    /\ drv = "fx2qspi" /\ pc = "send"
    /\ \/ Written(Stream(op)) /\ pc' = DataPhase(op) /\ step' = 0 /\ UNCHANGED loop
       \/ OutFails(Stream(op)) /\ Return(-1) /\ UNCHANGED step
    /\ UNCHANGED << drv, held, call, far >>

PacketsOut ==
    /\ drv = "fx2qspi" /\ pc = "out"
    /\ \/ Written(DataOut(op)) /\ pc' = "end" /\ UNCHANGED loop
       \/ OutFails(DataOut(op)) /\ Return(-1)
    /\ UNCHANGED << drv, step, held, call, far >>

(* step is ptr.  A packet is taken as long as it is: one that is longer    *)
(* than what is left makes llen negative, and the loop goes on.            *)
PacketsIn ==
    /\ drv = "fx2qspi" /\ pc = "in"
    /\ \/ /\ up # << >> /\ Taken(1)
          /\ buf' = Filled(col + step, up[1])
          /\ step' = step + Len(up[1])
          /\ pc' = IF step' = op.data.nbytes THEN "end" ELSE "in"
          /\ UNCHANGED loop
       \/ InFails /\ Return(-1) /\ UNCHANGED << buf, step >>
    /\ UNCHANGED << drv, held, dir, op, page, far >>

End ==
    /\ pc = "end"
    /\ \/ Written(<< Bare("zero") >>) /\ Return(0)
       \/ OutFails(<< Bare("zero") >>) /\ Return(-1)
    /\ UNCHANGED << drv, step, held, call, far >>
-----------------------------------------------------------------------------
FxProgram == ResetOut \/ ResetIn \/ Phases \/ PacketsOut \/ PacketsIn \/ End

FxPcs == {"reset", "in", "out", "end"}
=============================================================================
