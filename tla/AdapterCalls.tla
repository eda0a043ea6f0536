---------------------------- MODULE AdapterCalls ----------------------------
(***************************************************************************)
(* What the three adapters share: main.c opening one and closing it, the   *)
(* choice of spi-mem-drvs.c, the fallback of spi-mem.c for adapters        *)
(* without direct mapping with the loops of core.c that move a page        *)
(* through it, the line each way, and the chip at the far end.  The        *)
(* modules Serprog, Ch347 and Fx2Qspi extend it with what each driver does *)
(* and with the device it talks to, which is not in src/.                  *)
(*                                                                         *)
(* What crosses the line are items: commands, parameters, bytes, packets.  *)
(* A data byte is << page, column >>; read as a status it may be anything. *)
(***************************************************************************)
EXTENDS VendorTables, Integers, FiniteSetsExt, SequencesExt

CONSTANTS Drvs,        \* the adapters --driver may name
          Bytes,       \* bytes of a page with its OOB
          Field,       \* 0xffffff, what a length of serprog can say
          MaxTrx,      \* CH347_SPI_MAX_TRX
          MaxTransfer, \* FX2_MAX_TRANSFER
          MaxCalls,    \* bound: operations without data and pages moved
          Faults       \* what may go wrong

ASSUME CallsAssumption ==
    /\ {Bytes, Field, MaxTrx, MaxTransfer, MaxCalls} \subseteq Nat \ {0}
    /\ Field > 5 /\ MaxTrx > 5
    /\ Drvs \subseteq {"serprog", "ch347", "fx2qspi"}
    /\ Faults \subseteq {"open",     \* the port or the library refuses
                         "write",    \* a write or an OUT transfer fails
                         "read",     \* a read or an IN transfer fails
                         "short",    \* serprog_exec_op reads a part
                         "nak",      \* the programmer refuses an operation
                         "killed"}   \* an earlier run was, in mid operation

VARIABLES drv,            \* --driver
          pc, step,       \* where the program is, and its loop counter
          held,           \* what has been opened and not closed
          dir,            \* the call: a page in or out, or a plain operation
          op,             \* the operation being executed
          col, left,      \* column and nbytes of the loops in core.c
          buf,            \* databuf
          outcome,        \* how the last call ended
          page,           \* bound counter, and the name of the page's bytes
          down, up,       \* the line, to and from the device
          dev,            \* device: what it is reading, what the chip was sent
          loaded,         \* the chip's cache
          refused,        \* history: the device refused a part of this call
          glitch          \* history: has a transfer failed: none, now in
                          \* this call and seen, or past (earlier or unseen);
                          \* left: none has, but a run killed while reading
                          \* left packets on the pipe of the fx2qspi

call == << dir, op, buf, page >>
loop == << col, left, outcome >>
line == << down, up, glitch >>
far  == << dev, loaded, refused >>

Columns == 0 .. Bytes - 1
Stale   == << 0, 0 >>
Bare(t) == [ t |-> t ]
Byte(v) == [ t |-> "byte", v |-> v ]
Whole   == [ c \in Columns |-> << page, c >> ]

Dev(mode, need, rd, seen) == [ mode |-> mode, need |-> need, rd |-> rd, seen |-> seen ]
Idle == Dev("idle", 0, 0, << >>)
Lost == Dev("lost", 0, 0, << >>)
-----------------------------------------------------------------------------
(* The chip behind the device: seen is what was sent to it since it was    *)
(* selected.  It answers with the bytes of the page the operation was      *)
(* issued for, on the wires it was asked to and as far as the page goes,   *)
(* and takes a load when it is deselected.                                 *)
Opcode(o) == [ t |-> "opcode", v |-> o.dir, wires |-> o.data.width, page |-> page ]
Address   == [ t |-> "addr", v |-> col ]

Is(seen, d, wires) ==
    Len(seen) > 0 /\ seen[1].t = "opcode" /\ seen[1].v = d /\ seen[1].wires = wires
Column(seen) == IF Len(seen) > 1 /\ seen[2].t = "addr" THEN seen[2].v ELSE 0

ChipData(seen, n, wires) ==
    [ k \in 1 .. n |-> LET c == Column(seen) + k - 1
                       IN  IF Is(seen, "in", wires) /\ c \in Columns
                           THEN << seen[1].page, c >> ELSE Stale ]

ChipLoads(seen, wires) ==
    IF ~ Is(seen, "out", wires) THEN loaded
    ELSE [ c \in Columns |->
             LET k == 3 + c - Column(seen)
             IN  IF k \in 3 .. Len(seen) /\ seen[k].t = "byte"
                 THEN seen[k].v ELSE loaded[c] ]

Answer(items) == up' = up \o items

(* The bytes of a sequence of items: an address is two, and so is what     *)
(* fx2qspi_reset asks for garbage with.                                    *)
LengthOf(items) ==
    Len(items) + Quantify(DOMAIN items, LAMBDA k : items[k].t \in {"addr", "garbage"})
-----------------------------------------------------------------------------
(* The program's writes and reads. *)

Written(items) == down' = down \o items /\ UNCHANGED << up, glitch >>
Taken(n)       == up' = SubSeq(up, n + 1, Len(up)) /\ UNCHANGED << down, glitch >>

(* A transfer that fails, having moved what items or n says; bound: one    *)
(* does.  The callers of serprog's do not all see it; the answer to a read *)
(* that failed may come later.                                             *)
Fails(fault) == /\ fault \in Faults /\ glitch = "none"
                /\ glitch' = IF drv = "serprog" THEN "past" ELSE "now"
WriteFails(items)   == Fails("write") /\ down' = down \o items /\ up' = up
ReadFails(fault, n) == /\ Fails(fault) /\ down' = down
                       /\ up' = SubSeq(up, n + 1, Len(up))

(* libusb gives up on an answer that never comes. *)
TimesOut == up = << >> /\ down = << >> /\ UNCHANGED line
-----------------------------------------------------------------------------
(* Opening: what each step takes, in the order of serial_init, ch347_open  *)
(* and fx2qspi_probe; a failure goes to the label that gives back what was *)
(* taken before.                                                           *)
Opened == [ serprog |-> << {"port"}, {} >>,
            ch347   |-> << {"priv"}, {"context"}, {"handle"}, {"interface"} >>,
            fx2qspi |-> << {"context"}, {"handle"}, {"interface"} >> ]
Stages == Len(Opened[drv])
Probing == [ serprog |-> "sync", ch347 |-> "info", fx2qspi |-> "reset" ]

Init ==
    /\ drv \in Drvs
    /\ pc = "open" /\ step = 1 /\ held = {}
    /\ dir = "none" /\ op = ProgLoad(1) /\ col = 0 /\ left = 0
    /\ buf = [ c \in Columns |-> Stale ] /\ loaded = [ c \in Columns |-> Stale ]
    /\ outcome = "none" /\ page = 0
    /\ down = << >> /\ refused = FALSE

Open ==
    /\ pc = "open"
    /\ held' = held \cup Opened[drv][step]
    /\ IF step < Stages THEN pc' = pc /\ step' = step + 1
       ELSE pc' = Probing[drv] /\ step' = 1
    /\ UNCHANGED << drv, call, loop, line, far >>

Unwinds(from) == pc' = "unwind" /\ step' = from

OpenFailsShort ==                           \* mutant: a label too late
    /\ pc = "open" /\ "open" \in Faults
    /\ Unwinds(IF step > 2 THEN step - 2 ELSE 0)
    /\ UNCHANGED << drv, held, call, loop, line, far >>
OpenFails ==
    /\ pc = "open" /\ "open" \in Faults
    /\ Unwinds(step - 1)
    /\ UNCHANGED << drv, held, call, loop, line, far >>

Unwind ==
    /\ pc = "unwind"
    /\ IF step = 0 THEN pc' = "closed" /\ UNCHANGED << step, held >>
       ELSE step' = step - 1 /\ held' = held \ Opened[drv][step] /\ pc' = pc
    /\ UNCHANGED << drv, call, loop, line, far >>

(* CLEANUP1 of main, whatever happened since the adapter was found. *)
RemoveAdapter ==
    /\ pc = "idle" /\ pc' = "closed" /\ held' = {}
    /\ UNCHANGED << drv, step, call, loop, line, far >>
-----------------------------------------------------------------------------
(* A call of the core: a page through the loop of                          *)
(* spinand_read_from_cache_op or spinand_write_to_cache_op, or an          *)
(* operation without data; the first is the reset of spinand_reset_op.     *)
Wires == IF drv = "fx2qspi" THEN 4 ELSE 1
Mode  == IF drv = "fx2qspi" THEN {"in", "out"} \X {2, 4} ELSE {}

Template == CASE dir = "in"  -> ReadFromCache(2, 1, 1, Wires)
              [] dir = "out" -> ProgLoad(Wires)
              [] OTHER       -> [ ProgLoad(1) EXCEPT !.dir = "none",
                                    !.addr = PhaseOf(0, 0), !.data = PhaseOf(0, 0) ]

Call ==
    /\ pc = "idle" /\ page < MaxCalls
    /\ dir' \in IF page = 0 THEN {"none"} ELSE {"in", "out", "none"}
    /\ pc' = "part" /\ page' = page + 1 /\ outcome' = "none"
    /\ col' = 0 /\ left' = IF dir' = "none" THEN 0 ELSE Bytes
    /\ buf' = [ c \in Columns |-> Stale ]
    /\ glitch' = IF glitch = "now" THEN "past" ELSE glitch
    /\ refused' = FALSE
    /\ UNCHANGED << drv, step, held, op, down, up, dev, loaded >>

(* spi_mem_no_dirmap_read and _write hand up what exec_op returned, or the *)
(* size if that was 0; then the loop's tests.                              *)
Ends(how) == outcome' = how /\ pc' = "idle" /\ UNCHANGED << col, left >>
ReturnKeepsLeft(r) ==                       \* mutant: nbytes not counted down
    LET n == IF r = 0 THEN op.data.nbytes ELSE r
    IN  IF dir = "none" THEN Ends(IF r = 0 THEN "done" ELSE "failed")
        ELSE IF n <= 0 \/ n > left THEN Ends("failed")
        ELSE pc' = "part" /\ col' = col + n /\ UNCHANGED << left, outcome >>
Return(r) ==
    LET n == IF r = 0 THEN op.data.nbytes ELSE r
    IN  IF dir = "none" THEN Ends(IF r = 0 THEN "done" ELSE "failed")
        ELSE IF n <= 0 \/ n > left THEN Ends("failed")
        ELSE /\ pc' = "part" /\ col' = col + n /\ left' = left - n
             /\ UNCHANGED outcome

(* Opcode, address and dummy bytes, and the data an operation writes. *)
Head1(o) == 1 + o.addr.nbytes + o.dummy.nbytes
HeadItems(o) ==
    << Opcode(o) >> \o (IF o.addr.nbytes > 0 THEN << Address >> ELSE << >>)
                    \o [ k \in 1 .. o.dummy.nbytes |-> Bare("dummy") ]
DataOut(o) == IF o.dir # "out" THEN << >>
              ELSE [ k \in 1 .. o.data.nbytes |-> Byte(<< page, col + k - 1 >>) ]
WrLen(o) == Head1(o) + (IF o.dir = "out" THEN o.data.nbytes ELSE 0)
RdLen(o) == IF o.dir = "in" THEN o.data.nbytes ELSE 0

(* adjust_op_size of the adapter, and the lengths its exec_op refuses. *)
Adjust(o) == CASE drv = "serprog" -> AdjustOpSize(o, Field)
               [] drv = "ch347"   -> AdjustOpSize(o, MaxTrx)
               [] OTHER           -> AdjustDataSize(o, MaxTransfer)
Takes(o) == CASE drv = "serprog" -> WrLen(o) <= Field /\ RdLen(o) <= Field
              [] drv = "ch347"   -> o.addr.nbytes <= 4
              [] OTHER           -> TRUE

(* The next part of the page: adjust_op_size, the tests of spi_mem_exec_op *)
(* and those at the head of the adapter's exec_op.                         *)
Part ==
    /\ pc = "part" /\ (left > 0 \/ dir = "none")
    /\ op' = Adjust(WithData(Template, left))
    /\ IF SupportsOp(Mode, op') /\ Takes(op')
       THEN pc' = "send" /\ UNCHANGED loop
       ELSE Return(-1)
    /\ step' = 1
    /\ UNCHANGED << drv, held, dir, buf, page, line, far >>

PartsEnd ==
    /\ pc = "part" /\ left = 0 /\ dir # "none"
    /\ Ends("done")
    /\ UNCHANGED << drv, step, held, call, line, far >>

(* The values read go to the next columns of databuf. *)
Filled(at, values) ==
    [ c \in Columns |-> LET k == c - at + 1
                        IN  IF k \in DOMAIN values THEN values[k] ELSE buf[c] ]

Common == Open \/ OpenFails \/ Unwind \/ RemoveAdapter \/ Call \/ Part \/ PartsEnd
=============================================================================
