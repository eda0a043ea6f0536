------------------------------ MODULE Serprog ------------------------------
(***************************************************************************)
(* The serprog adapter, spi-mem/spi-mem-serprog.c: the program, a serial   *)
(* line that is a queue each way, and the programmer at its end.           *)
(*                                                                         *)
(* An item on the line is a command, a parameter or a byte; its size says  *)
(* how many bytes it is, so that a programmer that was promised bytes eats *)
(* whatever comes next.                                                    *)
(***************************************************************************)
EXTENDS AdapterCalls

CONSTANTS Eio,         \* errno of a call that failed
          MapLen       \* bytes of the answer to Q_CMDMAP

ASSUME SerprogAssumption == {Eio, MapLen} \subseteq Nat \ {0}

(* The programmer, which an earlier run may have left in an operation. *)
SerInit ==
    /\ up = << >> /\ glitch = "none"         \* tcflush
    /\ dev \in {Idle} \cup
          IF "killed" \in Faults
          THEN { Dev("op", need, rd, << >>) : need \in 1 .. 2, rd \in 0 .. 1 }
          ELSE {}
-----------------------------------------------------------------------------
(* The programmer. *)

Size(item) == CASE item.t = "hdr"             -> 7
                [] item.t = "param"           -> 4
                [] item.t = "addr"            -> 2
                [] OTHER                      -> 1

Reads(item) ==
    LET seen == Append(dev.seen, item)
        need == dev.need - Size(item)
    IN  \/ dev.mode = "lost" /\ UNCHANGED << dev, up, loaded, refused >>
        \/ /\ dev.mode = "idle"
           /\ dev' = CASE item.t = "hdr"  -> Dev("op", item.wr, item.rd, << >>)
                       [] item.t = "freq" -> Dev("freq", 4, 0, << >>)
                       [] OTHER           -> Idle
           /\ Answer(CASE item.t \in {"hdr", "freq"} -> << >>
                       [] item.t = "sync" -> << Bare("nak"), Bare("ack") >>
                       [] item.t = "map"  -> << Bare("ack") >> \o
                                             [ k \in 1 .. MapLen |-> Bare("map") ]
                       [] OTHER           -> << Bare("nak") >>)
           /\ UNCHANGED << loaded, refused >>
        \/ /\ dev.mode \in {"freq", "op"} /\ need # 0
           /\ dev' = IF need > 0 THEN Dev(dev.mode, need, dev.rd, seen) ELSE Lost
           /\ UNCHANGED << up, loaded, refused >>
        \/ /\ dev.mode = "freq" /\ need = 0
           /\ dev' = Idle /\ UNCHANGED << loaded, refused >>
           /\ Answer(<< Bare("ack") >> \o [ k \in 1 .. 4 |-> Bare("freq") ])
        \/ /\ dev.mode = "op" /\ need = 0
           /\ \E refuse \in IF "nak" \in Faults THEN BOOLEAN ELSE {FALSE} :
                 /\ dev' = Idle
                 /\ Answer(IF refuse THEN << Bare("nak") >>
                           ELSE << Bare("ack") >> \o [ k \in 1 .. dev.rd |->
                                Byte(ChipData(seen, dev.rd, 1)[k]) ])
                 /\ loaded' = IF refuse THEN loaded ELSE ChipLoads(seen, 1)
                 /\ refused' = (refused \/ refuse)

Programmer ==
    /\ drv = "serprog" /\ down # << >>
    /\ down' = Tail(down) /\ Reads(Head(down))
    /\ UNCHANGED << drv, pc, step, held, call, loop, glitch >>
-----------------------------------------------------------------------------
(* The program. *)

(* serprog_check_ack: whether the byte is S_ACK, or the read failed, which *)
(* its callers take for an ACK.                                            *)
CheckAck(ok) ==
    \/ /\ up # << >> /\ Taken(1)
       /\ CASE Head(up).t = "ack" -> ok
            [] Head(up).t = "nak" -> ~ ok
            [] OTHER              -> ok \in BOOLEAN
    \/ ReadFails("read", 0) /\ ok

(* serprog_sync *)
SyncWrite ==
    /\ pc = "sync" /\ step = 1
    /\ step' = 2
    /\ \/ Written(<< Bare("sync") >>)
       \/ WriteFails(<< >>)                 \* its result is not looked at
    /\ UNCHANGED << drv, pc, held, call, loop, far >>

SyncReadNone ==                             \* mutant: the answer is left alone
    /\ pc = "sync" /\ step \in 2 .. 3
    /\ step' = IF step = 2 THEN 3 ELSE 1
    /\ pc' = IF step = 2 THEN pc ELSE "map"
    /\ UNCHANGED << line, drv, held, call, loop, far >>
SyncRead ==
    /\ pc = "sync" /\ step \in 2 .. 3
    /\ \E ok \in BOOLEAN :
          /\ \/ /\ up # << >> /\ Taken(1)
                /\ Head(up).t = (IF step = 2 THEN "nak" ELSE "ack") => ok
                /\ Head(up).t = (IF step = 2 THEN "ack" ELSE "nak") => ~ ok
             \/ ReadFails("read", 0) /\ ~ ok
          /\ CASE ~ ok             -> Unwinds(Stages)
               [] ok /\ step = 2 -> pc' = pc /\ step' = 3
               [] OTHER          -> pc' = "map" /\ step' = 1
    /\ UNCHANGED << drv, held, call, loop, far >>
-----------------------------------------------------------------------------
(* serprog_exec_op for Q_CMDMAP and S_SPI_FREQ.  What it returns besides a *)
(* negative code its callers take for success, and the map may then be     *)
(* what was on the stack; what the map says of S_SPI_FREQ is chosen here.  *)
After(cmd) == step' = 1 /\ pc' \in {"idle"} \cup IF cmd = "map" THEN {"freq"} ELSE {}

ExecWrite(cmd) ==
    LET items == IF cmd = "freq" THEN << Bare("freq"), Bare("param") >>
                 ELSE << Bare("map") >>
    IN  /\ pc = cmd /\ step = 1
        /\ \/ Written(items) /\ step' = 2 /\ pc' = pc
           \/ /\ \E n \in 0 .. 1 : WriteFails(SubSeq(items, 1, n))
              /\ After(cmd)
        /\ UNCHANGED << drv, held, call, loop, far >>

ExecAck(cmd) ==
    /\ pc = cmd /\ step = 2
    /\ \E ok \in BOOLEAN :
          /\ CheckAck(ok)
          /\ IF ok THEN step' = 3 /\ pc' = pc ELSE Unwinds(Stages)
    /\ UNCHANGED << drv, held, call, loop, far >>

ExecReply(cmd) ==
    LET n == IF cmd = "map" THEN MapLen ELSE 4
    IN  /\ pc = cmd /\ step = 3
        /\ \/ /\ Len(up) >= n /\ Taken(n)
              /\ After(cmd)
           \/ /\ \E k \in 1 .. n - 1 : k <= Len(up) /\ ReadFails("short", k)
              /\ After(cmd)
           \/ ReadFails("read", 0) /\ After(cmd)
        /\ UNCHANGED << drv, held, call, loop, far >>
-----------------------------------------------------------------------------
(* What serprog_mem_exec_op writes, one write each; a write of data that   *)
(* takes a part is repeated for the rest.                                  *)
Header(o) == [ t |-> "hdr", wr |-> WrLen(o), rd |-> RdLen(o) ]
ChunksNoDummy(o) ==                         \* mutant: no dummy bytes
    << Header(o) >> \o SelectSeq(HeadItems(o), LAMBDA i : i.t # "dummy") \o DataOut(o)
Chunks(o) == << Header(o) >> \o HeadItems(o) \o DataOut(o)

Send ==
    /\ drv = "serprog" /\ pc = "send"
    /\ \/ /\ Written(<< Chunks(op)[step] >>)
          /\ IF step < Len(Chunks(op)) THEN pc' = "send" /\ step' = step + 1
             ELSE pc' = "ack" /\ step' = 0
          /\ UNCHANGED loop
       \/ WriteFails(<< >>) /\ Return(Eio) /\ UNCHANGED step
    /\ UNCHANGED << drv, held, call, far >>

OpAck ==
    /\ pc = "ack"
    /\ \E ok \in BOOLEAN :
          /\ CheckAck(ok)
          /\ CASE ~ ok -> Return(-1)
               [] ok /\ op.dir = "in" /\ op.data.nbytes > 0 ->
                    pc' = "data" /\ UNCHANGED loop
               [] OTHER -> Return(0)
    /\ UNCHANGED << drv, step, held, call, far >>

(* The read loop: step is rwdone. *)
Received(n) ==
    /\ Taken(n)
    /\ buf' = Filled(col + step, [ k \in 1 .. n |->
                                     IF up[k].t = "byte" THEN up[k].v ELSE Stale ])
OpRead ==
    /\ drv = "serprog" /\ pc = "data"
    /\ \/ \E n \in 1 .. op.data.nbytes - step :
             /\ n <= Len(up) /\ Received(n)
             /\ step' = step + n
             /\ IF step' < op.data.nbytes
                THEN UNCHANGED << pc, loop >>
                ELSE Return(0)
       \/ ReadFails("read", 0) /\ Return(Eio) /\ UNCHANGED << buf, step >>
    /\ UNCHANGED << drv, held, dir, op, page, far >>
-----------------------------------------------------------------------------
SerProgram ==
    \/ SyncWrite \/ SyncRead
    \/ \E cmd \in {"map", "freq"} : ExecWrite(cmd) \/ ExecAck(cmd) \/ ExecReply(cmd)
    \/ Send \/ OpAck \/ OpRead

SerPcs == {"sync", "map", "freq", "ack"}
=============================================================================
